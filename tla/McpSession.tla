----------------------------- MODULE McpSession -----------------------------
(***************************************************************************)
(* The private login session file of mcp_client.py and the programs that   *)
(* use it: login, headers, the workspace download and the operator calls   *)
(* of worker_driver.py.  Each is a process that takes the permanent lock,  *)
(* reads the file, exchanges it for a short-lived MCP credential and, when *)
(* the web access token has expired, rotates the login first.  An          *)
(* exception or SIGKILL ends a process at any step (Stops): a check that   *)
(* refuses is a step with no other way on.                                 *)
(*                                                                         *)
(* Of a session only the login it came from and the number of its refresh  *)
(* token matter; the access token is the one the latest rotation issued.   *)
(***************************************************************************)
EXTENDS Naturals, FiniteSets

CONSTANTS
    Clients,        \* Processes that can run at once.
    Accesses,       \* Choices of a login: records of a mode and an endpoint.
    MaxLogins,      \* Bound on logins.
    MaxRotations,   \* Bound on the rotations of one login.
    None,
    Torn            \* A session file that was cut off in writing.

VARIABLES
    file,           \* The session file: a session, None or Torn.
    disk,           \* What the name may hold after a power loss.
    lock,           \* Client that holds the permanent lock, or None.
    bound,          \* Login: the access chosen for it, None before it.
    current,        \* Login: the refresh token the server accepts.
    lost,           \* Logins a rotation of which was lost with its client.
    me              \* Client: its program, its step and its locals.

sessionVars == <<file, disk, lock, bound, current, lost>>

Logins == 1 .. MaxLogins
Sessions == [login : Logins, rotation : 0 .. MaxRotations]

\* A process that is not there.
Off == [prog |-> None, pc |-> "off", session |-> None, token |-> None,
        expects |-> None, plan |-> None, worker |-> None, intent |-> None,
        phase |-> None, want |-> None, got |-> <<>>]

At(c, step) == me[c].pc = step
Goto(c, step) == me' = [me EXCEPT ![c].pc = step]

\* Its descriptors close with the process: the lock goes with it.
Unlock(c) == lock' = IF lock = c THEN None ELSE lock

\* A rotation that was not saved is lost with the process.
Gone(c) ==
    /\ me' = [me EXCEPT ![c] = Off]
    /\ Unlock(c)
    /\ lost' = IF At(c, "save") THEN lost \cup {me[c].session.login} ELSE lost
    /\ UNCHANGED <<file, disk, bound, current>>

-----------------------------------------------------------------------------
\* Mutant: the lock file is not shared, as if each program had its own.
LockOwn(c) ==
    /\ At(c, "lock")
    /\ lock' = c
    /\ Goto(c, IF me[c].prog = "login" THEN "enter" ELSE "load")
    /\ UNCHANGED <<file, disk, bound, current, lost>>

Lock(c) ==
    /\ At(c, "lock")
    /\ lock = None
    /\ lock' = c
    /\ Goto(c, IF me[c].prog = "login" THEN "enter" ELSE "load")
    /\ UNCHANGED <<file, disk, bound, current, lost>>

\* Mutant: an operator call takes any login.
LoadAny(c) ==
    /\ At(c, "load")
    /\ file \in Sessions
    /\ me' = [me EXCEPT ![c].pc = "ask", ![c].session = file]
    /\ UNCHANGED sessionVars

\* The file under the lock.  An operator call wants the mode and the endpoint
\* its login was bound to.
Load(c) ==
    /\ At(c, "load")
    /\ file \in Sessions
    /\ me[c].expects \in {None, bound[file.login]}
    /\ me' = [me EXCEPT ![c].pc = "ask", ![c].session = file]
    /\ UNCHANGED sessionVars

\* What each program does with its credential.
AfterToken(prog) == CASE prog = "headers" -> "report"
                 [] prog = "download" -> "describe"
                 [] OTHER -> "call"

\* The server issues a credential of the session's own mode; the lock ends.
Ask(c) ==
    /\ me[c].pc \in {"ask", "again"}
    /\ me' = [me EXCEPT ![c].pc = AfterToken(me[c].prog), ![c].token = me[c].session.login,
                        ![c].session = None]
    /\ Unlock(c)
    /\ UNCHANGED <<file, disk, bound, current, lost>>

\* 401 at the first request; at the second it is an error.
Expired(c) == At(c, "ask") /\ Goto(c, "refresh") /\ UNCHANGED sessionVars

\* The server may rotate the refresh token it accepts, or keep it.
Rotated(login, n) ==
    /\ n \in {current[login], current[login] + 1} \cap (0 .. MaxRotations)
    /\ current' = [current EXCEPT ![login] = n]

Refresh(c) ==
    /\ At(c, "refresh")
    /\ me[c].session.rotation = current[me[c].session.login]
    /\ \E n \in 0 .. MaxRotations :
        /\ Rotated(me[c].session.login, n)
        /\ me' = [me EXCEPT ![c].pc = "save", ![c].session.rotation = n]
    /\ UNCHANGED <<file, disk, lock, bound, lost>>

\* The server rotates and its answer is lost.
RefreshLost(c) ==
    /\ At(c, "refresh")
    /\ me[c].session.rotation = current[me[c].session.login]
    /\ Rotated(me[c].session.login, current[me[c].session.login] + 1)
    /\ me' = [me EXCEPT ![c] = Off]
    /\ Unlock(c)
    /\ lost' = lost \cup {me[c].session.login}
    /\ UNCHANGED <<file, disk, bound>>

\* A synced temporary file takes the name at once.  The directory is not
\* synced: after a power loss the name may hold any content it had since the last one.
Save(c) ==
    /\ At(c, "save")
    /\ file' = me[c].session
    /\ disk' = disk \cup {me[c].session}
    /\ Goto(c, IF me[c].prog = "login" THEN "report" ELSE "again")
    /\ UNCHANGED <<lock, bound, current, lost>>

\* Email and password are accepted: a new login with its access.
Enter(c) ==
    /\ At(c, "enter")
    /\ \E n \in Logins, a \in Accesses :
        /\ \A m \in Logins : bound[m] = None <=> m >= n
        /\ bound' = [bound EXCEPT ![n] = a]
        /\ me' = [me EXCEPT ![c].pc = "check", ![c].session = [login |-> n, rotation |-> 0]]
    /\ UNCHANGED <<file, disk, lock, current, lost>>

\* MCP is asked for the chosen mode before the old session is replaced.
Check(c) == At(c, "check") /\ Goto(c, "save") /\ UNCHANGED sessionVars

Report(c) == At(c, "report") /\ Gone(c)

Stale(f) == f \in Sessions /\ f.rotation # current[f.login]

SessionPowerLoss ==
    /\ file' \in disk
    /\ disk' = {file'}
    /\ lock' = None
    /\ me' = [c \in Clients |-> Off]
    /\ lost' = lost \cup {l \in Logins : \E f \in {file'} : Stale(f) /\ f.login = l}
    /\ UNCHANGED <<bound, current>>

SessionStep(c) ==
    \/ Lock(c) \/ Load(c) \/ Ask(c) \/ Expired(c) \/ Refresh(c) \/ RefreshLost(c)
    \/ Save(c) \/ Enter(c) \/ Check(c) \/ Report(c)

\* The file is always whole, and its refresh token is the one the server
\* accepts: two programs at work never rotate each other's login away.  Only
\* the save that is about to happen, or a rotation that was lost with its
\* process, its answer or the power, leaves the file behind.
SessionKept ==
    /\ file # Torn
    /\ Stale(file) => \/ file.login \in lost
                      \/ \E c \in Clients : At(c, "save") /\ me[c].session.login = file.login
=============================================================================
