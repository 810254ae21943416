---------------------------- MODULE LocalPrograms ---------------------------
(***************************************************************************)
(* The programs an operator runs beside each other on one machine: the     *)
(* login helper, the worker driver and the workspace download              *)
(* (mcp_workspace.py), which share the session file and, the drivers, the  *)
(* state root.                                                             *)
(***************************************************************************)
EXTENDS WorkerEnrollment, Sequences

CONSTANTS
    Together,       \* Sets of programs considered beside each other.
    Snapshots,      \* Contents the room's workspace takes.
    Chunks,         \* Chunks of a bundle.
    Theirs          \* What another program writes to the destination.

ASSUME ProgramAssumption ==
    /\ {None, Torn, Theirs} \cap (Clients \cup Workers \cup Plans \cup Snapshots) = {}
    /\ Chunks \in Nat \ {0}
    /\ MaxLogins \in Nat \ {0} /\ MaxRotations \in Nat
    /\ SyncCarries \in BOOLEAN

\* None and Torn are no content of the session file, of a record or of a row.
ASSUME NothingAssumption ==
    /\ Torn # None
    /\ {None, Torn} \cap (Sessions \cup Logins \cup Intents \cup Accesses) = {}
    /\ None \notin [plan : Plans, access : Accesses]
    /\ \A p \in Plans : Expects(p) # None
    /\ \A i \in Intents : [worker |-> i.worker, endpoint |-> i.plan.endpoint] # None

VARIABLES
    programs,       \* The programs of this operator, one of Together.
    snapshot,       \* Server: the workspace's current content.
    dest            \* The destination: None, Theirs or the chunks of a bundle.

exportVars == <<programs, snapshot, dest>>
vars == <<sessionVars, enrollmentVars, exportVars, me>>

TypeOK ==
    /\ file \in Sessions \cup {None, Torn}
    /\ disk \subseteq Sessions \cup {None, Torn} /\ file \in disk
    /\ lock \in Clients \cup {None}
    /\ bound \in [Logins -> Accesses \cup {None}]
    /\ current \in [Logins -> 0 .. MaxRotations]
    /\ lost \subseteq Logins
    /\ {root, rootSafe} \subseteq BOOLEAN /\ (rootSafe => root)
    /\ safe \subseteq Visible /\ (Visible # {} => root)
    /\ row \in [Workers -> [plan : Plans, access : Accesses] \cup {None}]
    /\ revoked \subseteq {w \in Workers : row[w] # None}
    /\ programs \in Together
    /\ snapshot \in Snapshots

\* Before the first login and the first enrollment.
Init ==
    /\ programs \in Together
    /\ bound = [l \in Logins |-> None]
    /\ file = None
    /\ disk = {None}
    /\ lock = None
    /\ current = [l \in Logins |-> 0]
    /\ lost = {}
    /\ root = FALSE /\ rootSafe = FALSE
    /\ rec = [p \in Phases |-> None]
    /\ safe = {}
    /\ row = [w \in Workers |-> None]
    /\ revoked = {}
    /\ snapshot \in Snapshots
    /\ dest = None
    /\ me = [c \in Clients |-> Off]

Whole(s) == [i \in 1 .. Chunks |-> <<s, i>>]

-----------------------------------------------------------------------------
\* download.

Describe(c) ==
    /\ At(c, "describe")
    /\ me' = [me EXCEPT ![c].pc = "chunk", ![c].want = snapshot, ![c].token = None]
    /\ UNCHANGED exportVars

\* One chunk of the snapshot named by the descriptor; after a change of the
\* workspace the server refuses.
Chunk(c) ==
    /\ At(c, "chunk")
    /\ Len(me[c].got) < Chunks
    /\ snapshot = me[c].want
    /\ me' = [me EXCEPT ![c].got = Append(@, <<snapshot, Len(@) + 1>>)]
    /\ UNCHANGED exportVars

\* Mutant: the staged file is renamed onto the destination.
PublishReplaces(c) ==
    /\ At(c, "chunk")
    /\ me[c].got = Whole(me[c].want)
    /\ dest' = me[c].got
    /\ Goto(c, "report")
    /\ UNCHANGED <<programs, snapshot>>

\* Size and digest are the descriptor's; link refuses what is there.
Publish(c) ==
    /\ At(c, "chunk")
    /\ me[c].got = Whole(me[c].want)
    /\ dest = None
    /\ dest' = me[c].got
    /\ Goto(c, "report")
    /\ UNCHANGED <<programs, snapshot>>

\* Somebody edits the workspace.
Edit == "download" \in programs /\ snapshot' \in Snapshots \ {snapshot} /\ UNCHANGED <<programs, dest, me>>

\* Another program writes the destination.
OtherWrites == "download" \in programs /\ dest = None /\ dest' = Theirs /\ UNCHANGED <<programs, snapshot, me>>

-----------------------------------------------------------------------------
Starts(c, new) ==
    /\ At(c, "off")
    /\ new.prog \in programs
    /\ me' = [me EXCEPT ![c] = new]
    /\ UNCHANGED <<sessionVars, enrollmentVars, exportVars>>

StartSession(c) == \E p \in {"login", "headers", "download"} : Starts(c, [Off EXCEPT !.prog = p, !.pc = "lock"])

StartEnroll(c) ==
    \E plan \in Plans, w \in Workers \cup {None} :
        Starts(c, [Off EXCEPT !.prog = "enroll", !.pc = "root", !.plan = plan, !.worker = w])

StartDriver(c) == \E p \in {"revoke", "task", "run"} : Starts(c, [Off EXCEPT !.prog = p, !.pc = "root"])

\* An exception or SIGKILL.
Stops(c) == ~At(c, "off") /\ Gone(c) /\ UNCHANGED <<enrollmentVars, exportVars>>

PowerLoss == SessionPowerLoss /\ RootPowerLoss /\ dest' \in {dest, None} /\ UNCHANGED <<programs, snapshot>>

ClientStep(c) ==
    \/ StartSession(c) \/ StartEnroll(c) \/ StartDriver(c) \/ Stops(c)
    \/ SessionStep(c) /\ UNCHANGED <<enrollmentVars, exportVars>>
    \/ EnrollmentStep(c) /\ UNCHANGED exportVars
    \/ (Describe(c) \/ Chunk(c) \/ Publish(c)) /\ UNCHANGED <<sessionVars, enrollmentVars>>

Next ==
    \/ \E c \in Clients : ClientStep(c)
    \/ (Edit \/ OtherWrites) /\ UNCHANGED <<sessionVars, enrollmentVars>>
    \/ PowerLoss

Spec == Init /\ [][Next]_vars

-----------------------------------------------------------------------------
\* mcp_workspace.py:4: "Existing files are never overwritten."  The destination
\* appears once and then holds one snapshot whole, whatever changed on the
\* server between the chunks and whoever wrote the destination meanwhile.
WrittenOnce ==
    [][\/ dest' = None
       \/ dest = None /\ dest' \in {Theirs} \cup {Whole(s) : s \in Snapshots}]_dest
=============================================================================
