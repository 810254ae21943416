----------------------------- MODULE TaskGuard ------------------------------
(***************************************************************************)
(* The process that owns a task's whole process tree, and its shutdown:    *)
(* PID 1 of the private namespace (worker_namespace.inside) or the         *)
(* subreaper of a test browser (browser_guard.main).  Orphans of the tree  *)
(* are adopted by the guard.  The namespace guard kills every process of   *)
(* its namespace with one call; the browser guard lists its direct         *)
(* children and kills them one by one.  Processes fork, exit and die       *)
(* between any two steps of the guard; a killed process forks no more, but  *)
(* takes its time to die.  A signal interrupts the guard between any two   *)
(* bytecodes where it is not masked or ignored.                            *)
(*                                                                         *)
(* When PID 1 ends, however it ends, the kernel kills and reaps the        *)
(* namespace.  When the subreaper ends, its tree lives on elsewhere.       *)
(***************************************************************************)
CONSTANTS
    Procs,          \* Processes the tree can have: the bound on forks.
    Task,           \* The first of them, Popen's child.
    Kinds,          \* Guards considered: "namespace", "browser".
    Guard           \* The guard, as a parent.

ASSUME GuardAssumption ==
    /\ Task \in Procs
    /\ Guard \notin Procs
    /\ Kinds \subseteq {"namespace", "browser"}

VARIABLES
    kind,           \* Which guard this is.
    pc,             \* The guard's next step.
    owned,          \* Popen's result was assigned to child.
    ignoring,       \* SIGTERM and SIGINT are masked or ignored.
    listed,         \* Browser guard: listed children still to be killed.
    receipt,        \* The complete frame or the reaped line was written.
    state,          \* Process: its life.
    parent          \* Process: who waits for it.

guardVars == <<kind, pc, owned, ignoring, listed, receipt>>
treeVars == <<state, parent>>
vars == <<guardVars, treeVars>>

Steps == {"ready", "spawn", "assign", "wait", "finally", "kill", "killEach",
          "waitChild", "waitAny", "collect", "emit", "exited"}
States == {"unborn", "running", "killed", "zombie", "reaped"}

TypeOK ==
    /\ kind \in Kinds
    /\ pc \in Steps
    /\ owned \in BOOLEAN /\ ignoring \in BOOLEAN /\ receipt \in BOOLEAN
    /\ listed \subseteq Procs
    /\ state \in [Procs -> States]
    /\ parent \in [Procs -> Procs \cup {Guard}]

Init ==
    /\ kind \in Kinds
    /\ pc = "ready"
    /\ owned = FALSE /\ ignoring = FALSE /\ receipt = FALSE
    /\ listed = {}
    /\ state = [p \in Procs |-> "unborn"]
    /\ parent = [p \in Procs |-> Guard]

Running(p) == state[p] \in {"running", "killed"}
Exists(p) == state[p] \in {"running", "killed", "zombie"}
Quiet == \A p \in Procs : ~Exists(p)

\* The guard ends; the end of PID 1 ends its namespace.
Exit ==
    /\ pc' = "exited"
    /\ state' = IF kind = "namespace"
                THEN [p \in Procs |-> IF Exists(p) THEN "reaped" ELSE state[p]]
                ELSE state
    /\ UNCHANGED <<kind, owned, ignoring, listed, parent>>

Goto(step) == pc' = step /\ UNCHANGED <<kind, listed, receipt>>

-----------------------------------------------------------------------------
\* The guard.

\* GO arrives, or prepare returns.
Begin ==
    /\ pc = "ready"
    /\ Goto("spawn")
    /\ UNCHANGED <<owned, ignoring, treeVars>>

\* End of file instead of GO, a bad request, no subreaper.
BeginRefused == pc = "ready" /\ Exit /\ UNCHANGED receipt

\* Popen has forked the task.
Spawn ==
    /\ pc = "spawn"
    /\ state' = [state EXCEPT ![Task] = "running"]
    /\ Goto("assign")
    /\ UNCHANGED <<owned, ignoring, parent>>

\* Popen raises without a process.
SpawnFails ==
    /\ pc = "spawn"
    /\ Goto("finally")
    /\ UNCHANGED <<owned, ignoring, treeVars>>

Assign ==
    /\ pc = "assign"
    /\ owned' = TRUE
    /\ Goto("wait")
    /\ UNCHANGED <<ignoring, treeVars>>

\* child.wait returns.
WaitReturns ==
    /\ pc = "wait"
    /\ state[Task] = "zombie"
    /\ state' = [state EXCEPT ![Task] = "reaped"]
    /\ Goto("finally")
    /\ UNCHANGED <<owned, ignoring, parent>>

\* The task's time is over: exit code 124.
WaitTimesOut ==
    /\ pc = "wait"
    /\ kind = "namespace"
    /\ Goto("finally")
    /\ UNCHANGED <<owned, ignoring, treeVars>>

\* SIGTERM or SIGINT, from outside or by the parent's death.  The handler
\* raises; the browser guard's ignores every later signal first.  Within
\* "finally" there is nothing left that would reap.
Signal ==
    /\ pc # "exited"
    /\ ~ignoring
    /\ IF pc \in {"spawn", "assign", "wait"}
       THEN /\ Goto("finally")
            /\ ignoring' = (kind = "browser")
            /\ UNCHANGED <<owned, treeVars>>
       ELSE Exit /\ UNCHANGED receipt

\* Mutant: the namespace guard collects at once when the task has ended.
FinallyCollects ==
    /\ pc = "finally"
    /\ kind = "browser" \/ owned
    /\ ignoring' = TRUE
    /\ Goto(IF kind = "namespace" /\ state[Task] = "reaped" THEN "collect" ELSE "kill")
    /\ UNCHANGED <<owned, treeVars>>

\* Signals are masked (namespace) or ignored (browser) for the cleanup.
Finally ==
    /\ pc = "finally"
    /\ kind = "browser" \/ owned
    /\ ignoring' = TRUE
    /\ Goto("kill")
    /\ UNCHANGED <<owned, treeVars>>

\* child is None: the namespace's exception goes on to the exit.
FinallyUnowned ==
    /\ pc = "finally"
    /\ kind = "namespace"
    /\ ~owned
    /\ Exit
    /\ UNCHANGED receipt

Kill(procs) == state' = [p \in Procs |-> IF p \in procs /\ Running(p) THEN "killed" ELSE state[p]]

\* kill(-1, SIGKILL).
KillAll ==
    /\ pc = "kill"
    /\ kind = "namespace"
    /\ Kill(Procs)
    /\ Goto("waitChild")
    /\ UNCHANGED <<owned, ignoring, parent>>

\* child.wait; a process already waited for returns at once.
WaitChild ==
    /\ pc = "waitChild"
    /\ state[Task] \in {"zombie", "reaped"}
    /\ state' = [state EXCEPT ![Task] = "reaped"]
    /\ Goto("waitAny")
    /\ UNCHANGED <<owned, ignoring, parent>>

\* The children file of the guard.
ListChildren ==
    /\ pc = "kill"
    /\ kind = "browser"
    /\ listed' = {p \in Procs : parent[p] = Guard /\ Exists(p)}
    /\ pc' = "killEach"
    /\ UNCHANGED <<kind, owned, ignoring, receipt, treeVars>>

KillEach ==
    /\ pc = "killEach"
    /\ \E p \in listed :
        /\ listed' = listed \ {p}
        /\ Kill({p})
    /\ UNCHANGED <<kind, pc, owned, ignoring, receipt, parent>>

KilledAll ==
    /\ pc = "killEach"
    /\ listed = {}
    /\ Goto("waitAny")
    /\ UNCHANGED <<owned, ignoring, treeVars>>

\* Mutant: after the first round only waiting is left.
WaitAnyOnce ==
    /\ pc = "waitAny"
    /\ \E p \in Procs :
        /\ parent[p] = Guard /\ state[p] = "zombie"
        /\ state' = [state EXCEPT ![p] = "reaped"]
    /\ UNCHANGED <<guardVars, parent>>

\* waitpid(-1) reaps one; then everything is killed again.
WaitAny ==
    /\ pc = "waitAny"
    /\ \E p \in Procs :
        /\ parent[p] = Guard /\ state[p] = "zombie"
        /\ state' = [state EXCEPT ![p] = "reaped"]
    /\ Goto("kill")
    /\ UNCHANGED <<owned, ignoring, parent>>

\* ECHILD.
NoChild ==
    /\ pc = "waitAny"
    /\ \A p \in Procs : parent[p] = Guard => ~Exists(p)
    /\ ignoring' = (kind = "browser")
    /\ Goto(IF kind = "namespace" THEN "collect" ELSE "emit")
    /\ UNCHANGED <<owned, treeVars>>

\* outputs.collect over the quiet workspace.
Collect ==
    /\ pc = "collect"
    /\ Goto("emit")
    /\ UNCHANGED <<owned, ignoring, treeVars>>

\* The workspace holds no acceptable output.
CollectFails == pc = "collect" /\ Exit /\ UNCHANGED receipt

\* The complete frame, or the line browser-tree-reaped-v1.
Emit == pc = "emit" /\ Exit /\ receipt' = TRUE

\* SIGKILL by the unit; the browser guard has no such unit around it.
OuterKill ==
    /\ pc # "exited"
    /\ kind = "namespace"
    /\ Exit
    /\ UNCHANGED receipt

-----------------------------------------------------------------------------
\* The tree.

Fork(p, q) ==
    /\ state[p] = "running"
    /\ q # Task
    /\ state[q] = "unborn"
    /\ state' = [state EXCEPT ![q] = "running"]
    /\ parent' = [parent EXCEPT ![q] = p]
    /\ UNCHANGED guardVars

\* Mutant: orphans go to init, as without a subreaper or a private namespace.
EndUnadopted(p) ==
    /\ Running(p)
    /\ state' = [state EXCEPT ![p] = "zombie"]
    /\ parent' = [q \in Procs |-> IF parent[q] = p THEN "init" ELSE parent[q]]
    /\ UNCHANGED guardVars

\* p exits or dies; its children are adopted by the guard.
End(p) ==
    /\ Running(p)
    /\ state' = [state EXCEPT ![p] = "zombie"]
    /\ parent' = [q \in Procs |-> IF parent[q] = p THEN Guard ELSE parent[q]]
    /\ UNCHANGED guardVars

ParentReaps(p) ==
    /\ state[p] = "zombie"
    /\ parent[p] # Guard
    /\ state' = [state EXCEPT ![p] = "reaped"]
    /\ UNCHANGED <<guardVars, parent>>

-----------------------------------------------------------------------------
GuardStep ==
    \/ Begin \/ Spawn \/ Assign \/ WaitReturns \/ Finally \/ FinallyUnowned
    \/ KillAll \/ WaitChild \/ ListChildren \/ KillEach \/ KilledAll
    \/ WaitAny \/ NoChild \/ Collect \/ Emit

GuardFails == BeginRefused \/ SpawnFails \/ WaitTimesOut \/ CollectFails

Next ==
    \/ GuardStep \/ GuardFails \/ Signal \/ OuterKill
    \/ \E p \in Procs : End(p) \/ ParentReaps(p) \/ \E q \in Procs : Fork(p, q)

Spec == Init /\ [][Next]_vars

\* The guard is scheduled and SIGKILL takes effect.  Nothing makes a process
\* exit by itself, nor its parent wait for it.
Fairness ==
    /\ WF_vars(GuardStep)
    /\ \A p \in Procs : WF_vars(state[p] = "killed" /\ End(p))

FairSpec == Spec /\ Fairness

-----------------------------------------------------------------------------
\* From the moment the workspace is read, and whenever a receipt was written,
\* no process of the tree is left that could run, write or fork: whichever
\* processes forked, detached or died while they were being killed.
QuietWhenTrusted == pc \in {"collect", "emit"} \/ receipt => Quiet

\* Once the cleanup began the guard ends: no orphan that escaped a round of
\* kills keeps waitpid waiting for ever.
ReapEnds == pc \in {"finally", "kill"} ~> pc = "exited"

\* browser_guard.py:3: "Exit acknowledges actual ECHILD, not signal delivery,
\* pipe closure or the browser main process's disappearance."
ExitMeansReaped == pc = "exited" => Quiet
=============================================================================
