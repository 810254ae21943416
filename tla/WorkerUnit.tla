----------------------------- MODULE WorkerUnit -----------------------------
(***************************************************************************)
(* The transient systemd unit of each Run, as worker_unit.UnitBus drives   *)
(* and observes it.  The unit's own life (the manager, the guard of        *)
(* worker_namespace.inside, the task) is the environment of the observer:  *)
(* a unit that ends successfully is unloaded as soon as no connection      *)
(* holds a reference (AddRef, RefUnit); a failed one stays loaded.         *)
(***************************************************************************)
EXTENDS WorkerIds, Naturals

VARIABLES
    unit,           \* Run: the state of its unit.
    executions      \* Run: how often its guard was told GO.

unitVars == <<unit, executions>>

Alive == {"waiting", "executing", "exiting", "stopping"}
Ended == {"inactive", "failed"}
Loaded == Alive \cup Ended
\* "late": StartTransientUnit was sent, its reply lost; "gone": unloaded.
UnitStates == {"none", "late", "gone"} \cup Loaded

UnitInit ==
    /\ unit = [r \in Runs |-> "none"]
    /\ executions = [r \in Runs |-> 0]

Unit(r, s) == unit' = [unit EXCEPT ![r] = s] /\ UNCHANGED executions

-----------------------------------------------------------------------------
\* Calls of the observer.

\* launch: the guard runs and waits for its request, then for GO.
StartUnit(r) == unit[r] = "none" /\ Unit(r, "waiting")

\* launch raises: the call was lost, or it commits and its reply is lost.
StartUnitUnknown(r) ==
    unit[r] = "none" /\ (Unit(r, "late") \/ UNCHANGED unitVars)

\* stop, abort_launch: StopUnit of a loaded unit; one that ended is left.
StopUnit(r) ==
    /\ unit[r] \in Loaded
    /\ Unit(r, IF unit[r] \in Alive THEN "stopping" ELSE unit[r])

\* Mutant: the unit's main process is gone, its cgroup may be populated.
ObservedStoppedEarly(r) == unit[r] \in Ended \cup {"exiting"}

\* wait_stopped: inactive or failed, no job, no main process, empty cgroup.
ObservedStopped(r) == unit[r] \in Ended

\* GO on the guard's pipe: the task starts.
ReceiveGo(r) ==
    /\ unit[r] = "waiting"
    /\ unit' = [unit EXCEPT ![r] = "executing"]
    /\ executions' = [executions EXCEPT ![r] = @ + 1]

-----------------------------------------------------------------------------
\* The unit's own life.

LateStart(r) == unit[r] = "late" /\ Unit(r, "waiting")

\* End of file: instead of the request an error, instead of GO a normal exit.
GuardEof(r) == unit[r] = "waiting" /\ (Unit(r, "failed") \/ Unit(r, "exiting"))

\* The task ended and the guard emits its complete frame.
Completes(r) == unit[r] = "executing" /\ Unit(r, "exiting")

\* A normal exit, or the end of a requested stop.
Ends(r) == unit[r] \in {"exiting", "stopping"} /\ Unit(r, "inactive")

\* Runtime limit, memory limit, a guard's error, a stop by SIGKILL.
Dies(r) == unit[r] \in Alive /\ Unit(r, "failed")

\* The manager unloads what ended well and nobody references.
Collect(r) == unit[r] = "inactive" /\ Unit(r, "gone")

PowerLossUnits ==
    /\ unit' = [r \in Runs |-> IF unit[r] = "none" THEN "none" ELSE "gone"]
    /\ UNCHANGED executions
=============================================================================
