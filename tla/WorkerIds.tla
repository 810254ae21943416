----------------------------- MODULE WorkerIds ------------------------------
(***************************************************************************)
(* What the worker's server, journal, units and controller all name.       *)
(***************************************************************************)
CONSTANTS
    Runs,           \* Assignments of one worker.
    None            \* No value.

ASSUME WorkerAssumption == None \notin Runs /\ None \notin {"completed", "stopped"}
=============================================================================
