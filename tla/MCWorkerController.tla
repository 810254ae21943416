------------------------- MODULE MCWorkerController -------------------------
(***************************************************************************)
(* An instance of WorkerController for TLC: two assignments of one worker. *)
(* The Runs are interchangeable, but symmetry is unsound for liveness.     *)
(***************************************************************************)
EXTENDS WorkerController
=============================================================================
