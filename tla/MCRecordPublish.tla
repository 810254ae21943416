-------------------------- MODULE MCRecordPublish ---------------------------
(***************************************************************************)
(* An instance of RecordPublish for TLC: two records of one Run, which the *)
(* claim adopts from each other, and one of another.                       *)
(***************************************************************************)
EXTENDS RecordPublish, TLC

CONSTANTS v1, v2, v3

MCValues == {v1, v2, v3}
MCSubject == [v \in MCValues |-> IF v = v3 THEN "other" ELSE "run"]

\* Callers are interchangeable.
SomeCaller == Permutations(Callers)
=============================================================================
