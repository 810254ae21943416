------------------------ MODULE MCScheduleDispatcher ------------------------
(***************************************************************************)
(* Instances of ScheduleDispatcher for TLC.                                *)
(***************************************************************************)
EXTENDS ScheduleDispatcher, TLC

AllPlain == [a \in Activations |-> "plain"]
AllLive  == [a \in Activations |-> "live"]

PlainAndFrozen ==
    LET plain == CHOOSE a \in Activations : TRUE
    IN  [a \in Activations |-> IF a = plain THEN "plain" ELSE "frozen"]

\* Humans are interchangeable: no action or safety property names one.
SomeHuman == Permutations(Humans)
=============================================================================
