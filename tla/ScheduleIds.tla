---------------------------- MODULE ScheduleIds ----------------------------
(***************************************************************************)
(* Identities shared by the schedule outbox and the work-request journal.  *)
(*                                                                         *)
(* An occurrence id is the content hash of (activation, revision, intended *)
(* time) and a request id that of (party, room, occurrence id): both are   *)
(* functions of the activation and the slot, so the pair itself stands for *)
(* either.                                                                 *)
(***************************************************************************)
EXTENDS Naturals

CONSTANTS
    Activations,    \* Deployed schedules.
    MaxTime,        \* Bound on the clock (and so on the number of slots).
    None            \* An absent attribute.

Slots == 0..MaxTime
Oids  == Activations \X Slots

ASSUME IdsAssumption ==
    /\ MaxTime \in Nat
    /\ None \notin Oids
=============================================================================
