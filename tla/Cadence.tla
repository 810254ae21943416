------------------------------ MODULE Cadence ------------------------------
(***************************************************************************)
(* The closed form of due-slot in model/workflow_schedules.clj: which slot *)
(* of a fixed-interval schedule a dispatcher pass claims.  Times are       *)
(* natural numbers (milliseconds in the code).                             *)
(***************************************************************************)
EXTENDS Integers

\* when-not (.after first-fire now): a slot is due once its time has come.
Due(first, now) == first <= now

\* Whole intervals already elapsed since the slot the cursor points at.
Elapsed(interval, first, now) == (now - first) \div interval

\* The latest slot not after now.  Slots stay anchored at first, so a late
\* pass never shifts the schedule.
IntendedSlot(interval, first, now) ==
    first + Elapsed(interval, first, now) * interval

\* Mutant: the next slot is anchored at the pass, not at the schedule.
IntervalSlotDrift(interval, first, now) ==
    [intended  |-> IntendedSlot(interval, first, now),
     next      |-> now + interval,
     coalesced |-> Elapsed(interval, first, now)]

\* The answer for the interval branch.
IntervalSlot(interval, first, now) ==
    [intended  |-> IntendedSlot(interval, first, now),
     next      |-> IntendedSlot(interval, first, now) + interval,
     coalesced |-> Elapsed(interval, first, now)]
=============================================================================
