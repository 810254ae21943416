------------------------------ MODULE DueSlot ------------------------------
(***************************************************************************)
(* due-slot of model/workflow_schedules.clj for calendar cadences: a loop  *)
(* that steps through the firing times cron gives until the next one lies  *)
(* after now.  Cron is external: any function of times, also one that      *)
(* fails to advance.                                                       *)
(***************************************************************************)
EXTENDS Cadence, FiniteSets

CONSTANTS
    Horizon,        \* Latest time a pass may run at.
    Overshoot,      \* How far beyond the horizon cron may answer.
    BacklogLimit    \* 4096 in the code.

ASSUME DueSlotAssumption ==
    /\ Horizon \in Nat
    /\ Overshoot \in Nat \ {0}
    /\ BacklogLimit \in Nat

VARIABLES
    cron,       \* cron/next-fire-time: the firing time after a given one.
    first,      \* The activation's next-fire cursor.
    now,        \* The time of the pass.
    at,         \* Loop: the slot under consideration.
    skipped,    \* Loop: slots passed over so far.
    outcome     \* "looping", then "none", "due", "backlog" or "invalid".

vars == <<cron, first, now, at, skipped, outcome>>

Times  == 0..Horizon
Answer == 0..(Horizon + Overshoot)

Init ==
    /\ cron \in [Times -> Answer]
    /\ first \in Times
    /\ now \in Times
    /\ at = first
    /\ skipped = 0
    /\ outcome = IF Due(first, now) THEN "looping" ELSE "none"

Stop(result) ==
    /\ outcome' = result
    /\ UNCHANGED <<cron, first, now, at, skipped>>

\* Mutant: off by one at the limit.
TooLateEarly ==
    /\ outcome = "looping"
    /\ skipped >= BacklogLimit
    /\ Stop("backlog")

\* More slots were missed than the loop is willing to walk.
TooLate ==
    /\ outcome = "looping"
    /\ skipped > BacklogLimit
    /\ Stop("backlog")

\* Cron did not move forward: fail instead of looping.
NoAdvance ==
    /\ outcome = "looping"
    /\ skipped <= BacklogLimit
    /\ cron[at] <= at
    /\ Stop("invalid")

\* Mutant: the first missed slot is claimed, not the latest.
FoundFirst ==
    /\ outcome = "looping"
    /\ skipped <= BacklogLimit
    /\ cron[at] > at
    /\ Stop("due")

\* The next firing lies in the future: at is the slot to claim.
Found ==
    /\ outcome = "looping"
    /\ skipped <= BacklogLimit
    /\ cron[at] > at /\ cron[at] > now
    /\ Stop("due")

\* Mutant: the loop neither checks that cron advances nor counts.
RecurUnchecked ==
    /\ outcome = "looping"
    /\ cron[at] <= now
    /\ at' = cron[at]
    /\ UNCHANGED <<cron, first, now, skipped, outcome>>

\* recur with the next slot, which was missed too.
Recur ==
    /\ outcome = "looping"
    /\ skipped <= BacklogLimit
    /\ cron[at] > at /\ cron[at] <= now
    /\ at' = cron[at]
    /\ skipped' = skipped + 1
    /\ UNCHANGED <<cron, first, now, outcome>>

Next == TooLate \/ NoAdvance \/ Found \/ Recur

Spec == Init /\ [][Next]_vars /\ WF_vars(Next)

-----------------------------------------------------------------------------
\* S is the set of the schedule's firing times up to now: first and every
\* time cron reaches from it without passing now.
Firings(S) ==
    /\ first \in S
    /\ \A t \in S : (cron[t] > t /\ cron[t] <= now) => cron[t] \in S
    /\ \A t \in S : t = first \/ (t <= now /\ \E u \in S : u < t /\ cron[u] = t)

Reached == CHOOSE S \in SUBSET Times : Firings(S)

\* A claimed slot is the latest firing not after now, every earlier missed
\* firing is counted exactly once as coalesced, and the new cursor is cron's
\* next firing.  A slot never repeats and none vanishes uncounted.
LatestSlot ==
    outcome = "due" =>
        /\ at \in Reached
        /\ \A t \in Reached : t <= at
        /\ skipped = Cardinality({t \in Reached : t < at})
        /\ cron[at] > now

\* Calendar loop and interval formula agree wherever both apply: for a cron
\* that adds a fixed interval, both claim the same slot, cursor and count.
FormsAgree ==
    \A i \in 1..Overshoot :
        (outcome = "due" /\ \A t \in Times : cron[t] = t + i) =>
            IntervalSlot(i, first, now) =
                [intended |-> at, next |-> cron[at], coalesced |-> skipped]

\* A backlog within the limit is always coalesced and one beyond it always
\* refused: the limit itself still succeeds (no off-by-one at 4096).
BacklogBoundary ==
    /\ outcome = "due" => skipped <= BacklogLimit
    /\ outcome = "backlog" => Cardinality({t \in Reached : t # first}) > BacklogLimit

\* The loop ends for every cron function, one that stands still included.
Terminates == <>(outcome # "looping")
=============================================================================
