--------------------------- MODULE DueSlotProofs ----------------------------
(***************************************************************************)
(* The calendar loop of due-slot, for every cron function, horizon and     *)
(* backlog limit: the slot it claims is the latest one missed, and every   *)
(* earlier one is counted once.                                            *)
(***************************************************************************)
EXTENDS DueSlot, FiniteSetTheorems, WellFoundedInduction, TLAPS

-----------------------------------------------------------------------------
\* Arithmetic and sets.

\* A set of naturals has a least element: the form in which induction over
\* firing times is used below.
LEMMA Least ==
    ASSUME NEW T \in SUBSET Nat, T # {}
    PROVE  \E x \in T : \A y \in T : x <= y
  <1> DEFINE R == OpToRel(<, Nat)
  <1>1. IsWellFoundedOn(R, Nat)
    BY NatLessThanWellFounded
  <1> HIDE DEF R
  <1>2. PICK x \in T : \A y \in T : ~ (<<y, x>> \in R)
    BY <1>1, WFMin
  <1>3. \A y \in T : ~ (y < x)
    BY <1>2 DEF R, OpToRel
  <1>4. QED
    BY <1>3

\* A quotient is known from the interval its dividend lies in.
LEMMA QuotientIs ==
    ASSUME NEW n \in Nat, NEW q \in Nat, NEW d \in Nat, d > 0,
           q * d <= n, n < q * d + d
    PROVE  n \div d = q
  <1> DEFINE p == n \div d
  <1>1. p \in Nat /\ p * d <= n /\ n < p * d + d
    OBVIOUS
  <1> HIDE DEF p
  <1>2. q * d \in Nat /\ p * d \in Nat
    BY <1>1
  <1>3. q * d < p * d + d /\ p * d < q * d + d
    BY <1>1, <1>2
  <1>4. \A x, y \in Nat : x * d < y * d + d => x <= y
    OBVIOUS
  <1>5. q <= p /\ p <= q
    BY <1>1, <1>3, <1>4
  <1>6. QED
    BY <1>1, <1>5 DEF p

\* Every set of firing times is finite.
LEMMA TimesFinite ==
    ASSUME NEW S \in SUBSET Times
    PROVE  IsFiniteSet(S) /\ Cardinality(S) \in Nat /\ S \subseteq Nat
  <1>1. IsFiniteSet(Times) /\ Times \subseteq Nat
    BY DueSlotAssumption, FS_Interval DEF Times
  <1>2. IsFiniteSet(S)
    BY <1>1, FS_Subset
  <1>3. QED
    BY <1>1, <1>2, FS_CardinalityType

-----------------------------------------------------------------------------
\* The firing times.

Typed ==
    /\ cron \in [Times -> Answer]
    /\ first \in Times /\ now \in Times /\ at \in Times
    /\ skipped \in Nat

\* There is such a set of firing times: what every set closed under cron holds.
LEMMA FiringsExist ==
    ASSUME Typed
    PROVE  \E S \in SUBSET Times : Firings(S)
  <1> DEFINE Closed(C) == first \in C /\ \A t \in C : (cron[t] > t /\ cron[t] <= now) => cron[t] \in C
             S == {t \in Times : \A C \in SUBSET Times : Closed(C) => t \in C}
  <1>0. Times \subseteq Nat /\ \A t \in Times : cron[t] \in Nat /\ (cron[t] <= now => cron[t] \in Times)
    BY DueSlotAssumption DEF Typed, Times, Answer
  <1>1. first \in S
    BY DEF Typed
  <1>2. ASSUME NEW t \in S, cron[t] > t, cron[t] <= now PROVE cron[t] \in S
    BY <1>0, <1>2
  <1>3. ASSUME NEW t \in S, t # first, ~(t <= now /\ \E u \in S : u < t /\ cron[u] = t) PROVE FALSE
    <2> DEFINE C == S \ {t}
    <2>1. first \in C
      BY <1>1, <1>3
    <2>2. ASSUME NEW u \in C, cron[u] > u, cron[u] <= now PROVE cron[u] \in C
      <3>1. cron[u] \in S
        BY <1>2, <2>2
      <3>2. cron[u] # t
        BY <1>0, <1>3, <2>2
      <3>3. QED
        BY <3>1, <3>2
    <2>3. Closed(C) /\ C \in SUBSET Times
      BY <2>1, <2>2
    <2> HIDE DEF C
    <2>4. t \in C
      BY <1>3, <2>3
    <2>5. QED
      BY <2>4 DEF C
  <1>4. S \in SUBSET Times
    OBVIOUS
  <1> HIDE DEF S
  <1>5. Firings(S)
    BY <1>1, <1>2, <1>3 DEF Firings
  <1>6. QED
    BY <1>4, <1>5

\* Reached is one.
LEMMA ReachedFires ==
    ASSUME Typed
    PROVE  Reached \in SUBSET Times /\ Firings(Reached)
  BY FiringsExist DEF Reached

\* No firing lies before the cursor.
LEMMA NoneBefore ==
    ASSUME Typed, NEW S \in SUBSET Times, Firings(S)
    PROVE  \A t \in S : first <= t
  <1> DEFINE T == {t \in S : t < first}
  <1>1. S \subseteq Nat /\ T \in SUBSET Nat /\ first \in Nat
    BY TimesFinite, DueSlotAssumption DEF Typed, Times
  <1>2. ASSUME T # {} PROVE FALSE
    <2>1. PICK x \in T : \A y \in T : x <= y
      BY <1>1, <1>2, Least
    <2>2. x \in S /\ x < first /\ x # first
      BY <1>1, <2>1
    <2>3. PICK u \in S : u < x
      BY <2>2 DEF Firings
    <2>4. u \in T
      BY <1>1, <2>2, <2>3
    <2>5. QED
      BY <1>1, <2>1, <2>3, <2>4
  <1>3. QED
    BY <1>1, <1>2

-----------------------------------------------------------------------------
\* The loop.

\* Where the loop stands among the firing times S: at one of them, with the
\* earlier ones counted, none of which leads beyond it.
Standing(S) ==
    /\ at \in S
    /\ skipped = Cardinality({t \in S : t < at})
    /\ \A u \in S : u < at => cron[u] <= at

\* For a cron that adds a fixed interval the loop stands on the grid.
Anchored ==
    \A i \in 1..Overshoot :
        (\A t \in Times : cron[t] = t + i) => at = first + skipped * i

\* What the end of the loop was decided on.
Decided ==
    /\ outcome # "none" => at <= now
    /\ outcome = "due" =>
        skipped <= BacklogLimit /\ cron[at] > at /\ cron[at] > now
    /\ outcome = "backlog" => skipped > BacklogLimit

LoopInv ==
    /\ Typed
    /\ first <= at
    /\ \A S \in SUBSET Times : Firings(S) => Standing(S)
    /\ Anchored
    /\ Decided

\* No firing lies strictly between the slot the loop stands at and cron's
\* answer for it.
LEMMA NoneBetween ==
    ASSUME Typed, first <= at, NEW S \in SUBSET Times, Firings(S), Standing(S)
    PROVE  \A w \in S : at < w => cron[at] <= w
  <1> DEFINE T == {w \in S : at < w /\ w < cron[at]}
  <1>0. Times \subseteq Nat /\ Answer \subseteq Nat
    BY DueSlotAssumption DEF Times, Answer
  <1>1. /\ S \subseteq Nat /\ T \in SUBSET Nat /\ first \in Nat /\ at \in Nat
        /\ (\A t \in Times : cron[t] \in Nat) /\ cron[at] \in Nat
    BY <1>0 DEF Typed
  <1>2. ASSUME T # {} PROVE FALSE
    <2>1. PICK x \in T : \A y \in T : x <= y
      BY <1>1, <1>2, Least
    <2>2. x \in S /\ at < x /\ x < cron[at] /\ x # first
      BY <1>1, <2>1
    <2>3. PICK u \in S : u < x /\ cron[u] = x
      BY <2>2 DEF Firings
    <2>4. CASE u < at
      BY <1>1, <2>2, <2>3, <2>4 DEF Standing
    <2>5. CASE u = at
      BY <1>1, <2>2, <2>3, <2>5
    <2>6. CASE at < u
      <3>1. u \in T
        BY <1>1, <2>2, <2>3, <2>6
      <3>2. QED
        BY <1>1, <2>1, <2>3, <3>1
    <2>7. QED
      BY <1>1, <2>4, <2>5, <2>6
  <1>3. at \in Times
    BY DEF Typed
  <1>4. QED
    BY <1>1, <1>2, <1>3

\* One more turn of the loop counts one more firing.
LEMMA RecurStands ==
    ASSUME Typed, first <= at, NEW S \in SUBSET Times, Firings(S), Standing(S),
           cron[at] > at, cron[at] <= now
    PROVE  /\ cron[at] \in S
           /\ skipped + 1 = Cardinality({t \in S : t < cron[at]})
           /\ \A u \in S : u < cron[at] => cron[u] <= cron[at]
  <1> DEFINE C == {t \in S : t < at}
             D == {t \in S : t < cron[at]}
  <1>1. S \subseteq Nat /\ at \in Nat /\ cron[at] \in Nat /\ at \in S
        /\ \A t \in S : cron[t] \in Nat
    BY TimesFinite, DueSlotAssumption DEF Typed, Times, Answer, Standing
  <1>2. cron[at] \in S
    BY <1>1 DEF Firings
  <1>3. \A t \in S : t < cron[at] => t <= at
    BY <1>1, NoneBetween
  <1>4. D = C \cup {at} /\ at \notin C
    <2>1. \A t \in S : t < cron[at] <=> (t < at \/ t = at)
      BY <1>1, <1>3
    <2>2. ~ (at < at)
      BY <1>1
    <2>3. QED
      BY <1>1, <2>1, <2>2
  <1>5. IsFiniteSet(C) /\ skipped = Cardinality(C)
    BY TimesFinite DEF Standing
  <1>6. Cardinality(D) = skipped + 1
    <2> HIDE DEF C, D
    <2>1. QED
      BY <1>4, <1>5, FS_AddElement
  <1>7. ASSUME NEW u \in S, u < cron[at] PROVE cron[u] <= cron[at]
    <2>1. CASE u = at
      BY <1>1, <2>1
    <2>2. CASE u # at
      <3>1. cron[u] <= at
        BY <1>1, <1>3, <1>7, <2>2 DEF Standing
      <3>2. QED
        BY <1>1, <3>1
    <2>3. QED
      BY <2>1, <2>2
  <1>8. QED
    BY <1>2, <1>6, <1>7

\* The loop starts at the cursor with nothing counted.
LEMMA InitLoop ==
    ASSUME Init
    PROVE  LoopInv
  <1>1. Typed
    BY DEF Init, Typed
  <1>2. first \in Nat /\ now \in Nat /\ at = first /\ skipped = 0
    BY DueSlotAssumption DEF Init, Times
  <1>3. ASSUME NEW S \in SUBSET Times, Firings(S) PROVE Standing(S)
    <2>1. S \subseteq Nat /\ \A t \in S : first <= t
      BY <1>1, <1>3, TimesFinite, NoneBefore
    <2>2. \A t \in S : ~ (t < at)
      BY <1>2, <2>1
    <2>3. QED
      <3>1. {t \in S : t < at} = {}
        BY <2>2
      <3>2. QED
        BY <1>2, <1>3, <2>2, <3>1, FS_EmptySet DEF Firings, Standing
  <1>4. Anchored
    BY <1>2, DueSlotAssumption DEF Anchored
  <1>5. Decided
    BY <1>2 DEF Init, Due, Decided
  <1>6. QED
    BY <1>1, <1>2, <1>3, <1>4, <1>5 DEF LoopInv

\* Ending the loop keeps where it stands.
LEMMA StopKeeps ==
    ASSUME LoopInv, NEW result, Stop(result), Decided'
    PROVE  LoopInv'
  <1>1. cron' = cron /\ first' = first /\ now' = now /\ at' = at /\ skipped' = skipped
    BY DEF Stop
  <1>2. QED
    BY <1>1 DEF LoopInv, Typed, Firings, Standing, Anchored

\* A turn of the loop keeps its place in the count and on the grid.
LEMMA RecurKeeps ==
    ASSUME LoopInv, Recur
    PROVE  LoopInv'
  <1>0. Typed /\ first <= at /\ cron' = cron /\ first' = first /\ now' = now
        /\ at' = cron[at] /\ skipped' = skipped + 1 /\ outcome' = outcome
        /\ outcome = "looping" /\ cron[at] > at /\ cron[at] <= now
    BY DEF LoopInv, Recur
  <1>1. /\ Times \subseteq Nat /\ first \in Nat /\ at \in Nat /\ now \in Nat
        /\ cron[at] \in Nat /\ cron[at] \in Times /\ skipped \in Nat
    BY <1>0, DueSlotAssumption DEF Typed, Times, Answer
  <1>2. Typed'
    BY <1>0, <1>1 DEF Typed
  <1>3. (first <= at)'
    BY <1>0, <1>1
  <1>4. ASSUME NEW S \in SUBSET Times, Firings(S)' PROVE Standing(S)'
    <2>1. Firings(S)
      BY <1>0, <1>4 DEF Firings
    <2>2. Standing(S)
      BY <2>1 DEF LoopInv
    <2>3. QED
      BY <1>0, <2>1, <2>2, RecurStands DEF Standing
  <1>5. Anchored'
    <2> SUFFICES ASSUME NEW i \in 1..Overshoot, \A t \in Times : cron[t] = t + i
                 PROVE  cron[at] = first + (skipped + 1) * i
      BY <1>0 DEF Anchored
    <2>1. i \in Nat
      BY DueSlotAssumption
    <2>2. at = first + skipped * i
      BY DEF LoopInv, Anchored
    <2>3. cron[at] = at + i
      BY <1>0 DEF Typed
    <2>4. \A a, b \in Nat : (a + 1) * b = a * b + b /\ a * b \in Nat
      OBVIOUS
    <2>5. (skipped + 1) * i = skipped * i + i /\ skipped * i \in Nat
      BY <1>1, <2>1, <2>4
    <2>6. QED
      BY <1>1, <2>1, <2>2, <2>3, <2>5
  <1>6. Decided'
    BY <1>0 DEF Decided
  <1>7. QED
    BY <1>2, <1>3, <1>4, <1>5, <1>6 DEF LoopInv

\* The inductive invariant of the loop.
LEMMA LoopHolds == Spec => []LoopInv
  <1>1. Init => LoopInv
    BY InitLoop
  <1>2. LoopInv /\ [Next]_vars => LoopInv'
    <2> SUFFICES ASSUME LoopInv, [Next]_vars PROVE LoopInv'
      OBVIOUS
    <2>1. CASE TooLate
      <3>1. Decided'
        BY <2>1 DEF TooLate, Stop, LoopInv, Decided
      <3>2. QED
        BY <2>1, <3>1, StopKeeps DEF TooLate
    <2>2. CASE NoAdvance
      <3>1. Decided'
        BY <2>2 DEF NoAdvance, Stop, LoopInv, Decided
      <3>2. QED
        BY <2>2, <3>1, StopKeeps DEF NoAdvance
    <2>3. CASE Found
      <3>1. Decided'
        BY <2>3 DEF Found, Stop, LoopInv, Decided
      <3>2. QED
        BY <2>3, <3>1, StopKeeps DEF Found
    <2>4. CASE Recur
      BY <2>4, RecurKeeps
    <2>5. CASE UNCHANGED vars
      BY <2>5 DEF vars, LoopInv, Typed, Firings, Standing, Anchored, Decided
    <2>6. QED
      BY <2>1, <2>2, <2>3, <2>4, <2>5 DEF Next
  <1>3. QED
    BY <1>1, <1>2, PTL DEF Spec

-----------------------------------------------------------------------------
\* The slot claimed.

\* Where the loop ends, it stands among the firing times.
LEMMA EndStands ==
    ASSUME LoopInv
    PROVE  /\ Reached \in SUBSET Times /\ Firings(Reached) /\ Standing(Reached)
           /\ Typed /\ first <= at
  BY ReachedFires DEF LoopInv

\* due-slot claims the latest firing not after the time of the pass, counts
\* every earlier missed one exactly once, and leaves cron's next firing as the
\* cursor: for every cron function, one that skips or repeats included.
THEOREM LatestSlotClaimed == Spec => []LatestSlot
  <1>1. LoopInv => LatestSlot
    <2> SUFFICES ASSUME LoopInv, outcome = "due" PROVE LatestSlot
      BY DEF LatestSlot
    <2>1. /\ Reached \in SUBSET Times /\ Firings(Reached) /\ Standing(Reached)
          /\ Typed /\ first <= at
      BY EndStands
    <2>2. cron[at] > at /\ cron[at] > now /\ at <= now
      BY DEF LoopInv, Decided
    <2>3. Reached \subseteq Nat /\ at \in Nat /\ now \in Nat /\ cron[at] \in Nat
      BY <2>1, TimesFinite, DueSlotAssumption DEF Typed, Times, Answer
    <2>4. ASSUME NEW t \in Reached, at < t PROVE FALSE
      <3>1. cron[at] <= t
        BY <2>1, <2>4, NoneBetween
      <3>2. t <= now
        BY <2>1, <2>2, <2>3, <2>4 DEF Firings
      <3>3. QED
        BY <2>2, <2>3, <3>1, <3>2
    <2>5. \A t \in Reached : t <= at
      BY <2>3, <2>4
    <2>6. QED
      BY <2>1, <2>2, <2>5 DEF LatestSlot, Standing
  <1>2. QED
    BY <1>1, LoopHolds, PTL

\* For a cron that adds a fixed interval the loop and the closed form of the
\* interval branch claim the same slot, cursor and count.
THEOREM FormulaAgrees == Spec => []FormsAgree
  <1>1. LoopInv => FormsAgree
    <2> SUFFICES ASSUME LoopInv, outcome = "due",
                        NEW i \in 1..Overshoot, \A t \in Times : cron[t] = t + i
                 PROVE  IntervalSlot(i, first, now) =
                          [intended |-> at, next |-> cron[at], coalesced |-> skipped]
      BY DEF FormsAgree
    <2>1. /\ i \in Nat /\ i > 0 /\ first \in Nat /\ now \in Nat /\ at \in Nat
          /\ skipped \in Nat /\ at \in Times
      BY DueSlotAssumption DEF LoopInv, Typed, Times
    <2>2. at = first + skipped * i /\ cron[at] = at + i /\ at <= now /\ cron[at] > now
      BY <2>1 DEF LoopInv, Anchored, Decided
    <2>3. skipped * i \in Nat
      BY <2>1
    <2>4. now - first \in Nat /\ skipped * i <= now - first
          /\ now - first < skipped * i + i
      <3> DEFINE k == skipped * i
      <3>1. k \in Nat /\ at = first + k /\ at + i > now /\ at <= now
        BY <2>2, <2>3
      <3> HIDE DEF k
      <3>2. now - first \in Nat /\ k <= now - first /\ now - first < k + i
        BY <2>1, <3>1
      <3>3. QED
        BY <3>2 DEF k
    <2>5. (now - first) \div i = skipped
      BY <2>1, <2>4, QuotientIs
    <2>6. QED
      BY <2>2, <2>5 DEF IntervalSlot, IntendedSlot, Elapsed
  <1>2. QED
    BY <1>1, LoopHolds, PTL

\* A backlog within the limit is coalesced and only one beyond it is refused:
\* the boundary of due-slot's counter is exact for every limit.
THEOREM BacklogExact == Spec => []BacklogBoundary
  <1>1. LoopInv => BacklogBoundary
    <2> SUFFICES ASSUME LoopInv, outcome = "backlog"
                 PROVE  Cardinality({t \in Reached : t # first}) > BacklogLimit
      BY DEF BacklogBoundary, LoopInv, Decided
    <2>1. /\ Reached \in SUBSET Times /\ Firings(Reached) /\ Standing(Reached)
          /\ Typed /\ first <= at
      BY EndStands
    <2>2. skipped > BacklogLimit /\ skipped \in Nat /\ BacklogLimit \in Nat
      BY DueSlotAssumption DEF LoopInv, Decided, Typed
    <2> DEFINE C == {t \in Reached : t < at}
               D == C \cup {at}
               E == D \ {first}
               F == {t \in Reached : t # first}
    <2>3. Reached \subseteq Nat /\ at \in Reached /\ at \in Nat /\ first \in Nat
          /\ first \in Reached
      BY <2>1, TimesFinite, DueSlotAssumption DEF Standing, Firings, Typed, Times
    <2>4. IsFiniteSet(C) /\ IsFiniteSet(F) /\ Cardinality(F) \in Nat
      BY <2>1, TimesFinite
    <2>5. Cardinality(C) = skipped
      BY <2>1 DEF Standing
    <2>6. at \notin C /\ first \in D /\ E \in SUBSET F
      BY <2>1, <2>3
    <2> HIDE DEF C, F
    <2>7. IsFiniteSet(D) /\ Cardinality(D) = skipped + 1
      BY <2>4, <2>5, <2>6, FS_AddElement
    <2> HIDE DEF D
    <2>8. IsFiniteSet(E) /\ Cardinality(E) = skipped
      BY <2>2, <2>6, <2>7, FS_RemoveElement
    <2> HIDE DEF E
    <2>9. skipped <= Cardinality(F)
      BY <2>4, <2>6, <2>8, FS_Subset
    <2>10. QED
      BY <2>2, <2>4, <2>9 DEF F
  <1>2. QED
    BY <1>1, LoopHolds, PTL
=============================================================================
