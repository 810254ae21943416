-------------------------- MODULE TaskGuardProofs --------------------------
(***************************************************************************)
(* For every bound on the tree and both guards: when the guard reads the   *)
(* workspace or writes its receipt, no process of the task's tree is left. *)
(*                                                                         *)
(* ECHILD only says that the guard has no child.  That nothing else exists *)
(* either rests on the shape of the tree, which no single system call      *)
(* shows: whoever exists has the guard or a running process for a parent   *)
(* (Adopted), and no set of processes is made of each other's children     *)
(* (Rooted).  Stated for sets, the second fact needs no induction.         *)
(***************************************************************************)
EXTENDS TaskGuard, TLAPS

\* Orphans are adopted, so a parent is the guard or runs.
Adopted ==
    /\ parent[Task] = Guard
    /\ \A p \in Procs : Exists(p) /\ parent[p] # Guard => Running(parent[p])

\* Among any processes that exist, one has its parent outside.
Rooted ==
    \A S \in SUBSET Procs :
        S # {} /\ (\A p \in S : Exists(p)) => \E p \in S : parent[p] \notin S

\* Only a guard that found no child collects or emits, and it emits last.
Trusted ==
    /\ pc \in {"collect", "emit"} => Quiet
    /\ receipt => pc = "exited" /\ Quiet

IInv == TypeOK /\ Adopted /\ Rooted /\ Trusted
-----------------------------------------------------------------------------
\* The tree alone: its types, and what any step may do to it besides Spawn,
\* Fork and End: processes die, are reaped, or all end with their namespace.
TreeTypeOK ==
    /\ state \in [Procs -> States]
    /\ parent \in [Procs -> Procs \cup {Guard}]

Fades ==
    /\ UNCHANGED parent
    /\ state' \in [Procs -> States]
    /\ \A p \in Procs : Exists(p)' => Exists(p)
    /\ \/ \A p \in Procs : Running(p) => Running(p)'
       \/ \A p \in Procs : ~Exists(p)'

TreeMove ==
    \/ Fades
    \/ Spawn
    \/ \E p \in Procs : End(p) \/ \E q \in Procs : Fork(p, q)

\* The guard's exit takes the whole namespace along, or nothing.
LEMMA ExitFades ==
    ASSUME TreeTypeOK, Exit
    PROVE  Fades
  BY DEF TreeTypeOK, Exit, Fades, Exists, Running, States

\* Each step of the guard or of a process is one of these.
LEMMA TreeMoves ==
    ASSUME TreeTypeOK, [Next]_vars
    PROVE  TreeMove
  <1> USE GuardAssumption DEF TreeMove
  <1>1. CASE UNCHANGED treeVars
    BY <1>1 DEF TreeTypeOK, Fades, Exists, Running, treeVars
  <1>2. CASE BeginRefused \/ FinallyUnowned \/ CollectFails \/ Emit \/ OuterKill
    BY <1>2, ExitFades DEF BeginRefused, FinallyUnowned, CollectFails, Emit, OuterKill
  <1>3. CASE Signal
    BY <1>1, <1>3, ExitFades DEF Signal
  <1>4. CASE WaitReturns \/ WaitChild \/ WaitAny \/ \E p \in Procs : ParentReaps(p)
    BY <1>4 DEF WaitReturns, WaitChild, WaitAny, ParentReaps, TreeTypeOK, Fades, Exists,
       Running, States
  <1>5. ASSUME NEW procs \in SUBSET Procs, Kill(procs), UNCHANGED parent
        PROVE  Fades
    BY <1>5 DEF Kill, TreeTypeOK, Fades, Exists, Running, States
  <1>6. CASE KillAll
    BY <1>5, <1>6 DEF KillAll
  <1>7. CASE KillEach
    <2>1. PICK p \in listed : Kill({p})
      BY <1>7 DEF KillEach
    <2>2. Kill({p} \cap Procs) /\ UNCHANGED parent
      BY <1>7, <2>1 DEF KillEach, Kill
    <2>3. QED
      BY <1>5, <2>2
  <1>8. CASE Begin \/ Assign \/ Finally \/ ListChildren \/ KilledAll \/ NoChild \/ Collect
             \/ SpawnFails \/ WaitTimesOut
    BY <1>1, <1>8 DEF Begin, Assign, Finally, ListChildren, KilledAll, NoChild, Collect,
       SpawnFails, WaitTimesOut
  <1>9. QED
    BY <1>1, <1>2, <1>3, <1>4, <1>6, <1>7, <1>8 DEF Next, GuardStep, GuardFails, vars

\* Types, adoption and the shape of the tree.
LEMMA TreeStep ==
    ASSUME TreeTypeOK, Adopted, Rooted, TreeMove
    PROVE  TreeTypeOK' /\ Adopted' /\ Rooted'
  <1> USE GuardAssumption DEF TreeTypeOK
  <1>1. CASE Fades
    <2>1. TreeTypeOK' /\ Adopted'
      BY <1>1 DEF Fades, Adopted
    <2>2. ASSUME NEW S \in SUBSET Procs, S # {}, \A p \in S : Exists(p)'
          PROVE  \E p \in S : parent'[p] \notin S
      <3>1. \A p \in S : Exists(p)
        BY <1>1, <2>2 DEF Fades
      <3>2. QED
        BY <1>1, <2>2, <3>1 DEF Fades, Rooted
    <2>3. QED
      BY <2>1, <2>2 DEF Rooted, Exists
  <1>2. CASE Spawn
    <2>1. /\ state' = [state EXCEPT ![Task] = "running"] /\ parent' = parent
          /\ \A p \in Procs : p # Task => state'[p] = state[p]
      BY <1>2 DEF Spawn, treeVars
    <2>2. TreeTypeOK' /\ Adopted'
      BY <2>1 DEF Adopted, Exists, Running, States
    <2>3. ASSUME NEW S \in SUBSET Procs, S # {}, \A p \in S : Exists(p)'
          PROVE  \E p \in S : parent'[p] \notin S
      <3>1. CASE Task \in S
        BY <2>1, <3>1 DEF Adopted
      <3>2. CASE Task \notin S
        <4>1. \A p \in S : Exists(p)
          BY <2>1, <2>3, <3>2 DEF Exists
        <4>2. QED
          BY <2>1, <2>3, <4>1 DEF Rooted
      <3>3. QED
        BY <3>1, <3>2
    <2>4. QED
      BY <2>2, <2>3 DEF Rooted, Exists
  <1>3. ASSUME NEW p \in Procs, End(p)
        PROVE  TreeTypeOK' /\ Adopted' /\ Rooted'
    <2>1. /\ state' = [state EXCEPT ![p] = "zombie"] /\ Running(p)
          /\ parent' = [q \in Procs |-> IF parent[q] = p THEN Guard ELSE parent[q]]
      BY <1>3 DEF End
    <2>2. \A q \in Procs : Exists(q)' => Exists(q)
      BY <2>1 DEF Exists, Running
    <2>3. TreeTypeOK'
      BY <2>1 DEF States
    <2>4. Adopted'
      BY <2>1, <2>2 DEF Adopted, Exists, Running
    <2>5. ASSUME NEW S \in SUBSET Procs, S # {}, \A q \in S : Exists(q)'
          PROVE  \E q \in S : parent'[q] \notin S
      <3>1. PICK q \in S : parent[q] \notin S
        BY <2>2, <2>5 DEF Rooted
      <3>2. QED
        BY <2>1, <3>1
    <2>6. QED
      BY <2>3, <2>4, <2>5 DEF Rooted, Exists
  <1>4. ASSUME NEW p \in Procs, NEW q \in Procs, Fork(p, q)
        PROVE  TreeTypeOK' /\ Adopted' /\ Rooted'
    <2>1. /\ state[p] = "running" /\ state[q] = "unborn" /\ q # Task /\ p # q
          /\ state' = [state EXCEPT ![q] = "running"]
          /\ parent' = [parent EXCEPT ![q] = p]
      BY <1>4 DEF Fork
    <2>2. TreeTypeOK'
      BY <2>1 DEF States
    <2>3. Adopted'
      BY <2>1 DEF Adopted, Exists, Running
    <2>4. ASSUME NEW S \in SUBSET Procs, S # {}, \A x \in S : Exists(x)'
          PROVE  \E x \in S : parent'[x] \notin S
      <3>1. CASE S = {q}
        BY <2>1, <3>1
      <3>2. CASE S # {q}
        <4>1. S \ {q} # {} /\ S \ {q} \in SUBSET Procs
          BY <2>4, <3>2
        <4>2. \A x \in S \ {q} : Exists(x)
          BY <2>1, <2>4 DEF Exists
        <4>3. PICK x \in S \ {q} : parent[x] \notin S \ {q}
          BY <4>1, <4>2 DEF Rooted
        <4>4. parent[x] # q
          BY <2>1, <4>2, <4>3 DEF Adopted, Running
        <4>5. QED
          BY <2>1, <4>3, <4>4
      <3>3. QED
        BY <3>1, <3>2
    <2>5. QED
      BY <2>2, <2>3, <2>4 DEF Rooted, Exists
  <1>5. QED
    BY <1>1, <1>2, <1>3, <1>4 DEF TreeMove

\* ECHILD: nobody has the guard for a parent, so nobody exists.
LEMMA ChildlessIsQuiet ==
    ASSUME TreeTypeOK, Adopted, Rooted, \A p \in Procs : parent[p] = Guard => ~Exists(p)
    PROVE  Quiet
  <1> DEFINE S == {p \in Procs : Exists(p)}
  <1>1. \A p \in S : parent[p] \in S
    BY DEF Adopted, TreeTypeOK, Running, Exists
  <1>2. S = {}
    <2>1. S \in SUBSET Procs /\ \A p \in S : Exists(p)
      OBVIOUS
    <2>2. QED
      BY <1>1, <2>1 DEF Rooted
  <1>3. QED
    BY <1>2 DEF Quiet

\* A quiet tree stays quiet: only the guard could start it anew.
LEMMA QuietStays ==
    ASSUME Quiet, TreeMove, pc # "spawn"
    PROVE  Quiet'
  <1>1. CASE Fades
    BY <1>1 DEF Fades, Quiet
  <1>2. ~Spawn
    BY DEF Spawn
  <1>3. ~\E p \in Procs : End(p) \/ \E q \in Procs : Fork(p, q)
    BY DEF Quiet, Exists, End, Fork, Running
  <1>4. QED
    BY <1>1, <1>2, <1>3 DEF TreeMove

-----------------------------------------------------------------------------
\* How the guard comes to trust the workspace, and that it ends with that.
GuardMove ==
    /\ pc' \in {"collect", "emit"} => pc \in {"collect", "emit"} \/ NoChild
    /\ receipt' => receipt \/ Emit
    /\ pc = "exited" => pc' = "exited"

\* The guard's own steps, one by one.
LEMMA GuardMoves ==
    ASSUME [Next]_vars
    PROVE  GuardMove
  <1> USE DEF GuardMove, Goto
  <1>1. CASE GuardStep
    <2>1. CASE Begin \/ Spawn \/ Assign \/ WaitReturns \/ Finally \/ KillAll \/ WaitChild
      BY <2>1 DEF Begin, Spawn, Assign, WaitReturns, Finally, KillAll, WaitChild
    <2>2. CASE ListChildren \/ KillEach \/ KilledAll \/ WaitAny \/ NoChild \/ Collect
      BY <2>2 DEF ListChildren, KillEach, KilledAll, WaitAny, NoChild, Collect
    <2>3. CASE FinallyUnowned \/ Emit
      BY <2>3 DEF FinallyUnowned, Emit, Exit
    <2>4. QED
      BY <1>1, <2>1, <2>2, <2>3 DEF GuardStep
  <1>2. CASE GuardFails \/ Signal \/ OuterKill
    BY <1>2 DEF GuardFails, BeginRefused, SpawnFails, WaitTimesOut, CollectFails, Signal,
       OuterKill, Exit
  <1>3. CASE UNCHANGED guardVars
    BY <1>3 DEF guardVars
  <1>4. CASE \E p \in Procs : End(p) \/ ParentReaps(p) \/ \E q \in Procs : Fork(p, q)
    BY <1>3, <1>4 DEF End, ParentReaps, Fork
  <1>5. QED
    BY <1>1, <1>2, <1>3, <1>4 DEF Next, vars

\* The guard's types.
LEMMA GuardTypes ==
    ASSUME TypeOK, [Next]_vars
    PROVE  /\ kind' \in Kinds /\ pc' \in Steps /\ listed' \subseteq Procs
           /\ owned' \in BOOLEAN /\ ignoring' \in BOOLEAN /\ receipt' \in BOOLEAN
  <1> USE DEF TypeOK, Goto, Steps
  <1>1. CASE GuardStep
    <2>1. CASE Begin \/ Spawn \/ Assign \/ WaitReturns \/ Finally \/ KillAll \/ WaitChild
      BY <2>1 DEF Begin, Spawn, Assign, WaitReturns, Finally, KillAll, WaitChild
    <2>2. CASE ListChildren \/ KillEach \/ KilledAll \/ WaitAny \/ NoChild \/ Collect
      BY <2>2 DEF ListChildren, KillEach, KilledAll, WaitAny, NoChild, Collect, guardVars
    <2>3. CASE FinallyUnowned \/ Emit
      BY <2>3 DEF FinallyUnowned, Emit, Exit
    <2>4. QED
      BY <1>1, <2>1, <2>2, <2>3 DEF GuardStep
  <1>2. CASE GuardFails \/ Signal \/ OuterKill
    BY <1>2 DEF GuardFails, BeginRefused, SpawnFails, WaitTimesOut, CollectFails, Signal,
       OuterKill, Exit
  <1>3. CASE UNCHANGED guardVars
    BY <1>3 DEF guardVars
  <1>4. CASE \E p \in Procs : End(p) \/ ParentReaps(p) \/ \E q \in Procs : Fork(p, q)
    BY <1>3, <1>4 DEF End, ParentReaps, Fork
  <1>5. QED
    BY <1>1, <1>2, <1>3, <1>4 DEF Next, vars

-----------------------------------------------------------------------------
\* The guard starts with an unborn tree.
LEMMA InitInv == Init => IInv
  BY GuardAssumption DEF Init, IInv, TypeOK, Steps, States, Adopted, Rooted, Trusted, Exists, Quiet

\* The invariant holds after every step.
LEMMA InvStep == IInv /\ [Next]_vars => IInv'
  <1> SUFFICES ASSUME IInv, [Next]_vars
               PROVE  IInv'
    OBVIOUS
  <1>1. TreeTypeOK /\ Adopted /\ Rooted /\ TypeOK /\ Trusted
    BY DEF IInv, TypeOK, TreeTypeOK
  <1>2. TreeMove /\ GuardMove
    BY <1>1, TreeMoves, GuardMoves
  <1>3. TreeTypeOK' /\ Adopted' /\ Rooted'
    BY <1>1, <1>2, TreeStep
  <1>4. TypeOK'
    BY <1>1, <1>3, GuardTypes DEF TypeOK, TreeTypeOK
  <1>5. pc' \in {"collect", "emit"} => Quiet'
    <2>1. CASE pc \in {"collect", "emit"}
      BY <1>1, <1>2, <2>1, QuietStays DEF Trusted
    <2>2. CASE NoChild
      <3>1. Quiet
        BY <1>1, <2>2, ChildlessIsQuiet DEF NoChild
      <3>2. pc # "spawn"
        BY <2>2 DEF NoChild
      <3>3. QED
        BY <1>2, <3>1, <3>2, QuietStays
    <2>3. QED
      BY <1>2, <2>1, <2>2 DEF GuardMove
  <1>6. receipt' => pc' = "exited" /\ Quiet'
    <2>1. CASE receipt
      BY <1>1, <1>2, <2>1, QuietStays DEF Trusted, GuardMove
    <2>2. CASE Emit
      BY <1>1, <1>2, <2>2, QuietStays DEF Trusted, Emit, Exit
    <2>3. QED
      BY <1>2, <2>1, <2>2 DEF GuardMove
  <1>7. QED
    BY <1>3, <1>4, <1>5, <1>6 DEF IInv, Trusted

\* The invariant holds in every reachable state.
LEMMA Invariance == Spec => []IInv
  BY InitInv, InvStep, PTL DEF Spec

\* Types: of the guard and of its tree.
THEOREM TypesKept == Spec => []TypeOK
  <1>1. IInv => TypeOK
    BY DEF IInv
  <1>2. QED
    BY <1>1, Invariance, PTL

\* The workspace is read, and a receipt written, only over a quiet tree.
THEOREM TrustIsQuiet == Spec => []QuietWhenTrusted
  <1>1. IInv => QuietWhenTrusted
    BY DEF IInv, Trusted, QuietWhenTrusted
  <1>2. QED
    BY <1>1, Invariance, PTL

=============================================================================
