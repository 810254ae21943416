----------------------- MODULE ScheduleContractProofs -----------------------
(***************************************************************************)
(* The dispatcher implements ScheduleContract, and what it tells humans    *)
(* about evidence and failures is true, for every instance.                *)
(***************************************************************************)
EXTENDS ScheduleReleaseProofs

-----------------------------------------------------------------------------
\* The contract.

\* A wallet comes back only from work that has ended.
Ended == \A o \in Oids : returned[o] = "done" => job[o] \in Terminal

\* A wallet's return is recorded only once its Job is over, and no Job restarts.
LEMMA EndedStep == TypeInv /\ OneRun /\ Ended /\ [Next]_vars => Ended'
  <1> SUFFICES ASSUME TypeInv, OneRun, Ended, [Next]_vars PROVE Ended'
    OBVIOUS
  <1>0. WorkTypeOK
    BY DEF TypeInv, TypeOK
  <1>1. ASSUME NEW o, \/ ClaimRequestTx(o) \/ RecordJobTx(o) \/ InterruptRequestTx(o)
                      \/ FailConstruction(o) \/ FileOutputTx(o) \/ FinishJob(o)
                      \/ ReturnJob(o) \/ BootRecovery \/ UNCHANGED workVars
        PROVE  Ended'
    BY <1>0, <1>1 DEF Ended, WorkTypeOK, ClaimRequestTx, RecordJobTx, InterruptRequestTx,
       FailConstruction, FileOutputTx, FinishJob, ReturnJob, BootRecovery, workVars, Terminal
  <1>2. CASE StartWork
    <2>1. job[slot] = "created" /\ StartEvaluation(slot)
      BY <1>2 DEF StartWork, OneRun
    <2>2. QED
      BY <1>0, <2>1 DEF Ended, WorkTypeOK, StartEvaluation, Terminal
  <1>3. ASSUME ~StartWork
        PROVE  \E o : \/ ClaimRequestTx(o) \/ RecordJobTx(o) \/ InterruptRequestTx(o)
                      \/ FailConstruction(o) \/ FileOutputTx(o) \/ FinishJob(o)
                      \/ ReturnJob(o) \/ BootRecovery \/ UNCHANGED workVars
    <2>1. CASE UNCHANGED vars \/ Controls \/ Start
      BY <2>1 DEF vars, Controls, Pause, Inspect, Resume, RefuseResume, Answered, Start
    <2>2. CASE Recover \/ BeginPass \/ (\E a \in Activations : TakeRow(a)) \/ EndPass
      BY <2>2 DEF Recover, RecoverLinked, RecoverInterrupted, RecoverUnclaimed, RecoverBlock,
                  RecoverCaught, RecoverDone, BeginPass, TakeRow, EndPass
    <2>3. CASE Release
      BY <2>3 DEF Release, FileOutput, MarkProcessed, RejectFrozen, PostResult, SkipPost,
                  MarkAnnounced, Rethrow, RecordFailure, RefuseFailure, ReleaseSlot
    <2>4. CASE Dispatch
      BY <1>3, <2>4 DEF Dispatch, ClaimDue, Look, Admit, SelectInput, RetainInput, ClaimRequest,
                  RecordJob, LinkSubmitted, LinkInterrupted, BlockInterrupted,
                  InterruptUnclaimed, AlreadySkipped, Hold
    <2>5. CASE Failures
      BY <2>5 DEF Failures, Fault, RecoverFault, AbandonRequest, FailStart, Crash, Stop
    <2>6. CASE Boot \/ \E o \in Oids : JobStep(o)
      BY <2>6 DEF Boot, JobStep
    <2> QED
      BY <2>1, <2>2, <2>3, <2>4, <2>5, <2>6 DEF Next, Worker
  <1> QED
    BY <1>1, <1>2, <1>3

\* Work that has not ended holds its slot.
LEMMA WorkHolds ==
    ASSUME TypeInv, Untouched, Kept, Ended, NEW o \in Oids, job[o] \in {"created", "running"}
    PROVE  active[o[1]] = o /\ state[o] \in {"admitting", "linked", "interrupted"}
  <1>1. state[o] \in {"admitting", "linked", "interrupted"}
    BY DEF Untouched, TypeInv, TypeOK, OutboxTypeOK, OccurrenceStates
  <1>2. ~Settled(o)
    BY DEF Ended, Settled, Terminal
  <1>3. QED
    BY <1>1, <1>2 DEF Kept, NoLostWork

ContractVars == <<nextFire, active, [o \in Oids |-> WorkOf(o)]>>
ContractStep == Contract!Next \/ UNCHANGED ContractVars

\* The contract's identities are the dispatcher's.
LEMMA ContractIds == Contract!Oids = Oids /\ Contract!Slots = Slots
  BY DEF Contract!Oids, Contract!Slots, Oids, Slots

\* What work turns into, for the occurrences of O; the rest is as it was.
Becomes(O, w) == \A o \in Oids : WorkOf(o)' = IF o \in O THEN w ELSE WorkOf(o)

\* Nothing the contract sees moves.
LEMMA NothingMoves ==
    ASSUME UNCHANGED <<nextFire, active>>, \A o \in Oids : WorkOf(o)' = WorkOf(o)
    PROVE  ContractStep
  <1>1. [o \in Oids |-> WorkOf(o)]' = [o \in Oids |-> WorkOf(o)]
    OBVIOUS
  <1>2. QED
    BY <1>1 DEF ContractStep, ContractVars

\* The slot a schedule holds is withdrawn.
LEMMA Drops ==
    ASSUME NEW a \in Activations, NEW o \in Oids, active[a] = o, o # None,
           WorkOf(o) \in {"queued", "owned"}, Becomes({o}, "dropped"),
           active' = [active EXCEPT ![a] = None], UNCHANGED nextFire
    PROVE  ContractStep
  <1>1. [p \in Oids |-> WorkOf(p)]' = [[p \in Oids |-> WorkOf(p)] EXCEPT ![o] = "dropped"]
    BY DEF Becomes
  <1>2. Contract!Drop(a)
    BY <1>1 DEF Contract!Drop
  <1>3. QED
    BY <1>2 DEF ContractStep, Contract!Next

\* It is admitted.
LEMMA Owned ==
    ASSUME NEW a \in Activations, NEW o \in Oids, active[a] = o, o # None,
           WorkOf(o) = "queued", Becomes({o}, "owned"), UNCHANGED <<active, nextFire>>
    PROVE  ContractStep
  <1>1. [p \in Oids |-> WorkOf(p)]' = [[p \in Oids |-> WorkOf(p)] EXCEPT ![o] = "owned"]
    BY DEF Becomes
  <1>2. Contract!Own(a)
    BY <1>1 DEF Contract!Own
  <1>3. QED
    BY <1>2 DEF ContractStep, Contract!Next

\* Its work starts.
LEMMA Runs ==
    ASSUME NEW a \in Activations, NEW o \in Oids, active[a] = o, o # None,
           WorkOf(o) = "owned", Becomes({o}, "running"), UNCHANGED <<active, nextFire>>
    PROVE  ContractStep
  <1>1. [p \in Oids |-> WorkOf(p)]' = [[p \in Oids |-> WorkOf(p)] EXCEPT ![o] = "running"]
    BY DEF Becomes
  <1>2. Contract!Run(a)
    BY <1>1 DEF Contract!Run
  <1>3. QED
    BY <1>2 DEF ContractStep, Contract!Next

\* Its work has ended and it is let go.
LEMMA Releases ==
    ASSUME NEW a \in Activations, NEW o \in Oids, active[a] = o, o # None,
           WorkOf(o) = "ended", Becomes({}, "ended"),
           active' = [active EXCEPT ![a] = None], UNCHANGED nextFire
    PROVE  ContractStep
  <1>1. [p \in Oids |-> WorkOf(p)]' = [p \in Oids |-> WorkOf(p)]
    BY DEF Becomes
  <1>2. Contract!Release(a)
    BY <1>1 DEF Contract!Release
  <1>3. QED
    BY <1>2 DEF ContractStep, Contract!Next

\* The work of the schedules in S ends.
LEMMA Ends ==
    ASSUME NEW S \in SUBSET Activations,
           \A a \in S : active[a] \in Oids /\ active[a] # None /\ WorkOf(active[a]) \in {"owned", "running"},
           Becomes({active[a] : a \in S}, "ended"), UNCHANGED <<active, nextFire>>
    PROVE  ContractStep
  <1>1. CASE S = {}
    BY <1>1, NothingMoves DEF Becomes
  <1>2. CASE S # {}
    <2>1. [p \in Oids |-> WorkOf(p)]' =
            [p \in Oids |-> IF \E a \in S : active[a] = p THEN "ended" ELSE WorkOf(p)]
      BY DEF Becomes
    <2>2. Contract!End(S)
      BY <1>2, <2>1, ContractIds DEF Contract!End
    <2>3. QED
      BY <2>2 DEF ContractStep, Contract!Next
  <1>3. QED
    BY <1>1, <1>2

\* States in which an occurrence's Job tells what became of it.
Admitted == {"admitting", "linked", "interrupted"}

\* The contract sees of an occurrence whether it is queued, admitted or
\* skipped, and of an admitted one its Job.
LEMMA SameWork ==
    ASSUME NEW o \in Oids, job'[o] = job[o],
           state'[o] = state[o] \/ {state[o], state'[o]} \subseteq Admitted
    PROVE  WorkOf(o)' = WorkOf(o)
  BY DEF WorkOf, Admitted

\* Steps that move at most one occurrence, between admitted states.
LEMMA AdmittedMoves ==
    ASSUME OutboxTypeOK, UNCHANGED <<workVars, active, nextFire>>,
           \/ state' = state
           \/ \E o \in Oids, s \in Admitted : state[o] \in Admitted /\ state' = [state EXCEPT ![o] = s]
    PROVE  ContractStep
  <1>1. job' = job
    BY DEF workVars
  <1>2. \A p \in Oids : state'[p] = state[p] \/ {state[p], state'[p]} \subseteq Admitted
    BY DEF OutboxTypeOK
  <1>3. QED
    BY <1>1, <1>2, SameWork, NothingMoves

\* An activation's occurrence that is withdrawn while queued or admitted.
LEMMA Withdraws ==
    ASSUME OutboxTypeOK, NEW a \in Activations, NEW o \in Oids, active[a] = o,
           state[o] = "pending" \/ (state[o] = "admitting" /\ job[o] = "none"),
           UNCHANGED <<job, nextFire>>, active' = [active EXCEPT ![a] = None],
           state' = [state EXCEPT ![o] = "skipped"]
    PROVE  ContractStep
  <1>1. o # None
    BY IdsAssumption
  <1>2. WorkOf(o) \in {"queued", "owned"}
    BY DEF WorkOf, Terminal
  <1>3. state'[o] = "skipped" /\ \A p \in Oids : p # o => state'[p] = state[p]
    BY DEF OutboxTypeOK
  <1>4. WorkOf(o)' = "dropped"
    BY <1>3 DEF WorkOf
  <1>5. Becomes({o}, "dropped")
    BY <1>3, <1>4, SameWork DEF Becomes
  <1>6. QED
    BY <1>1, <1>2, <1>5, Drops

\* enabled-tx withdraws.
LEMMA PauseContract ==
    ASSUME OutboxTypeOK, UNCHANGED workVars, NEW a \in Activations, PauseTx(a)
    PROVE  ContractStep
  <1>1. CASE active[a] # None /\ state[active[a]] = "pending"
    <2>1. active[a] \in Oids
      BY <1>1 DEF OutboxTypeOK
    <2>2. PICK o \in Oids : o = active[a]
      BY <2>1
    <2>3. /\ active' = [active EXCEPT ![a] = None] /\ state' = [state EXCEPT ![o] = "skipped"]
          /\ UNCHANGED <<job, nextFire>> /\ state[o] = "pending"
      BY <1>1, <2>2 DEF PauseTx, workVars
    <2>4. QED
      BY <2>2, <2>3, Withdraws
  <1>2. CASE ~(active[a] # None /\ state[active[a]] = "pending")
    BY <1>2, AdmittedMoves DEF PauseTx
  <1>3. QED
    BY <1>1, <1>2

\* due-tx takes a slot, supersedes a queued one or passes one over.
LEMMA DueContract ==
    ASSUME OutboxTypeOK, Untouched, UNCHANGED workVars,
           NEW a \in Activations, now \in Slots, DueTx(a, now)
    PROVE  ContractStep
  <1> DEFINE d == DueOid(a, now)
             s == d[2]
  <1>1. CASE ~IsDue(a, now)
    BY <1>1, AdmittedMoves DEF DueTx, outboxVars, activationVars, occurrenceVars
  <1>2. CASE IsDue(a, now)
    <2>1. d \in Oids /\ d = <<a, s>> /\ s \in Slots /\ d # None
      BY <1>2, DueFresh, IdsAssumption DEF Oids
    <2>2. /\ nextFire' = [nextFire EXCEPT ![a] = nextFire'[a]]
          /\ nextFire[a] <= s /\ s < nextFire'[a] /\ nextFire'[a] \in Nat
      <3>1. nextFire' = [nextFire EXCEPT ![a] = IntervalSlot(Interval, nextFire[a], now).next]
        BY <1>2 DEF DueTx, QueueDue, SupersedeDue, OverlapDue, AdvanceCursor
      <3>2. nextFire'[a] = IntervalSlot(Interval, nextFire[a], now).next
        BY <3>1 DEF OutboxTypeOK
      <3>3. s = IntervalSlot(Interval, nextFire[a], now).intended
        BY <1>2, DueSlotTyped
      <3>4. QED
        BY <1>2, <3>1, <3>2, <3>3, DueSlotTyped
    <2>3. Contract!Advance(a, s)
      <3>1. nextFire' \in [Activations -> Nat]
        BY <2>2 DEF OutboxTypeOK
      <3>2. s \in Nat /\ nextFire[a] \in Nat
        BY <2>1, IdsAssumption DEF Slots, OutboxTypeOK
      <3>3. QED
        BY <2>2, <3>1, <3>2 DEF Contract!Advance, OutboxTypeOK
    <2>4. job' = job
      BY DEF workVars
    <2> HIDE DEF d, s
    <2>5. CASE QueueDue(a, now)
      <3>1. /\ active[a] = None /\ active' = [active EXCEPT ![a] = d]
            /\ state' = [state EXCEPT ![d] = "pending"]
        BY <2>5 DEF QueueDue, d
      <3>2. state'[d] = "pending" /\ \A p \in Oids : p # d => state'[p] = state[p]
        BY <2>1, <3>1 DEF OutboxTypeOK
      <3>3. \A p \in Oids : WorkOf(p)' = IF p = d THEN "queued" ELSE WorkOf(p)
        <4>1. \A p \in Oids : p # d => WorkOf(p)' = WorkOf(p)
          BY <2>4, <3>2, SameWork
        <4>2. ASSUME NEW p \in Oids, p = d PROVE WorkOf(p)' = "queued"
          BY <3>2, <4>2 DEF WorkOf
        <4>3. QED
          BY <4>1, <4>2
      <3>4. [p \in Oids |-> WorkOf(p)]' = [[p \in Oids |-> WorkOf(p)] EXCEPT ![<<a, s>>] = "queued"]
        BY <2>1, <3>3
      <3>5. Contract!Take(a, s)
        BY <2>1, <2>3, <3>1, <3>4 DEF Contract!Take
      <3>6. QED
        BY <2>1, <3>5, ContractIds DEF ContractStep, Contract!Next
    <2>6. CASE SupersedeDue(a, now)
      <3> DEFINE q == active[a]
      <3>1. /\ q \in Oids /\ q # None /\ state[q] = "pending" /\ active' = [active EXCEPT ![a] = d]
            /\ state' = [state EXCEPT ![q] = "skipped", ![d] = "pending"]
        BY <2>6 DEF SupersedeDue, OutboxTypeOK, d
      <3>a. state[d] = "absent"
        BY <1>2, DueFresh DEF d
      <3> HIDE DEF q
      <3>2. /\ state'[d] = "pending" /\ state'[q] = "skipped"
            /\ \A p \in Oids : p # d /\ p # q => state'[p] = state[p]
        BY <2>1, <3>1, <3>a DEF OutboxTypeOK
      <3>3. \A p \in Oids : WorkOf(p)' = IF p = d THEN "queued" ELSE IF p = q THEN "dropped" ELSE WorkOf(p)
        <4>1. \A p \in Oids : p # d /\ p # q => WorkOf(p)' = WorkOf(p)
          BY <2>4, <3>2, SameWork
        <4>2. ASSUME NEW p \in Oids, p = d PROVE WorkOf(p)' = "queued"
          BY <3>2, <4>2 DEF WorkOf
        <4>3. ASSUME NEW p \in Oids, p = q PROVE WorkOf(p)' = "dropped"
          BY <3>2, <4>3 DEF WorkOf
        <4>4. QED
          BY <4>1, <4>2, <4>3, <3>1, <3>a
      <3>4. [p \in Oids |-> WorkOf(p)]' =
              [[p \in Oids |-> WorkOf(p)] EXCEPT ![q] = "dropped", ![<<a, s>>] = "queued"]
        BY <2>1, <3>1, <3>3
      <3>5. [p \in Oids |-> WorkOf(p)][q] = "queued"
        BY <3>1 DEF WorkOf
      <3>6. Contract!Supersede(a, s)
        BY <2>1, <2>3, <3>1, <3>4, <3>5 DEF Contract!Supersede, q
      <3>7. QED
        BY <2>1, <3>6, ContractIds DEF ContractStep, Contract!Next
    <2>7. CASE OverlapDue(a, now)
      <3>1. /\ active[a] # None /\ active[a] \in Oids /\ state[active[a]] # "pending" /\ active' = active
            /\ state' = [state EXCEPT ![d] = "skipped"]
        BY <2>7 DEF OverlapDue, OutboxTypeOK, d
      <3>2. state'[d] = "skipped" /\ \A p \in Oids : p # d => state'[p] = state[p]
        BY <2>1, <3>1 DEF OutboxTypeOK
      <3>3. \A p \in Oids : WorkOf(p)' = IF p = d THEN "dropped" ELSE WorkOf(p)
        <4>1. \A p \in Oids : p # d => WorkOf(p)' = WorkOf(p)
          BY <2>4, <3>2, SameWork
        <4>2. ASSUME NEW p \in Oids, p = d PROVE WorkOf(p)' = "dropped"
          BY <3>2, <4>2 DEF WorkOf
        <4>3. QED
          BY <4>1, <4>2
      <3>4. [p \in Oids |-> WorkOf(p)]' = [[p \in Oids |-> WorkOf(p)] EXCEPT ![<<a, s>>] = "dropped"]
        BY <2>1, <3>3
      <3>5. [p \in Oids |-> WorkOf(p)][active[a]] # "queued"
        BY <3>1 DEF WorkOf
      <3>6. Contract!PassOver(a, s)
        BY <2>1, <2>3, <3>1, <3>4, <3>5 DEF Contract!PassOver
      <3>7. QED
        BY <2>1, <3>6, ContractIds DEF ContractStep, Contract!Next
    <2>8. QED
      BY <1>2, <2>5, <2>6, <2>7 DEF DueTx
  <1>3. QED
    BY <1>1, <1>2

\* What the stores and the worker are known to be.
Safe == TypeInv /\ OneRun /\ Untouched /\ BeforeClaim /\ Kept /\ InHand /\ Ended

\* release-owned-settled! lets go of ended work, or of nothing.
LEMMA ReleaseContract == ASSUME Safe, Release PROVE ContractStep
  <1>0. WorkTypeOK /\ OutboxTypeOK
    BY DEF Safe, TypeInv, TypeOK
  <1>1. UNCHANGED <<state, job, nextFire>>
    BY DEF Release, FileOutput, FileOutputTx, MarkProcessed, RejectFrozen, PostResult, SkipPost,
           MarkAnnounced, Rethrow, RecordFailure, RefuseFailure, ReleaseSlot,
           ProcessedInputTx, BlockTx, MarkAnnouncedTx, FailTerminalTx, ClearActiveTx,
           outboxVars, activationVars, occurrenceVars, workVars
  <1>2. Becomes({}, "ended")
    BY <1>1, SameWork DEF Becomes
  <1>3. CASE active' = active
    BY <1>1, <1>2, <1>3, NothingMoves DEF Becomes
  <1>4. CASE active' # active
    <2>1. RecordFailure \/ ReleaseSlot
      BY <1>4 DEF Release, FileOutput, MarkProcessed, RejectFrozen, PostResult, SkipPost,
           MarkAnnounced, Rethrow, RefuseFailure, ProcessedInputTx, BlockTx, MarkAnnouncedTx,
           outboxVars, activationVars, occurrenceVars
    <2>2. slot \in Oids /\ at \in Activations /\ state[slot] = "linked" /\ Settled(slot)
      BY <2>1 DEF RecordFailure, ReleaseSlot, Safe, TypeInv, Located, SlotPcs, RowPcs, InHand, Settling
    <2>3. active[at] = slot /\ active' = [active EXCEPT ![at] = None]
      BY <1>4, <2>1 DEF RecordFailure, ReleaseSlot, FailTerminalTx, FailureCurrent, ClearActiveTx
    <2>4. WorkOf(slot) = "ended"
      <3>1. job[slot] \in Terminal
        BY <2>2 DEF Safe, Ended, Settled
      <3>2. QED
        BY <2>2, <3>1 DEF WorkOf, Terminal
    <2>5. slot # None
      BY <2>2, IdsAssumption
    <2>6. QED
      BY <1>1, <1>2, <2>2, <2>3, <2>4, <2>5, Releases
  <1>5. QED
    BY <1>3, <1>4

\* interrupt-owned-tx and finish-admission! move admitted occurrences.
LEMMA InterruptContract ==
    ASSUME OutboxTypeOK, UNCHANGED workVars, NEW a, NEW o \in Oids, NEW r, InterruptOwnedTx(a, o, r)
    PROVE  ContractStep
  <1>1. CASE Owns(a, o) /\ ~pointer[o] /\ request[o] = "none"
    BY <1>1, AdmittedMoves DEF InterruptOwnedTx, Owns, Admitted
  <1>2. CASE ~(Owns(a, o) /\ ~pointer[o] /\ request[o] = "none")
    BY <1>2, AdmittedMoves DEF InterruptOwnedTx, occurrenceVars
  <1>3. QED
    BY <1>1, <1>2

\* finish-admission! changes how an admission ended, not what work it stands for.
LEMMA FinishContract ==
    ASSUME OutboxTypeOK, UNCHANGED workVars, NEW o \in Oids, state[o] \in Admitted,
           NEW outcome \in Admitted, FinishAdmissionTx(o, outcome)
    PROVE  ContractStep
  BY AdmittedMoves DEF FinishAdmissionTx, activationVars

\* A Job that moves: recorded, started or over.
LEMMA JobContract ==
    ASSUME Safe, NEW o \in Oids, UNCHANGED <<state, active, nextFire>>,
           \/ state[o] = "admitting" /\ job[o] = "none" /\ job' = [job EXCEPT ![o] = "created"]
           \/ job[o] = "created" /\ job' = [job EXCEPT ![o] = "running"]
           \/ job[o] \in {"created", "running"} /\ \E s \in Terminal : job' = [job EXCEPT ![o] = s]
           \/ job' = job
    PROVE  ContractStep
  <1>0. WorkTypeOK /\ o[1] \in Activations /\ o # None
    BY IdsAssumption DEF Safe, TypeInv, TypeOK, Oids
  <1>1. \A p \in Oids : p # o => WorkOf(p)' = WorkOf(p)
    BY <1>0, SameWork DEF WorkTypeOK
  <1>2. CASE job' = job \/ (state[o] = "admitting" /\ job[o] = "none" /\ job' = [job EXCEPT ![o] = "created"])
    <2>1. WorkOf(o)' = WorkOf(o)
      BY <1>0, <1>2 DEF WorkOf, WorkTypeOK, Terminal
    <2>2. QED
      BY <1>1, <2>1, NothingMoves
  <1>3. CASE job[o] = "created" /\ job' = [job EXCEPT ![o] = "running"]
    <2>1. active[o[1]] = o /\ state[o] \in Admitted
      BY <1>3, WorkHolds DEF Safe, Admitted
    <2>2. WorkOf(o) = "owned" /\ WorkOf(o)' = "running"
      BY <1>0, <1>3, <2>1 DEF WorkOf, WorkTypeOK, Terminal, Admitted
    <2>3. Becomes({o}, "running")
      BY <1>1, <2>2 DEF Becomes
    <2>4. QED
      BY <1>0, <2>1, <2>2, <2>3, Runs
  <1>4. CASE job[o] \in {"created", "running"} /\ \E s \in Terminal : job' = [job EXCEPT ![o] = s]
    <2>1. active[o[1]] = o /\ state[o] \in Admitted
      BY <1>4, WorkHolds DEF Safe, Admitted
    <2>2. WorkOf(o) \in {"owned", "running"} /\ WorkOf(o)' = "ended"
      BY <1>0, <1>4, <2>1 DEF WorkOf, WorkTypeOK, Terminal, Admitted
    <2>3. Becomes({active[a] : a \in {o[1]}}, "ended")
      BY <1>1, <2>1, <2>2 DEF Becomes
    <2>4. QED
      <3>1. \A a \in {o[1]} : active[a] \in Oids /\ active[a] # None /\ WorkOf(active[a]) \in {"owned", "running"}
        BY <1>0, <2>1, <2>2
      <3>2. {o[1]} \in SUBSET Activations
        BY <1>0
      <3>3. QED
        BY <2>3, <3>1, <3>2, Ends
  <1>5. QED
    BY <1>2, <1>3, <1>4

\* Boot ends all work that was going on.
LEMMA BootContract == ASSUME Safe, Boot PROVE ContractStep
  <1> DEFINE S == {a \in Activations : active[a] # None /\ job[active[a]] \in {"created", "running"}}
  <1>0. WorkTypeOK /\ OutboxTypeOK
    BY DEF Safe, TypeInv, TypeOK
  <1>1. UNCHANGED <<state, active, nextFire>>
    BY DEF Boot, outboxVars, activationVars, occurrenceVars
  <1>2. \A o \in Oids : job'[o] = IF job[o] \in {"created", "running"} THEN "failed" ELSE job[o]
    BY DEF Boot, BootRecovery
  <1>3. ASSUME NEW o \in Oids, job[o] \in {"created", "running"}
        PROVE  active[o[1]] = o /\ o[1] \in S /\ state[o] \in Admitted
    BY <1>3, WorkHolds, IdsAssumption DEF Safe, Admitted, Oids
  <1>4. ASSUME NEW a \in S
        PROVE  /\ active[a] \in Oids /\ active[a] # None
               /\ WorkOf(active[a]) \in {"owned", "running"}
    <2>1. active[a] \in Oids /\ active[a] # None /\ job[active[a]] \in {"created", "running"}
      BY <1>0 DEF OutboxTypeOK
    <2>2. state[active[a]] \in Admitted
      BY <1>3, <2>1
    <2>3. QED
      BY <2>1, <2>2 DEF WorkOf, Terminal, Admitted
  <1>5. ASSUME NEW o \in Oids
        PROVE  WorkOf(o)' = IF o \in {active[a] : a \in S} THEN "ended" ELSE WorkOf(o)
    <2>1. CASE job[o] \in {"created", "running"}
      <3>1. o \in {active[a] : a \in S} /\ state[o] \in Admitted
        BY <1>3, <2>1
      <3>2. WorkOf(o)' = "ended"
        BY <1>1, <1>2, <2>1, <3>1 DEF WorkOf, Admitted, Terminal
      <3>3. QED
        BY <3>1, <3>2
    <2>2. CASE job[o] \notin {"created", "running"}
      <3>1. o \notin {active[a] : a \in S}
        BY <2>2
      <3>2. WorkOf(o)' = WorkOf(o)
        BY <1>1, <1>2, <2>2, SameWork
      <3>3. QED
        BY <3>1, <3>2
    <2>3. QED
      BY <2>1, <2>2
  <1>6. Becomes({active[a] : a \in S}, "ended")
    BY <1>5 DEF Becomes
  <1>7. S \in SUBSET Activations
    OBVIOUS
  <1> HIDE DEF S
  <1>8. QED
    BY <1>1, <1>4, <1>6, <1>7, Ends

\* owned-dispatch!, from the due slot to the linked request.
LEMMA DispatchContract == ASSUME Safe, Dispatch PROVE ContractStep
  <1> USE DEF Safe
  <1>0. WorkTypeOK /\ OutboxTypeOK /\ now \in Slots
    BY DEF TypeInv, TypeOK
  <1>1. CASE ClaimDue
    BY <1>0, <1>1, DueContract DEF ClaimDue, TypeInv, Located, RowPcs
  <1>2. CASE Look \/ RetainInput \/ BlockInterrupted \/ AlreadySkipped \/ Hold
    BY <1>0, <1>2, AdmittedMoves DEF Look, RetainInput, RetainInputTx, BlockInterrupted, BlockTx,
       AlreadySkipped, Hold, BlockOwnedTx, outboxVars, activationVars, occurrenceVars
  <1>3. CASE Admit
    <2>1. slot \in Oids /\ at \in Activations /\ request[slot] = "none" /\ slot # None
      BY <1>3, IdsAssumption DEF Admit, TypeInv, Located, SlotPcs, RowPcs
    <2>2. UNCHANGED <<workVars, active, nextFire>> /\ AdmitTx(at, slot)
      BY <1>3 DEF Admit, AdmitTx, activationVars
    <2>3. CASE Admissible(at, slot)
      <3>1. job[slot] = "none" /\ state[slot] = "pending" /\ active[at] = slot
        BY <2>1, <2>3 DEF Untouched, Admissible
      <3>2. state'[slot] = "admitting" /\ \A p \in Oids : p # slot => state'[p] = state[p]
        BY <1>0, <2>1, <2>2, <2>3 DEF AdmitTx, OutboxTypeOK
      <3>3. job' = job
        BY <2>2 DEF workVars
      <3>4. \A p \in Oids : WorkOf(p)' = IF p \in {slot} THEN "owned" ELSE WorkOf(p)
        <4>1. \A p \in Oids : p # slot => WorkOf(p)' = WorkOf(p)
          BY <3>2, <3>3, SameWork
        <4>2. ASSUME NEW p \in Oids, p = slot PROVE WorkOf(p)' = "owned"
          BY <3>1, <3>2, <3>3, <4>2 DEF WorkOf, Terminal
        <4>3. QED
          BY <4>1, <4>2
      <3>5. WorkOf(slot) = "queued"
        BY <3>1 DEF WorkOf
      <3>6. QED
        BY <2>1, <2>2, <3>1, <3>4, <3>5, Owned DEF Becomes
    <2>4. CASE ~Admissible(at, slot)
      BY <1>0, <2>2, <2>4, AdmittedMoves DEF AdmitTx
    <2>5. QED
      BY <2>3, <2>4
  <1>4. CASE SelectInput
    <2>1. PICK i \in Inputs : SelectInputTx(at, slot, i)
      BY <1>4 DEF SelectInput
    <2>2. slot \in Oids /\ at \in Activations /\ request[slot] = "none" /\ UNCHANGED workVars
      BY <1>4 DEF SelectInput, TypeInv, Located, SlotPcs, RowPcs, BeforeClaim
    <2>3. job[slot] = "none" /\ state[slot] = "admitting" /\ active[at] = slot /\ nextFire' = nextFire
      BY <2>1, <2>2 DEF Untouched, SelectInputTx, Owns
    <2>4. CASE SelectReason(at, i) # None
      BY <1>0, <2>1, <2>2, <2>3, <2>4, Withdraws DEF SelectInputTx, workVars
    <2>5. CASE SelectReason(at, i) = None
      BY <1>0, <2>1, <2>2, <2>3, <2>5, AdmittedMoves DEF SelectInputTx
    <2>6. QED
      BY <2>4, <2>5
  <1>5. CASE ClaimRequest \/ RecordJob \/ StartWork
    <2>1. slot \in Oids /\ UNCHANGED <<state, active, nextFire>>
      BY <1>5 DEF ClaimRequest, RecordJob, StartWork, TypeInv, Located, SlotPcs, RowPcs, outboxVars,
         activationVars, occurrenceVars
    <2>2. \/ state[slot] = "admitting" /\ job[slot] = "none" /\ job' = [job EXCEPT ![slot] = "created"]
          \/ job[slot] = "created" /\ job' = [job EXCEPT ![slot] = "running"]
          \/ job' = job
      BY <1>5 DEF ClaimRequest, ClaimRequestTx, RecordJob, RecordJobTx, StartWork, StartEvaluation,
         InHand, Dispatching, OneRun
    <2>3. QED
      BY <2>1, <2>2, JobContract
  <1>6. CASE LinkSubmitted \/ LinkInterrupted \/ InterruptUnclaimed
    <2>1. slot \in Oids /\ UNCHANGED workVars
      BY <1>6 DEF LinkSubmitted, LinkInterrupted, InterruptUnclaimed, TypeInv, Located, SlotPcs, RowPcs
    <2>2. state[slot] \in Admitted
      BY <1>6 DEF LinkSubmitted, LinkInterrupted, InterruptUnclaimed, InHand, Dispatching, Admitted
    <2>3. "linked" \in Admitted /\ "interrupted" \in Admitted
      BY DEF Admitted
    <2>4. QED
      BY <1>0, <1>6, <2>1, <2>2, <2>3, FinishContract, InterruptContract DEF LinkSubmitted,
         LinkInterrupted, InterruptUnclaimed
  <1>7. QED
    BY <1>1, <1>2, <1>3, <1>4, <1>5, <1>6 DEF Dispatch

\* recover-owned-in! moves only what was admitted.
LEMMA RecoverContract ==
    ASSUME Safe, Recover \/ (\E o \in Oids : RecoverFault(o)) PROVE ContractStep
  <1> USE DEF Safe
  <1>0. OutboxTypeOK /\ "linked" \in Admitted /\ "interrupted" \in Admitted
    BY DEF TypeInv, TypeOK, Admitted
  <1>1. ASSUME NEW o \in Oids, RecoverLinked(o) \/ RecoverInterrupted(o) \/ RecoverUnclaimed(o)
                               \/ RecoverFault(o)
        PROVE  ContractStep
    <2>1. state[o] \in Admitted /\ UNCHANGED workVars
      BY <1>1 DEF RecoverLinked, RecoverInterrupted, RecoverUnclaimed, RecoverFault, Recovering, InHand,
         Reconciling, Admitted
    <2>2. CASE RecoverFault(o)
      BY <1>0, <2>1, <2>2, AdmittedMoves DEF RecoverFault, outboxVars, activationVars, occurrenceVars
    <2>3. QED
      BY <1>0, <1>1, <2>1, <2>2, FinishContract, InterruptContract DEF RecoverLinked, RecoverInterrupted,
         RecoverUnclaimed
  <1>2. CASE RecoverBlock \/ RecoverDone
    BY <1>0, <1>2, AdmittedMoves DEF RecoverBlock, BlockTx, RecoverDone, outboxVars, activationVars,
       occurrenceVars
  <1>3. CASE RecoverCaught
    <2>1. slot \in Oids
      BY <1>3 DEF RecoverCaught, TypeInv, Located, SlotPcs
    <2>2. QED
      BY <1>0, <1>3, <2>1, InterruptContract DEF RecoverCaught
  <1>4. QED
    BY <1>1, <1>2, <1>3 DEF Recover

\* A failed call ends at most the work in hand.
LEMMA FailuresContract == ASSUME Safe, Failures PROVE ContractStep
  <1>1. CASE \E o \in Oids : RecoverFault(o)
    BY <1>1, RecoverContract
  <1>2. CASE FailStart \/ (Stop /\ pc = "start")
    <2>1. slot \in Oids /\ UNCHANGED <<state, active, nextFire>>
      BY <1>2 DEF FailStart, Stop, Safe, TypeInv, Located, SlotPcs, RowPcs, outboxVars,
         activationVars, occurrenceVars
    <2>2. job[slot] = "created" /\ job' = [job EXCEPT ![slot] = "failed"]
      BY <1>2 DEF FailStart, Stop, FailConstruction, Safe, OneRun
    <2>3. QED
      BY <2>1, <2>2, JobContract DEF Terminal
  <1>3. CASE Fault \/ AbandonRequest \/ Crash \/ (Stop /\ pc # "start")
    <2>1. UNCHANGED <<state, active, nextFire, job>>
      BY <1>3 DEF Fault, AbandonRequest, Crash, Stop, InterruptRequestTx, outboxVars,
         activationVars, occurrenceVars, workVars
    <2>2. QED
      BY <2>1, SameWork, NothingMoves
  <1>4. QED
    BY <1>1, <1>2, <1>3 DEF Failures

\* Every step of the dispatcher is one of the contract, or none.
LEMMA StepKeepsContract == ASSUME Safe, [Next]_vars PROVE ContractStep
  <1>0. OutboxTypeOK
    BY DEF Safe, TypeInv, TypeOK
  <1>1. CASE \/ UNCHANGED vars \/ Start
             \/ BeginPass \/ (\E a \in Activations : TakeRow(a)) \/ EndPass
             \/ \E h \in Humans : Resume(h) \/ RefuseResume(h)
             \/ \E h \in Humans, a \in Activations : Inspect(h, a)
    <2>1. UNCHANGED <<state, active, nextFire, job>>
      BY <1>1 DEF vars, Start, BeginPass, TakeRow, EndPass, Resume, RefuseResume,
                  Answered, Inspect, ResumeTx, outboxVars, activationVars, occurrenceVars, workVars
    <2>2. QED
      BY <2>1, SameWork, NothingMoves
  <1>2. ASSUME NEW a \in Activations, Pause(a) PROVE ContractStep
    BY <1>0, <1>2, PauseContract DEF Pause
  <1>3. ASSUME NEW o \in Oids, JobStep(o) PROVE ContractStep
    <2>1. UNCHANGED <<state, active, nextFire>>
      BY <1>3 DEF JobStep, outboxVars, activationVars, occurrenceVars
    <2>2. \/ job' = job
          \/ job[o] \in {"created", "running"} /\ \E s \in Terminal : job' = [job EXCEPT ![o] = s]
      BY <1>3 DEF JobStep, FinishJob, ReturnJob
    <2>3. QED
      BY <2>1, <2>2, JobContract
  <1>4. QED
    BY <1>1, <1>2, <1>3, RecoverContract, ReleaseContract, DispatchContract, FailuresContract,
       BootContract DEF Next, Worker, Controls

\* Before the first pass no slot is decided and none is held.
LEMMA InitKeepsContract == Init => Ended /\ Contract!Init
  <1> SUFFICES ASSUME Init PROVE Ended /\ Contract!Init
    OBVIOUS
  <1>1. Ended
    BY DEF Init, WorkInit, Ended
  <1>2. [o \in Oids |-> WorkOf(o)] = [o \in Oids |-> "none"]
    BY DEF Init, OutboxInit, WorkOf
  <1>3. QED
    BY <1>1, <1>2, ContractIds DEF Init, OutboxInit, Contract!Init

\* workflow_schedules.clj and the dispatcher over it, with every failed call,
\* restart and human control, implement ScheduleContract: slots are decided in
\* order, one is held at a time, and work happens once and only while it is held.
THEOREM DispatcherKeepsContract == Spec => KeepsContract
  <1>1. Spec => [](TypeInv /\ OneRun /\ Untouched /\ BeforeClaim /\ Kept /\ InHand /\ Ended)
    BY InitTyped, InitKept, InitKeepsContract, TypeStep, OneRunStep, UntouchedStep, BeforeClaimStep,
       KeptStep, InHandStep, EndedStep, PTL DEF Spec
  <1>2. TypeInv /\ OneRun /\ Untouched /\ BeforeClaim /\ Kept /\ InHand /\ Ended /\ [Next]_vars
          => [Contract!Next]_(Contract!cvars)
    <2>1. Contract!cvars = ContractVars
      BY DEF Contract!cvars, ContractVars
    <2>2. QED
      BY <2>1, StepKeepsContract DEF Safe, ContractStep, ContractVars, Contract!cvars
  <1>3. QED
    BY <1>1, <1>2, InitKeepsContract, PTL DEF Spec, KeepsContract, Contract!Spec

-----------------------------------------------------------------------------
\* One transaction of the outbox at a time.

\* Every transaction of the outbox some step of the system makes, with what
\* the step that makes it has seen of the occurrence.
OutboxStep ==
    \/ UNCHANGED outboxVars
    \/ \E a \in Activations :
          \/ PauseTx(a)
          \/ DueTx(a, now)
          \/ \E h \in Humans : Resume(h) /\ inspected[h].activation = a /\ ResumeTx(a, inspected[h].row)
          \/ \E r \in HoldReasons : BlockTx(a, r)
          \/ \E o \in Oids :
                \/ AdmitTx(a, o)
                \/ \E i \in Inputs : SelectInputTx(a, o, i)
                \/ RetainInputTx(a, o)
                \/ FinishAdmissionTx(o, "linked") /\ request[o] = "submitted" /\ state[o] \in {"admitting", "linked"}
                \/ FinishAdmissionTx(o, "interrupted") /\ state[o] = "admitting"
                \/ \E r \in SkipReasons \ {"coalesced"} : InterruptOwnedTx(a, o, r)
                \/ MarkAnnouncedTx(o)
                \/ ProcessedInputTx(a, o) /\ pc = "mark" /\ at = a /\ slot = o
                \/ /\ RecordFailure /\ at = a /\ slot = o
                   /\ \E m \in {"job", "candidate"} : FailTerminalTx(a, o, snap[a], m)
                \/ ClearActiveTx(a, o)

\* A step of the system is at most one transaction of the outbox, made as the
\* code makes it.
LEMMA StepOutbox == ASSUME Safe, [Next]_vars PROVE OutboxStep
  <1> USE DEF Safe
  <1>1. CASE UNCHANGED vars \/ BeginPass \/ (\E a \in Activations : TakeRow(a)) \/ EndPass
             \/ Failures \/ Boot \/ Start \/ (\E o \in Oids : JobStep(o))
    <2>1. UNCHANGED outboxVars
      BY <1>1 DEF vars, BeginPass, TakeRow, EndPass, Failures, Fault, RecoverFault, AbandonRequest,
                  FailStart, Crash, Stop, Boot, Start, JobStep
    <2>2. QED
      BY <2>1 DEF OutboxStep
  <1>2. CASE Controls
    <2>1. ASSUME NEW a \in Activations, Pause(a) PROVE OutboxStep
      BY <2>1 DEF Pause, OutboxStep
    <2>2. ASSUME NEW h \in Humans, NEW a \in Activations, Inspect(h, a) PROVE OutboxStep
      BY <2>2 DEF Inspect, OutboxStep
    <2>3. ASSUME NEW h \in Humans, Resume(h) PROVE OutboxStep
      <3>1. inspected[h].activation \in Activations
        BY <2>3 DEF Resume, Answered, TypeInv, TypeOK, Inspections
      <3>2. ResumeTx(inspected[h].activation, inspected[h].row)
        BY <2>3 DEF Resume
      <3>3. QED
        BY <2>3, <3>1, <3>2 DEF OutboxStep
    <2>4. ASSUME NEW h \in Humans, RefuseResume(h) PROVE OutboxStep
      BY <2>4 DEF RefuseResume, OutboxStep
    <2>5. QED
      BY <1>2, <2>1, <2>2, <2>3, <2>4 DEF Controls
  <1>3. CASE Recover
    <2>1. ASSUME NEW o \in Oids, RecoverLinked(o) \/ RecoverInterrupted(o) \/ RecoverUnclaimed(o)
          PROVE  OutboxStep
      <3>1. state[o] = "admitting" /\ o[1] \in Activations /\ o \in Oids
        BY <2>1 DEF RecoverLinked, RecoverInterrupted, RecoverUnclaimed, Recovering, InHand, Reconciling, Oids
      <3>2. "restart" \in SkipReasons \ {"coalesced"}
        BY DEF SkipReasons
      <3>3. QED
        BY <2>1, <3>1, <3>2 DEF RecoverLinked, RecoverInterrupted, RecoverUnclaimed, OutboxStep
    <2>2. CASE RecoverBlock
      <3>1. at \in Activations /\ "interrupted" \in HoldReasons
        BY <2>2 DEF RecoverBlock, TypeInv, Located, SlotPcs, HoldReasons
      <3>2. QED
        BY <2>2, <3>1 DEF RecoverBlock, OutboxStep
    <2>3. CASE RecoverCaught
      <3>1. at \in Activations /\ slot \in Oids /\ "owned-dispatch-unavailable" \in SkipReasons \ {"coalesced"}
        BY <2>3 DEF RecoverCaught, TypeInv, Located, SlotPcs, SkipReasons
      <3>2. QED
        BY <2>3, <3>1 DEF RecoverCaught, OutboxStep
    <2>4. CASE RecoverDone
      BY <2>4 DEF RecoverDone, OutboxStep
    <2>5. QED
      BY <1>3, <2>1, <2>2, <2>3, <2>4 DEF Recover
  <1>4. CASE Release
    <2>1. at \in Activations /\ slot \in Oids /\ "execution-failed" \in HoldReasons
      BY <1>4 DEF Release, FileOutput, MarkProcessed, RejectFrozen, PostResult, SkipPost,
         MarkAnnounced, Rethrow, RecordFailure, RefuseFailure, ReleaseSlot, TypeInv, Located,
         SlotPcs, RowPcs, HoldReasons
    <2>2. CASE FileOutput \/ PostResult \/ SkipPost \/ Rethrow \/ RefuseFailure
      BY <2>2 DEF FileOutput, PostResult, SkipPost, Rethrow, RefuseFailure, OutboxStep
    <2>3. CASE MarkProcessed
      BY <2>1, <2>3 DEF MarkProcessed, OutboxStep
    <2>4. CASE RejectFrozen
      BY <2>1, <2>4 DEF RejectFrozen, OutboxStep
    <2>5. CASE MarkAnnounced
      BY <2>1, <2>5 DEF MarkAnnounced, OutboxStep
    <2>6. CASE RecordFailure
      <3>1. \E m \in {"job", "candidate"} : FailTerminalTx(at, slot, snap[at], m)
        BY <2>6 DEF RecordFailure
      <3>2. QED
        BY <2>1, <2>6, <3>1 DEF OutboxStep
    <2>7. CASE ReleaseSlot
      BY <2>1, <2>7 DEF ReleaseSlot, OutboxStep
    <2>8. QED
      BY <1>4, <2>2, <2>3, <2>4, <2>5, <2>6, <2>7 DEF Release
  <1>5. CASE Dispatch
    <2>1. at \in Activations
      BY <1>5 DEF Dispatch, ClaimDue, Look, Admit, SelectInput, RetainInput, ClaimRequest, RecordJob,
         StartWork, LinkSubmitted, LinkInterrupted, BlockInterrupted, InterruptUnclaimed,
         AlreadySkipped, Hold, TypeInv, Located, RowPcs, SlotPcs
    <2>2. CASE Look \/ ClaimRequest \/ RecordJob \/ StartWork \/ AlreadySkipped
      BY <2>2 DEF Look, ClaimRequest, RecordJob, StartWork, AlreadySkipped, OutboxStep
    <2>3. CASE ClaimDue
      BY <2>1, <2>3 DEF ClaimDue, OutboxStep
    <2>4. CASE BlockInterrupted \/ Hold
      <3>1. "interrupted" \in HoldReasons /\ "owned-dispatch-unavailable" \in HoldReasons
        BY DEF HoldReasons
      <3>2. QED
        BY <2>1, <2>4, <3>1 DEF BlockInterrupted, Hold, BlockOwnedTx, OutboxStep
    <2>5. CASE ~(Look \/ ClaimRequest \/ RecordJob \/ StartWork \/ AlreadySkipped \/ ClaimDue
                   \/ BlockInterrupted \/ Hold)
      <3>1. slot \in Oids
        BY <1>5, <2>5 DEF Dispatch, Admit, SelectInput, RetainInput, LinkSubmitted, LinkInterrupted,
           InterruptUnclaimed, TypeInv, Located, RowPcs, SlotPcs
      <3>2. CASE Admit
        BY <2>1, <3>1, <3>2 DEF Admit, OutboxStep
      <3>3. CASE SelectInput
        BY <2>1, <3>1, <3>3 DEF SelectInput, OutboxStep
      <3>4. CASE RetainInput
        BY <2>1, <3>1, <3>4 DEF RetainInput, OutboxStep
      <3>5. CASE LinkSubmitted
        <4>1. state[slot] \in {"admitting", "linked"} /\ request[slot] = "submitted"
          BY <3>5 DEF LinkSubmitted, InHand, Dispatching
        <4>2. QED
          BY <2>1, <3>1, <3>5, <4>1 DEF LinkSubmitted, OutboxStep
      <3>6. CASE LinkInterrupted
        <4>1. state[slot] = "admitting"
          BY <3>1, <3>6 DEF LinkInterrupted, InHand, Kept
        <4>2. QED
          BY <2>1, <3>1, <3>6, <4>1 DEF LinkInterrupted, OutboxStep
      <3>7. CASE InterruptUnclaimed
        <4>1. "interrupted" \in SkipReasons \ {"coalesced"}
          BY DEF SkipReasons
        <4>2. QED
          BY <2>1, <3>1, <3>7, <4>1 DEF InterruptUnclaimed, OutboxStep
      <3>8. QED
        BY <1>5, <2>5, <3>2, <3>3, <3>4, <3>5, <3>6, <3>7 DEF Dispatch
    <2>6. QED
      BY <2>2, <2>3, <2>4, <2>5
  <1>6. QED
    BY <1>1, <1>2, <1>3, <1>4, <1>5 DEF Next, Worker

\* Receipts are never taken back: a linked or withdrawn occurrence stays so, and
\* its announcement, its failure marker and its evidence stay what they are.
Receipts(o) ==
    /\ state[o] \in {"linked", "skipped"} => state'[o] = state[o]
    /\ announced[o] => announced'[o]
    /\ failure[o] # "none" => failure'[o] # "none"
    /\ input[o] # None => input'[o] = input[o]
    /\ retained[o] => retained'[o]
    /\ (why[o] = "coalesced" /\ state[o] = "skipped") => why'[o] = "coalesced"

\* No transaction of the outbox takes a receipt back.
LEMMA ReceiptsStay ==
    ASSUME Safe, OutboxStep, NEW p \in Oids
    PROVE  Receipts(p)
  <1> USE DEF Safe
  <1>0. OutboxTypeOK /\ now \in Slots
    BY DEF TypeInv, TypeOK
  <1>1. CASE UNCHANGED outboxVars
    BY <1>1 DEF outboxVars, activationVars, occurrenceVars, Receipts
  <1>2. ASSUME NEW a \in Activations,
               \/ PauseTx(a) \/ (\E h \in Humans : ResumeTx(a, inspected[h].row))
               \/ (\E r \in HoldReasons : BlockTx(a, r))
        PROVE  Receipts(p)
    BY <1>0, <1>2 DEF PauseTx, ResumeTx, BlockTx, OutboxTypeOK, occurrenceVars, Receipts
  <1>3. ASSUME NEW a \in Activations, DueTx(a, now) PROVE Receipts(p)
    <2>1. CASE ~IsDue(a, now)
      BY <1>1, <1>3, <2>1 DEF DueTx
    <2>2. CASE IsDue(a, now)
      <3>1. DueOid(a, now) \in Oids /\ state[DueOid(a, now)] = "absent"
        BY <1>0, <2>2, DueFresh
      <3>2. QED
        BY <1>0, <1>3, <2>2, <3>1 DEF DueTx, QueueDue, SupersedeDue, OverlapDue, AdvanceCursor,
           OutboxTypeOK, Receipts
    <2>3. QED
      BY <2>1, <2>2
  <1>4. ASSUME NEW a \in Activations, NEW o \in Oids,
               \/ AdmitTx(a, o) \/ (\E i \in Inputs : SelectInputTx(a, o, i)) \/ RetainInputTx(a, o)
        PROVE  Receipts(p)
    BY <1>0, <1>4 DEF AdmitTx, Admissible, SelectInputTx, RetainInputTx, Owns, OutboxTypeOK, Receipts,
       activationVars
  <1>5. ASSUME NEW o \in Oids,
               \/ FinishAdmissionTx(o, "linked") /\ state[o] \in {"admitting", "linked"}
               \/ FinishAdmissionTx(o, "interrupted") /\ state[o] = "admitting"
               \/ MarkAnnouncedTx(o)
        PROVE  Receipts(p)
    BY <1>0, <1>5 DEF FinishAdmissionTx, MarkAnnouncedTx, OutboxTypeOK, Receipts, activationVars
  <1>6. ASSUME NEW a \in Activations, NEW o \in Oids, NEW r, InterruptOwnedTx(a, o, r)
        PROVE  Receipts(p)
    BY <1>0, <1>6 DEF InterruptOwnedTx, Owns, OutboxTypeOK, Receipts, occurrenceVars
  <1>7. ASSUME NEW a \in Activations, NEW o \in Oids,
               \/ ProcessedInputTx(a, o) \/ ClearActiveTx(a, o)
               \/ \E m \in {"job", "candidate"} : FailTerminalTx(a, o, snap[a], m)
        PROVE  Receipts(p)
    BY <1>0, <1>7 DEF ProcessedInputTx, ClearActiveTx, FailTerminalTx, OutboxTypeOK, Receipts, occurrenceVars
  <1>8. QED
    BY <1>1, <1>2, <1>3, <1>4, <1>5, <1>6, <1>7 DEF OutboxStep

\* How a Job moves: recorded once for the occurrence in hand, then started,
\* then over, and never back.
LEMMA JobMoves ==
    ASSUME Safe, [Next]_vars, NEW p \in Oids
    PROVE  \/ job'[p] = job[p]
           \/ job[p] = "none" /\ job'[p] = "created" /\ RecordJob /\ p = slot
           \/ job[p] = "created" /\ job'[p] \in {"running", "failed"}
           \/ job[p] = "running" /\ job'[p] \in Terminal
  <1> USE DEF Safe
  <1>0. WorkTypeOK
    BY DEF TypeInv, TypeOK
  <1>1. CASE StartWork \/ FailStart \/ (Stop /\ pc = "start")
    <2>1. slot \in Oids /\ job[slot] = "created"
      BY <1>1 DEF StartWork, FailStart, Stop, TypeInv, Located, SlotPcs, RowPcs, OneRun
    <2>2. QED
      BY <1>0, <1>1, <2>1 DEF StartWork, FailStart, Stop, StartEvaluation, FailConstruction, WorkTypeOK
  <1>2. CASE RecordJob
    <2>1. slot \in Oids
      BY <1>2 DEF RecordJob, TypeInv, Located, SlotPcs, RowPcs
    <2>2. QED
      BY <1>0, <1>2, <2>1 DEF RecordJob, RecordJobTx, WorkTypeOK
  <1>3. ASSUME NEW q, \/ ClaimRequestTx(q) \/ InterruptRequestTx(q) \/ FileOutputTx(q)
                      \/ FinishJob(q) \/ ReturnJob(q) \/ BootRecovery \/ UNCHANGED workVars
        PROVE  \/ job'[p] = job[p]
               \/ job[p] = "created" /\ job'[p] = "failed"
               \/ job[p] = "running" /\ job'[p] \in Terminal
    BY <1>0, <1>3 DEF WorkTypeOK, ClaimRequestTx, InterruptRequestTx, FileOutputTx,
       FinishJob, ReturnJob, BootRecovery, workVars, Terminal
  <1>4. ASSUME ~(StartWork \/ FailStart \/ (Stop /\ pc = "start") \/ RecordJob)
        PROVE  \E q : \/ ClaimRequestTx(q) \/ InterruptRequestTx(q) \/ FileOutputTx(q)
                      \/ FinishJob(q) \/ ReturnJob(q) \/ BootRecovery \/ UNCHANGED workVars
    <2>1. CASE UNCHANGED vars \/ Controls \/ Start
      BY <2>1 DEF vars, Controls, Pause, Inspect, Resume, RefuseResume, Answered, Start
    <2>2. CASE Recover \/ BeginPass \/ (\E a \in Activations : TakeRow(a)) \/ EndPass
      BY <2>2 DEF Recover, RecoverLinked, RecoverInterrupted, RecoverUnclaimed, RecoverBlock,
                  RecoverCaught, RecoverDone, BeginPass, TakeRow, EndPass
    <2>3. CASE Release
      BY <2>3 DEF Release, FileOutput, MarkProcessed, RejectFrozen, PostResult, SkipPost,
                  MarkAnnounced, Rethrow, RecordFailure, RefuseFailure, ReleaseSlot
    <2>4. CASE Dispatch
      BY <1>4, <2>4 DEF Dispatch, ClaimDue, Look, Admit, SelectInput, RetainInput, ClaimRequest,
                  LinkSubmitted, LinkInterrupted, BlockInterrupted,
                  InterruptUnclaimed, AlreadySkipped, Hold
    <2>5. CASE Failures
      BY <1>4, <2>5 DEF Failures, Fault, RecoverFault, AbandonRequest, Crash, Stop
    <2>6. CASE Boot \/ \E o \in Oids : JobStep(o)
      BY <2>6 DEF Boot, JobStep
    <2>7. QED
      BY <2>1, <2>2, <2>3, <2>4, <2>5, <2>6 DEF Next, Worker
  <1>5. QED
    BY <1>1, <1>2, <1>3, <1>4

\* Nor does the journal take anything back: a submitted request, a returned
\* wallet, a filing and the end of a Job are final.
LEMMA JournalStays ==
    ASSUME Safe, [Next]_vars, NEW p \in Oids
    PROVE  /\ request[p] = "submitted" => request'[p] = "submitted"
           /\ Settled(p) => Settled(p)'
           /\ filed[p] => filed'[p]
           /\ job[p] \in Terminal => job'[p] = job[p]
  <1>0. WorkTypeOK
    BY DEF Safe, TypeInv, TypeOK
  <1>1. PICK o : JournalStep(o)
    BY StepJournal
  <1>2. filed[p] => filed'[p]
    BY <1>0, <1>1 DEF JournalStep, WorkTypeOK, ClaimRequestTx, RecordJobTx, InterruptRequestTx,
       StartEvaluation, FailConstruction, FileOutputTx, FinishJob, ReturnJob, BootRecovery, workVars
  <1>3. (request[p] = "submitted" => request'[p] = "submitted") /\ (Settled(p) => Settled(p)')
    BY <1>0, <1>1, JournalStable
  <1>4. job[p] \in Terminal => job'[p] = job[p]
    BY JobMoves DEF Terminal
  <1>5. QED
    BY <1>2, <1>3, <1>4

-----------------------------------------------------------------------------
\* Failures and evidence.

\* A schedule's slot is one of its own.
ActiveOwn == \A a \in Activations : active[a] # None => active[a][1] = a

\* A claim points the schedule at its own slot; nothing else sets the pointer.
LEMMA ActiveOwnStep == Safe /\ ActiveOwn /\ OutboxStep => ActiveOwn'
  <1> SUFFICES ASSUME Safe, ActiveOwn, OutboxStep, NEW b \in Activations, active'[b] # None
      PROVE  active'[b][1] = b
    BY DEF ActiveOwn
  <1> USE DEF Safe
  <1>0. OutboxTypeOK /\ now \in Slots
    BY DEF TypeInv, TypeOK
  <1>1. CASE active'[b] = active[b]
    BY <1>1 DEF ActiveOwn
  <1>2. ASSUME NEW a \in Activations, DueTx(a, now), active'[b] # active[b] PROVE active'[b][1] = b
    <2>1. IsDue(a, now)
      BY <1>2 DEF DueTx, outboxVars, activationVars
    <2>2. active' = [active EXCEPT ![a] = DueOid(a, now)]
      BY <1>2, <2>1 DEF DueTx, QueueDue, SupersedeDue, OverlapDue
    <2>3. DueOid(a, now)[1] = a
      BY <1>0, <2>1, DueFresh
    <2>4. QED
      BY <1>0, <1>2, <2>2, <2>3 DEF OutboxTypeOK
  <1>3. ASSUME NEW a \in Activations, DueTx(a, now) PROVE active'[b][1] = b
    BY <1>1, <1>2, <1>3
  <1>4. ASSUME active'[b] # active[b], \A a \in Activations : ~DueTx(a, now) PROVE FALSE
    BY <1>0, <1>4 DEF OutboxStep, outboxVars, activationVars, PauseTx, ResumeTx, BlockTx, AdmitTx, SelectInputTx,
       RetainInputTx, FinishAdmissionTx, InterruptOwnedTx, MarkAnnouncedTx, ProcessedInputTx,
       FailTerminalTx, ClearActiveTx, OutboxTypeOK
  <1>5. QED
    BY <1>1, <1>3, <1>4

\* The failure a schedule is held for stays on record, and the slot it had is
\* not taken up again.
LEMMA FailureStep == Safe /\ FailureAuditable /\ [Next]_vars => FailureAuditable'
  <1> SUFFICES ASSUME Safe, FailureAuditable, [Next]_vars PROVE FailureAuditable'
    OBVIOUS
  <1> USE DEF Safe
  <1>0. OutboxTypeOK /\ now \in Slots
    BY DEF TypeInv, TypeOK
  <1>1. OutboxStep
    BY StepOutbox
  <1>2. ASSUME NEW b \in Activations, NEW p \in Oids,
               lastTerminalFailure[b] = p, lastTerminalFailure'[b] = p
        PROVE  FailureRecorded(p)' /\ announced'[p] /\ active'[b] # p
    <2>1. p # None /\ FailureRecorded(p) /\ announced[p] /\ active[b] # p
      BY <1>2, IdsAssumption DEF FailureAuditable
    <2>2. Receipts(p) /\ request'[p] = "submitted"
      BY <1>1, <2>1, ReceiptsStay, JournalStays DEF FailureRecorded
    <2>3. active'[b] # p
      <3>1. ASSUME NEW a \in Activations, DueTx(a, now) PROVE active'[b] # p
        <4>1. CASE IsDue(a, now)
          <5>1. DueOid(a, now) # p
            BY <1>0, <2>1, <4>1, DueFresh DEF FailureRecorded
          <5>2. active' = active \/ active' = [active EXCEPT ![a] = DueOid(a, now)]
            BY <3>1, <4>1 DEF DueTx, QueueDue, SupersedeDue, OverlapDue
          <5>3. QED
            BY <1>0, <2>1, <5>1, <5>2 DEF OutboxTypeOK
        <4>2. CASE ~IsDue(a, now)
          BY <2>1, <3>1, <4>2 DEF DueTx, outboxVars, activationVars
        <4>3. QED
          BY <4>1, <4>2
      <3>2. ASSUME \A a \in Activations : ~DueTx(a, now) PROVE active'[b] \in {active[b], None}
        BY <1>0, <1>1, <3>2 DEF OutboxStep, outboxVars, activationVars, PauseTx, ResumeTx, BlockTx, AdmitTx,
           SelectInputTx, RetainInputTx, FinishAdmissionTx, InterruptOwnedTx, MarkAnnouncedTx,
           ProcessedInputTx, FailTerminalTx, ClearActiveTx, OutboxTypeOK
      <3>3. QED
        BY <2>1, <3>1, <3>2
    <2>4. QED
      BY <2>1, <2>2, <2>3 DEF Receipts, FailureRecorded
  <1>3. ASSUME NEW b \in Activations, NEW p \in Oids,
               lastTerminalFailure[b] # p, lastTerminalFailure'[b] = p
        PROVE  FailureRecorded(p)' /\ announced'[p] /\ active'[b] # p
    <2>1. PICK a \in Activations, o \in Oids, m \in {"job", "candidate"} : FailTerminalTx(a, o, snap[a], m)
      BY <1>1, <1>3 DEF OutboxStep, outboxVars, activationVars, PauseTx, DueTx, QueueDue, SupersedeDue,
         OverlapDue, AdvanceCursor, ResumeTx, BlockTx, AdmitTx, SelectInputTx,
         RetainInputTx, FinishAdmissionTx, InterruptOwnedTx, MarkAnnouncedTx, ProcessedInputTx,
         ClearActiveTx
    <2>2. a = b /\ p = o /\ active'[b] = None
      BY <1>0, <1>3, <2>1 DEF FailTerminalTx, OutboxTypeOK
    <2>3. state'[p] = "linked" /\ announced'[p] /\ failure'[p] # "none"
      BY <1>0, <2>1, <2>2 DEF FailTerminalTx, FailureCurrent, OutboxTypeOK
    <2>4. request'[p] = "submitted"
      BY <2>1, <2>2, JournalStays DEF FailTerminalTx, FailureCurrent, Kept
    <2>5. QED
      BY <2>2, <2>3, <2>4, IdsAssumption DEF FailureRecorded
  <1>4. lastTerminalFailure' \in [Activations -> Oids \cup {None}]
    BY TypeStep DEF TypeInv, TypeOK, OutboxTypeOK
  <1>5. \A b \in Activations, p \in Oids : lastTerminalFailure'[b] = p =>
            FailureRecorded(p)' /\ announced'[p] /\ active'[b] # p
    BY <1>2, <1>3
  <1>6. QED
    BY <1>4, <1>5 DEF FailureAuditable, FailureRecorded

\* A failure named in a row some human inspected has its marker.
Inspected ==
    \A h \in Humans, p \in Oids :
        (inspected[h] # None /\ inspected[h].row.failed = p) => failure[p] # "none"

\* A human whose inspection a failure overtook still holds it, and the row no
\* longer names the schedule's last failure.
Fenced ==
    \A h \in overtaken :
        /\ inspected[h] # None
        /\ inspected[h].row.failed # lastTerminalFailure[inspected[h].activation]

\* Inspections come from the control and go with an answer or the process.
LEMMA InspectedMoves ==
    ASSUME TypeInv, [Next]_vars, NEW h \in Humans
    PROVE  inspected'[h] \in {inspected[h], None} \/ \E a \in Activations : Inspect(h, a)
  <1>0. inspected \in [Humans -> Inspections \cup {None}]
    BY DEF TypeInv, TypeOK
  <1>1. CASE UNCHANGED vars \/ Worker \/ Boot \/ Start \/ \E o \in Oids : JobStep(o)
    <2>1. CASE Recover \/ BeginPass \/ (\E a \in Activations : TakeRow(a)) \/ EndPass
      BY <2>1 DEF Recover, RecoverLinked, RecoverInterrupted, RecoverUnclaimed, RecoverBlock, Recovering,
                  RecoverCaught, RecoverDone, BeginPass, TakeRow, EndPass, controlVars
    <2>2. CASE Release
      BY <2>2 DEF Release, FileOutput, MarkProcessed, RejectFrozen, PostResult, SkipPost,
                  MarkAnnounced, Rethrow, RecordFailure, RefuseFailure, ReleaseSlot, controlVars
    <2>3. CASE Dispatch
      BY <2>3 DEF Dispatch, ClaimDue, Look, Admit, SelectInput, RetainInput, ClaimRequest,
                  RecordJob, StartWork, LinkSubmitted, LinkInterrupted, BlockInterrupted,
                  InterruptUnclaimed, AlreadySkipped, Hold, controlVars
    <2>4. CASE UNCHANGED vars \/ Boot \/ Start \/ \E o \in Oids : JobStep(o)
      BY <2>4 DEF vars, Boot, Start, JobStep, controlVars
    <2>5. QED
      BY <1>1, <2>1, <2>2, <2>3, <2>4 DEF Worker
  <1>2. CASE Failures
    BY <1>2 DEF Failures, Fault, RecoverFault, Recovering, AbandonRequest, FailStart, Crash, Stop, controlVars
  <1>3. CASE Controls
    <2>1. ASSUME NEW a \in Activations, NEW k \in Humans, k # h, Inspect(k, a)
          PROVE  inspected'[h] = inspected[h]
      BY <1>0, <2>1 DEF Inspect
    <2>2. ASSUME NEW k \in Humans, Resume(k) \/ RefuseResume(k)
          PROVE  inspected'[h] \in {inspected[h], None}
      BY <1>0, <2>2 DEF Resume, RefuseResume, Answered
    <2>3. ASSUME NEW a \in Activations, Pause(a) PROVE inspected'[h] = inspected[h]
      BY <2>3 DEF Pause
    <2>4. QED
      BY <1>3, <2>1, <2>2, <2>3 DEF Controls
  <1>4. QED
    BY <1>1, <1>2, <1>3 DEF Next

\* What a human reads of a failure was recorded before.
LEMMA InspectedStep == Safe /\ FailureAuditable /\ Inspected /\ [Next]_vars => Inspected'
  <1> SUFFICES ASSUME Safe, FailureAuditable, Inspected, [Next]_vars,
                      NEW h \in Humans, NEW p \in Oids,
                      inspected'[h] # None, inspected'[h].row.failed = p
      PROVE  failure'[p] # "none"
    BY DEF Inspected
  <1>1. CASE inspected'[h] = inspected[h]
    BY <1>1, StepOutbox, ReceiptsStay DEF Inspected, Receipts
  <1>2. ASSUME NEW a \in Activations, Inspect(h, a) PROVE failure'[p] # "none"
    <2>1. inspected' = [inspected EXCEPT ![h] = [activation |-> a, row |-> Row(a)]] /\ failure' = failure
      BY <1>2 DEF Inspect, outboxVars, occurrenceVars
    <2>2. inspected'[h] = [activation |-> a, row |-> Row(a)]
      BY <2>1 DEF Safe, TypeInv, TypeOK
    <2>3. lastTerminalFailure[a] = p
      BY <2>2 DEF Row
    <2>4. QED
      BY <2>1, <2>3, IdsAssumption DEF FailureAuditable, FailureRecorded
  <1>3. QED
    BY <1>1, <1>2, InspectedMoves DEF Safe

\* Without a new failure nobody is overtaken, and whoever was keeps the row.
LEMMA FenceFrame ==
    ASSUME Safe, [Next]_vars, ~RecordFailure
    PROVE  /\ lastTerminalFailure' = lastTerminalFailure
           /\ overtaken' \subseteq overtaken
           /\ \A h \in overtaken' : inspected[h] # None => inspected'[h] = inspected[h]
  <1>0. inspected \in [Humans -> Inspections \cup {None}] /\ overtaken \in SUBSET Humans
    BY DEF Safe, TypeInv, TypeOK
  <1>1. lastTerminalFailure' = lastTerminalFailure
    BY StepOutbox DEF OutboxStep, outboxVars, activationVars, PauseTx, DueTx, QueueDue, SupersedeDue,
       OverlapDue, AdvanceCursor, ResumeTx, BlockTx, AdmitTx, SelectInputTx,
       RetainInputTx, FinishAdmissionTx, InterruptOwnedTx, MarkAnnouncedTx, ProcessedInputTx,
       ClearActiveTx
  <1>2. CASE UNCHANGED vars \/ Worker \/ Boot \/ Start \/ \E o \in Oids : JobStep(o)
    <2>1. CASE Recover \/ BeginPass \/ (\E a \in Activations : TakeRow(a)) \/ EndPass
      BY <1>1, <2>1 DEF Recover, RecoverLinked, RecoverInterrupted, RecoverUnclaimed, RecoverBlock, Recovering,
                  RecoverCaught, RecoverDone, BeginPass, TakeRow, EndPass, controlVars
    <2>2. CASE Release
      BY <1>1, <2>2 DEF Release, FileOutput, MarkProcessed, RejectFrozen, PostResult, SkipPost,
                  MarkAnnounced, Rethrow, RefuseFailure, ReleaseSlot, controlVars
    <2>3. CASE Dispatch
      BY <1>1, <2>3 DEF Dispatch, ClaimDue, Look, Admit, SelectInput, RetainInput, ClaimRequest,
                  RecordJob, StartWork, LinkSubmitted, LinkInterrupted, BlockInterrupted,
                  InterruptUnclaimed, AlreadySkipped, Hold, controlVars
    <2>4. CASE UNCHANGED vars \/ Boot \/ Start \/ \E o \in Oids : JobStep(o)
      BY <1>1, <2>4 DEF vars, Boot, Start, JobStep, controlVars
    <2>5. QED
      BY <1>2, <2>1, <2>2, <2>3, <2>4 DEF Worker
  <1>3. CASE Failures
    BY <1>1, <1>3 DEF Failures, Fault, RecoverFault, Recovering, AbandonRequest, FailStart, Crash, Stop, controlVars
  <1>4. CASE Controls
    <2>1. ASSUME NEW a \in Activations, NEW k \in Humans, Inspect(k, a)
          PROVE  overtaken' = overtaken /\ \A h \in overtaken : inspected[h] # None => inspected'[h] = inspected[h]
      BY <1>0, <2>1 DEF Inspect
    <2>2. ASSUME NEW k \in Humans, Resume(k) \/ RefuseResume(k)
          PROVE  overtaken' = overtaken \ {k} /\ \A h \in overtaken' : inspected'[h] = inspected[h]
      BY <1>0, <2>2 DEF Resume, RefuseResume, Answered
    <2>3. ASSUME NEW a \in Activations, Pause(a) PROVE overtaken' = overtaken /\ inspected' = inspected
      BY <2>3 DEF Pause
    <2>4. QED
      BY <1>1, <1>4, <2>1, <2>2, <2>3 DEF Controls
  <1>5. QED
    BY <1>2, <1>3, <1>4 DEF Next

\* A failure overtakes every inspection of its schedule: its occurrence had no
\* marker before, so no inspected row can name it.
LEMMA FencedStep == Safe /\ Inspected /\ Fenced /\ [Next]_vars => Fenced'
  <1> SUFFICES ASSUME Safe, Inspected, Fenced, [Next]_vars, NEW h \in overtaken'
      PROVE  /\ inspected'[h] # None
             /\ inspected'[h].row.failed # lastTerminalFailure'[inspected'[h].activation]
    BY DEF Fenced
  <1>0. /\ inspected \in [Humans -> Inspections \cup {None}] /\ overtaken \in SUBSET Humans
        /\ lastTerminalFailure \in [Activations -> Oids \cup {None}]
    BY DEF Safe, TypeInv, TypeOK, OutboxTypeOK
  <1>1. CASE ~RecordFailure
    BY <1>1, FenceFrame DEF Fenced
  <1>2. CASE RecordFailure
    <2>1. at \in Activations /\ slot \in Oids
      BY <1>2 DEF RecordFailure, Safe, TypeInv, Located, RowPcs, SlotPcs
    <2>2. /\ inspected' = inspected /\ overtaken' = overtaken \cup Overtaken(at)
          /\ lastTerminalFailure' = [lastTerminalFailure EXCEPT ![at] = slot]
          /\ failure[slot] = "none"
      BY <1>2 DEF RecordFailure, FailTerminalTx, FailureCurrent
    <2>3. h \in Humans /\ inspected[h] # None
      BY <1>0, <2>2 DEF Fenced, Overtaken
    <2>4. inspected[h].activation \in Activations
      BY <1>0, <2>3 DEF Inspections
    <2>5. CASE inspected[h].activation = at
      BY <1>0, <2>1, <2>2, <2>3, <2>5 DEF Inspected
    <2>6. CASE inspected[h].activation # at
      BY <1>0, <2>1, <2>2, <2>3, <2>4, <2>6 DEF Fenced, Overtaken
    <2>7. QED
      BY <2>5, <2>6
  <1>3. QED
    BY <1>1, <1>2

\* Only the resume of a human nobody overtook switches a schedule on.
LEMMA ResumeFences ==
    ASSUME Safe, Fenced, [Next]_vars, NEW a \in Activations, ~enabled[a], enabled'[a]
    PROVE  \E h \in Humans : /\ inspected[h] # None /\ inspected'[h] = None
                             /\ inspected[h].activation = a
                             /\ h \notin overtaken
  <1>0. OutboxTypeOK /\ inspected \in [Humans -> Inspections \cup {None}]
    BY DEF Safe, TypeInv, TypeOK
  <1>1. PICK b \in Activations, h \in Humans :
            Resume(h) /\ inspected[h].activation = b /\ ResumeTx(b, inspected[h].row)
    BY <1>0, StepOutbox DEF OutboxStep, outboxVars, activationVars, PauseTx, DueTx, QueueDue, SupersedeDue,
       OverlapDue, AdvanceCursor, BlockTx, AdmitTx, SelectInputTx, OutboxTypeOK,
       RetainInputTx, FinishAdmissionTx, InterruptOwnedTx, MarkAnnouncedTx, ProcessedInputTx,
       FailTerminalTx, ClearActiveTx
  <1>2. a = b
    BY <1>0, <1>1 DEF ResumeTx, OutboxTypeOK
  <1>3. inspected[h] # None /\ inspected'[h] = None
    BY <1>0, <1>1 DEF Resume, Answered
  <1>4. inspected[h].row.failed = lastTerminalFailure[a]
    BY <1>1, <1>2 DEF ResumeTx, Resumable, ResumeIdentity, Row
  <1>5. QED
    BY <1>1, <1>2, <1>3, <1>4 DEF Fenced

\* Evidence nobody processed yet, or the first there is.
Fresh(o) ==
    /\ input[o] # None
    /\ input[o] # lastProcessedInput[o[1]]
    /\ input[o] = EmptyInput => lastProcessedInput[o[1]] # None

\* The worker's positions at which it relies on the evidence in hand.
Relying == {"file", "mark", "admit"} \cup Dispatching

\* What the worker knows of the evidence in hand: what it marks processed is
\* completed, and what it submits is of this schedule, fresh and retained.
Evidence ==
    /\ pc \in {"file", "mark"} => job[slot] = "completed"
    /\ pc \in {"admit"} \cup Dispatching => slot[1] = at
    /\ pc = "retain" => Fresh(slot)
    /\ (pc \in {"submit", "job"} /\ Selects(at)) => Fresh(slot) /\ retained[slot]

\* How the worker arrives there.
LEMMA Arrivals ==
    ASSUME TypeInv, [Next]_vars, pc' \in Relying
    PROVE  \/ UNCHANGED <<pc, at, slot>>
           \/ FileOutput /\ pc' = "mark"
           \/ \E a \in Activations : TakeRow(a) /\ pc' \in {"file", "mark"}
           \/ Look /\ pc' = "admit"
           \/ Admit /\ pc' \in {"select", "submit"}
           \/ SelectInput /\ pc' = "retain"
           \/ RetainInput /\ pc' = "submit"
           \/ ClaimRequest /\ pc' = "job"
           \/ RecordJob /\ pc' = "start"
           \/ StartWork /\ pc' \in {"start", "reread"}
  <1> USE DEF Relying, Dispatching
  <1>1. CASE UNCHANGED vars \/ Controls \/ \E o \in Oids : JobStep(o)
    BY <1>1 DEF vars, Controls, Pause, Inspect, Resume, RefuseResume, Answered, JobStep, serviceVars
  <1>2. CASE Boot \/ Start \/ Failures
    BY <1>2 DEF Boot, Start, Failures, Fault, RecoverFault, AbandonRequest, FailStart, Crash, Stop,
       Thrown, Handler, Processing, RowWide
  <1>3. CASE Recover
    BY <1>3 DEF Recover, RecoverLinked, RecoverInterrupted, RecoverUnclaimed, RecoverBlock,
       RecoverCaught, RecoverDone, Recovering, Reply, Acked, Thrown, Handler, Processing, RowWide
  <1>4. CASE BeginPass \/ (\E a \in Activations : TakeRow(a)) \/ EndPass
    BY <1>4 DEF BeginPass, TakeRow, EndPass, Acked, Process
  <1>5. CASE Release
    BY <1>5 DEF Release, FileOutput, MarkProcessed, RejectFrozen, PostResult, SkipPost,
       MarkAnnounced, Rethrow, RecordFailure, RefuseFailure, ReleaseSlot,
       Reply, Acked, Thrown, Handler, Processing, RowWide
  <1>6. CASE Dispatch
    BY <1>6 DEF Dispatch, ClaimDue, Look, Admit, SelectInput, RetainInput, ClaimRequest, RecordJob,
       StartWork, LinkSubmitted, LinkInterrupted, BlockInterrupted, InterruptUnclaimed,
       AlreadySkipped, Hold, Reply, Acked, Thrown, Handler, Processing, RowWide
  <1>7. QED
    BY <1>1, <1>2, <1>3, <1>4, <1>5, <1>6 DEF Next, Worker

\* The evidence cursor moves only where the worker marks it.
LEMMA CursorMoves ==
    ASSUME OutboxStep
    PROVE  \/ lastProcessedInput' = lastProcessedInput
           \/ \E a \in Activations, o \in Oids : ProcessedInputTx(a, o) /\ pc = "mark" /\ at = a /\ slot = o
  BY DEF OutboxStep, outboxVars, activationVars, PauseTx, DueTx, QueueDue, SupersedeDue,
     OverlapDue, AdvanceCursor, ResumeTx, BlockTx, AdmitTx, SelectInputTx,
     RetainInputTx, FinishAdmissionTx, InterruptOwnedTx, MarkAnnouncedTx, FailTerminalTx,
     ClearActiveTx

\* What the worker knows of its evidence is inductive.
LEMMA EvidenceStep == Safe /\ ActiveOwn /\ Evidence /\ [Next]_vars => Evidence'
  <1> SUFFICES ASSUME Safe, ActiveOwn, Evidence, [Next]_vars, pc' \in Relying PROVE Evidence'
    BY DEF Evidence, Relying, Dispatching
  <1> USE DEF Safe
  <1>0. WorkTypeOK /\ OutboxTypeOK
    BY DEF TypeInv, TypeOK
  <1>1. OutboxStep
    BY StepOutbox
  <1>2. pc # "mark" => lastProcessedInput' = lastProcessedInput
    BY <1>1, CursorMoves
  <1>3. \A o \in Oids : Receipts(o) /\ (job[o] \in Terminal => job'[o] = job[o])
    BY <1>1, ReceiptsStay, JournalStays
  <1>4. ASSUME NEW o \in Oids, Fresh(o), lastProcessedInput' = lastProcessedInput PROVE Fresh(o)'
    BY <1>3, <1>4 DEF Fresh, Receipts
  <1>5. CASE UNCHANGED <<pc, at, slot>>
    <2>1. slot \in Oids
      BY <1>5 DEF TypeInv, Located, SlotPcs, RowPcs, Relying, Dispatching
    <2>2. pc \in {"file", "mark"} => job'[slot] = "completed"
      BY <1>3, <2>1 DEF Evidence, Terminal
    <2>3. pc \in {"retain", "submit", "job"} /\ Fresh(slot) => Fresh(slot)'
      BY <1>2, <1>5, <2>1, <1>4 DEF Fresh
    <2>4. QED
      BY <1>3, <1>5, <2>1, <2>2, <2>3 DEF Evidence, Receipts
  <1>6. CASE FileOutput /\ pc' = "mark"
    <2>1. pc = "file" /\ UNCHANGED <<slot, job>>
      BY <1>6 DEF FileOutput, FileOutputTx, serviceVars
    <2>2. QED
      BY <1>6, <2>1 DEF Evidence, Dispatching
  <1>7. ASSUME NEW a \in Activations, TakeRow(a), pc' \in {"file", "mark"} PROVE Evidence'
    <2>1. job[snap[a].active] = "completed" /\ slot' = snap[a].active /\ job' = job
      BY <1>7 DEF TakeRow, Process, workVars
    <2>2. QED
      BY <1>7, <2>1 DEF Evidence, Dispatching
  <1>8. CASE Look /\ pc' = "admit"
    <2>1. active[at] # None /\ slot' = active[at] /\ at' = at /\ at \in Activations
      BY <1>8 DEF Look, Acked, TypeInv, Located, RowPcs
    <2>2. QED
      BY <1>8, <2>1 DEF ActiveOwn, Evidence, Dispatching
  <1>9. CASE \/ Admit /\ pc' \in {"select", "submit"}
             \/ RecordJob /\ pc' = "start"
             \/ StartWork /\ pc' \in {"start", "reread"}
    <2>1. pc \in {"admit"} \cup Dispatching /\ UNCHANGED <<at, slot>>
      BY <1>9 DEF Admit, RecordJob, StartWork, serviceVars, Dispatching
    <2>2. pc' = "submit" => ~Selects(at)
      BY <1>9 DEF Admit, Reply, Acked, Thrown, Handler, Processing, RowWide, Dispatching
    <2>3. QED
      BY <1>9, <2>1, <2>2 DEF Evidence, Dispatching
  <1>10. CASE SelectInput /\ pc' = "retain"
    <2>1. PICK i \in Inputs : /\ SelectInputTx(at, slot, i)
                             /\ Reply(IF SelectReason(at, i) = None THEN "retain" ELSE "row")
      BY <1>10 DEF SelectInput
    <2>2. SelectReason(at, i) = None
      BY <1>10, <2>1 DEF Reply, Acked, Thrown, Handler, Processing, RowWide, Dispatching
    <2>3. pc = "select" /\ UNCHANGED <<at, slot>> /\ slot \in Oids /\ slot[1] = at
      BY <1>10 DEF SelectInput, serviceVars, TypeInv, Located, SlotPcs, RowPcs, Evidence, Dispatching
    <2>4. input'[slot] = i /\ lastProcessedInput' = lastProcessedInput /\ i # None
      BY <1>0, <2>1, <2>3, OutboxAssumption DEF SelectInputTx, OutboxTypeOK
    <2>5. i # lastProcessedInput[at] /\ (i = EmptyInput => lastProcessedInput[at] # None)
      BY <2>2, OutboxAssumption DEF SelectReason
    <2>6. QED
      BY <1>10, <2>3, <2>4, <2>5 DEF Evidence, Fresh, Dispatching
  <1>11. CASE RetainInput /\ pc' = "submit"
    <2>1. pc = "retain" /\ UNCHANGED <<at, slot, input, lastProcessedInput>> /\ slot \in Oids
      BY <1>11 DEF RetainInput, RetainInputTx, serviceVars, activationVars, TypeInv, Located, SlotPcs, RowPcs
    <2>2. retained'[slot]
      BY <1>0, <1>11, <2>1 DEF RetainInput, RetainInputTx, OutboxTypeOK
    <2>3. QED
      BY <1>11, <2>1, <2>2 DEF Evidence, Fresh, Dispatching
  <1>12. CASE ClaimRequest /\ pc' = "job"
    <2>1. pc = "submit" /\ UNCHANGED <<at, slot, input, lastProcessedInput, retained>>
      BY <1>12 DEF ClaimRequest, serviceVars, outboxVars, activationVars, occurrenceVars
    <2>2. QED
      BY <1>12, <2>1 DEF Evidence, Fresh, Dispatching
  <1>13. QED
    BY <1>5, <1>6, <1>7, <1>8, <1>9, <1>10, <1>11, <1>12, Arrivals

\* processed-input-tx names completed work of the schedule, and nothing takes
\* that back.
LEMMA ProcessedStep == Safe /\ ActiveOwn /\ Evidence /\ ProcessedIsReal /\ [Next]_vars => ProcessedIsReal'
  <1> SUFFICES ASSUME Safe, ActiveOwn, Evidence, ProcessedIsReal, [Next]_vars,
                      NEW b \in Activations, lastProcessedInput'[b] # None
      PROVE  \E o \in Of(b) : /\ input'[o] = lastProcessedInput'[b]
                              /\ job'[o] = "completed" /\ Settled(o)'
                              /\ Kind[b] = "live" => filed'[o]
    BY DEF ProcessedIsReal, Settled
  <1> USE DEF Safe
  <1>0. OutboxTypeOK
    BY DEF TypeInv, TypeOK
  <1>1. OutboxStep
    BY StepOutbox
  <1>2. \A o \in Oids : /\ Receipts(o) /\ (job[o] \in Terminal => job'[o] = job[o])
                        /\ (Settled(o) => Settled(o)') /\ (filed[o] => filed'[o])
    BY <1>1, ReceiptsStay, JournalStays
  <1>3. CASE lastProcessedInput'[b] = lastProcessedInput[b]
    <2>1. PICK o \in Of(b) : /\ input[o] = lastProcessedInput[b]
                             /\ job[o] = "completed" /\ Settled(o)
                             /\ Kind[b] = "live" => filed[o]
      BY <1>3 DEF ProcessedIsReal
    <2>2. o \in Oids
      BY <2>1 DEF Of
    <2>3. QED
      BY <1>2, <1>3, <2>1, <2>2 DEF Receipts, Terminal
  <1>4. CASE lastProcessedInput'[b] # lastProcessedInput[b]
    <2>1. PICK a \in Activations, o \in Oids : ProcessedInputTx(a, o) /\ pc = "mark" /\ at = a /\ slot = o
      BY <1>1, <1>4, CursorMoves
    <2>2. a = b /\ lastProcessedInput'[b] = input[o]
      BY <1>0, <1>4, <2>1 DEF ProcessedInputTx, OutboxTypeOK
    <2>3. /\ active[b] = o /\ input[o] # None /\ Settled(o) /\ (Kind[b] = "live" => filed[o])
          /\ o # None
      BY <2>1, <2>2, IdsAssumption DEF ProcessedInputTx, Processable
    <2>4. o \in Of(b)
      BY <2>3 DEF ActiveOwn, Of
    <2>5. job[o] = "completed"
      BY <2>1 DEF Evidence
    <2>6. QED
      BY <1>2, <2>2, <2>3, <2>4, <2>5 DEF Receipts, Terminal
  <1>5. QED
    BY <1>3, <1>4

\* While work is going on its schedule's cursor over evidence stands still: the
\* slot is the work's own, and what is marked processed has returned.
LEMMA FreshStep == Safe /\ Evidence /\ FreshInputOnly /\ [Next]_vars => FreshInputOnly'
  <1> SUFFICES ASSUME Safe, Evidence, FreshInputOnly, [Next]_vars,
                      NEW o \in Oids, job'[o] \in {"created", "running"}, Selects(o[1])
      PROVE  /\ input'[o] # None /\ retained'[o]
             /\ input'[o] # lastProcessedInput'[o[1]]
             /\ input'[o] = EmptyInput => lastProcessedInput'[o[1]] # None
    BY DEF FreshInputOnly, Selects
  <1> USE DEF Safe
  <1>0. OutboxTypeOK /\ o[1] \in Activations
    BY DEF TypeInv, TypeOK, Oids
  <1>1. OutboxStep
    BY StepOutbox
  <1>2. Receipts(o)
    BY <1>1, ReceiptsStay
  <1>3. CASE job[o] \in {"created", "running"}
    <2>1. lastProcessedInput'[o[1]] = lastProcessedInput[o[1]]
      <3>1. ASSUME NEW a \in Activations, NEW p \in Oids, ProcessedInputTx(a, p), a = o[1] PROVE FALSE
        <4>1. active[o[1]] = p /\ Settled(p)
          BY <3>1 DEF ProcessedInputTx, Processable
        <4>2. active[o[1]] = o
          BY <1>3, WorkHolds
        <4>3. QED
          BY <1>3, <4>1, <4>2 DEF Ended, Settled, Terminal
      <3>2. QED
        BY <1>0, <1>1, <3>1, CursorMoves DEF ProcessedInputTx, OutboxTypeOK
    <2>2. QED
      BY <1>2, <1>3, <2>1 DEF FreshInputOnly, Receipts
  <1>4. CASE job[o] \notin {"created", "running"}
    <2>1. RecordJob /\ o = slot
      BY <1>4, JobMoves DEF Terminal
    <2>2. Fresh(o) /\ retained[o] /\ UNCHANGED <<input, retained, lastProcessedInput>>
      BY <2>1 DEF RecordJob, Evidence, Dispatching, outboxVars, activationVars, occurrenceVars
    <2>3. QED
      BY <2>2 DEF Fresh
  <1>5. QED
    BY <1>3, <1>4

-----------------------------------------------------------------------------
\* Accounting for slots.

\* A multiple of the interval is its quotient times the interval.
LEMMA Multiple ==
    ASSUME NEW n \in Nat, NEW d \in Nat, d > 0, n % d = 0
    PROVE  n \div d \in Nat /\ n = (n \div d) * d
  OBVIOUS

\* Every product with the interval is a multiple of it.
LEMMA ProductMultiple ==
    ASSUME NEW k \in Nat, NEW d \in Nat, d > 0
    PROVE  k * d \in Nat /\ (k * d) % d = 0
  OBVIOUS

\* A factor is bounded with its product.
LEMMA ProductOrder ==
    ASSUME NEW x \in Nat, NEW y \in Nat, NEW d \in Nat, d > 0, x * d < y * d + d
    PROVE  x <= y
  OBVIOUS

\* A product grows with its factor.
LEMMA ProductMono ==
    ASSUME NEW x \in Nat, NEW y \in Nat, NEW d \in Nat, x <= y
    PROVE  x * d <= y * d
  OBVIOUS

\* Products with the interval add up.
LEMMA Distributes ==
    ASSUME NEW x \in Nat, NEW y \in Nat, NEW d \in Nat
    PROVE  (x + y) * d = x * d + y * d
  OBVIOUS

\* Between a slot and the next there is none: what lies less than an interval
\* after a slot is not a later slot.
LEMMA NoSlotBetween ==
    ASSUME NEW m \in Nat, NEW n \in Nat, NEW d \in Nat, d > 0,
           m % d = 0, n % d = 0, n < m + d
    PROVE  n <= m
  <1> DEFINE x == n \div d
             y == m \div d
  <1>1. x \in Nat /\ y \in Nat /\ n = x * d /\ m = y * d
    BY Multiple
  <1> HIDE DEF x, y
  <1>2. x <= y
    BY <1>1, ProductOrder
  <1>3. QED
    BY <1>1, <1>2, ProductMono

\* Whole intervals after a slot there is a slot.
LEMMA SlotAfter ==
    ASSUME NEW m \in Nat, NEW k \in Nat, NEW d \in Nat, d > 0, m % d = 0
    PROVE  m + k * d \in Nat /\ (m + k * d) % d = 0
  <1> DEFINE y == m \div d
  <1>1. y \in Nat /\ m = y * d
    BY Multiple
  <1> HIDE DEF y
  <1>2. m + k * d = (y + k) * d
    BY <1>1, Distributes
  <1>3. QED
    BY <1>1, <1>2, ProductMultiple

\* An interval after a slot there is the next.
LEMMA NextSlot ==
    ASSUME NEW m \in Nat, NEW d \in Nat, d > 0, m % d = 0
    PROVE  (m + d) % d = 0
  <1> DEFINE y == m \div d
             z == y + 1
  <1>1. y \in Nat /\ m = y * d
    BY Multiple
  <1>2. z \in Nat /\ m + d = z * d
    BY <1>1, Distributes
  <1> HIDE DEF z
  <1> DEFINE p == z * d
  <1>3. p \in Nat /\ p % d = 0
    BY <1>2, ProductMultiple
  <1>4. m + d = p
    BY <1>2
  <1> HIDE DEF p
  <1>5. QED
    BY <1>3, <1>4

\* SlotsAccounted of one schedule: a slot before the cursor without an
\* occurrence is folded into a recorded one, and of the slots folded into one
\* those recorded were superseded.
Accounted(b) ==
    /\ \A s \in Slots :
          (s < nextFire[b] /\ s % Interval = 0 /\ state[<<b, s>>] = "absent") =>
              \E t \in Slots : /\ state[<<b, t>>] # "absent" /\ s < t
                               /\ s >= t - coalesced[<<b, t>>] * Interval
    /\ \A t \in Slots : state[<<b, t>>] # "absent" =>
          /\ t < nextFire[b]
          /\ \A s \in Slots :
                (/\ s < t /\ s >= t - coalesced[<<b, t>>] * Interval
                 /\ s % Interval = 0 /\ state[<<b, s>>] # "absent") => why[<<b, s>>] = "coalesced"

\* It is what SlotsAccounted says.
LEMMA AccountedIs == SlotsAccounted <=> \A b \in Activations : Accounted(b)
  BY DEF SlotsAccounted, Accounted

\* Cursors stand on slots, a queued occurrence is of the slot just before the
\* cursor, and a superseded one stays withdrawn.
Ticking ==
    /\ \A a \in Activations : nextFire[a] % Interval = 0
    /\ \A o \in Oids : state[o] = "pending" => o[2] + Interval = nextFire[o[1]]
    /\ \A o \in Oids : why[o] = "coalesced" => state[o] = "skipped"

\* due-tx in terms of the slot s it decides, k slots after the cursor.
DueMove(a, s, k, folded) ==
    /\ s = nextFire[a] + k * Interval /\ s % Interval = 0
    /\ (s + Interval) % Interval = 0
    /\ nextFire' = [nextFire EXCEPT ![a] = s + Interval]
    /\ <<a, s>> \in Oids /\ state[<<a, s>>] = "absent"
    /\ coalesced' = [coalesced EXCEPT ![<<a, s>>] = k + folded]
    /\ \/ folded = 0 /\ \E v \in {"pending", "skipped"} :
             /\ v = "pending" => active[a] = None
             /\ v = "skipped" => state[active[a]] # "pending"
             /\ state' = [state EXCEPT ![<<a, s>>] = v]
             /\ why' = why \/ (v = "skipped" /\ why' = [why EXCEPT ![<<a, s>>] = "overlap"])
       \/ /\ folded = 1 /\ active[a] \in Oids /\ active[a][1] = a /\ state[active[a]] = "pending"
          /\ state' = [state EXCEPT ![active[a]] = "skipped", ![<<a, s>>] = "pending"]
          /\ why' = [why EXCEPT ![active[a]] = "coalesced"]

\* A claim is such a move.
LEMMA DueMoves ==
    ASSUME Safe, ActiveOwn, Ticking, NEW a \in Activations, IsDue(a, now), DueTx(a, now)
    PROVE  \E s \in Slots, k \in Nat, folded \in {0, 1} : DueMove(a, s, k, folded)
  <1> USE DEF Safe
  <1>0. OutboxTypeOK /\ now \in Slots
    BY DEF TypeInv, TypeOK
  <1> DEFINE f == nextFire[a]
             k == Elapsed(Interval, f, now)
             s == IntendedSlot(Interval, f, now)
  <1>1. /\ s \in Slots /\ DueOid(a, now) = <<a, s>> /\ <<a, s>> \in Oids
        /\ state[<<a, s>>] = "absent"
    <2>1. DueOid(a, now) = <<a, s>>
      BY DEF DueOid
    <2>2. QED
      BY <1>0, <2>1, DueFresh DEF Oids
  <1>2. k \in Nat /\ s = f + k * Interval
    <2>1. f \in Nat /\ now \in Nat /\ f <= now
      BY <1>0, IdsAssumption DEF OutboxTypeOK, IsDue, Due, Slots
    <2>2. now - f \in Nat
      BY <2>1
    <2>3. Interval \in Nat /\ Interval > 0
      BY OutboxAssumption
    <2>4. k \in Nat
      BY <2>2, <2>3, QuotientBounds DEF Elapsed
    <2>5. QED
      BY <2>4 DEF IntendedSlot
  <1>4. IntervalSlot(Interval, f, now) = [intended |-> s, next |-> s + Interval, coalesced |-> k]
    BY DEF IntervalSlot
  <1> HIDE DEF k, s
  <1>3. s % Interval = 0 /\ (s + Interval) % Interval = 0
    <2>1. f \in Nat /\ f % Interval = 0 /\ Interval \in Nat /\ Interval > 0
      BY <1>0, OutboxAssumption DEF OutboxTypeOK, Ticking
    <2>2. s \in Nat /\ s % Interval = 0
      BY <1>2, <2>1, SlotAfter
    <2>3. QED
      BY <2>1, <2>2, NextSlot
  <1>5. CASE QueueDue(a, now) \/ OverlapDue(a, now)
    <2>1. /\ nextFire' = [nextFire EXCEPT ![a] = s + Interval]
          /\ coalesced' = [coalesced EXCEPT ![<<a, s>>] = k + 0]
      BY <1>1, <1>4, <1>5 DEF QueueDue, OverlapDue, AdvanceCursor
    <2>2. \E v \in {"pending", "skipped"} :
             /\ v = "pending" => active[a] = None
             /\ v = "skipped" => state[active[a]] # "pending"
             /\ state' = [state EXCEPT ![<<a, s>>] = v]
             /\ why' = why \/ (v = "skipped" /\ why' = [why EXCEPT ![<<a, s>>] = "overlap"])
      BY <1>1, <1>5 DEF QueueDue, OverlapDue
    <2>3. QED
      BY <1>1, <1>2, <1>3, <2>1, <2>2 DEF DueMove
  <1>6. CASE SupersedeDue(a, now)
    <2>1. /\ nextFire' = [nextFire EXCEPT ![a] = s + Interval]
          /\ coalesced' = [coalesced EXCEPT ![<<a, s>>] = k + 1]
      BY <1>1, <1>4, <1>6 DEF SupersedeDue, AdvanceCursor
    <2>2. /\ active[a] \in Oids /\ active[a][1] = a /\ state[active[a]] = "pending"
          /\ state' = [state EXCEPT ![active[a]] = "skipped", ![<<a, s>>] = "pending"]
          /\ why' = [why EXCEPT ![active[a]] = "coalesced"]
      BY <1>0, <1>1, <1>6 DEF SupersedeDue, OutboxTypeOK, ActiveOwn
    <2>3. QED
      BY <1>1, <1>2, <1>3, <2>1, <2>2 DEF DueMove
  <1>7. QED
    BY <1>5, <1>6 DEF DueTx

\* A claim of the schedule accounts for every slot up to it.
LEMMA DueAccounted ==
    ASSUME Safe, ActiveOwn, Ticking, NEW a \in Activations, Accounted(a), IsDue(a, now), DueTx(a, now)
    PROVE  Accounted(a)'
  <1> USE DEF Safe
  <1>0. OutboxTypeOK /\ Slots \subseteq Nat /\ Interval \in Nat /\ Interval > 0
    BY IdsAssumption, OutboxAssumption DEF TypeInv, TypeOK, Slots
  <1>1. PICK s \in Slots, k \in Nat, folded \in {0, 1} : DueMove(a, s, k, folded)
    BY DueMoves
  <1> USE DEF DueMove
  <1> DEFINE f == nextFire[a]
  <1>2. f \in Nat /\ f % Interval = 0 /\ k * Interval \in Nat /\ f <= s /\ nextFire'[a] = s + Interval
    <2>1. f \in Nat /\ f % Interval = 0
      BY <1>0 DEF OutboxTypeOK, Ticking
    <2>2. k * Interval \in Nat
      BY <1>0, ProductMultiple
    <2>3. QED
      BY <1>0, <1>1, <2>1, <2>2 DEF OutboxTypeOK
  <1>3. (k + folded) * Interval = k * Interval + (IF folded = 1 THEN Interval ELSE 0)
    <2>1. (k + folded) * Interval = k * Interval + folded * Interval
      BY <1>0, Distributes
    <2>2. folded * Interval = IF folded = 1 THEN Interval ELSE 0
      BY <1>0
    <2>3. QED
      BY <2>1, <2>2
  <1>4. coalesced'[<<a, s>>] * Interval = k * Interval + (IF folded = 1 THEN Interval ELSE 0)
    BY <1>0, <1>1, <1>3 DEF OutboxTypeOK
  <1>5. /\ state'[<<a, s>>] # "absent"
        /\ \A t \in Slots : t # s => /\ state'[<<a, t>>] = "absent" <=> state[<<a, t>>] = "absent"
                                     /\ coalesced'[<<a, t>>] = coalesced[<<a, t>>]
    <2>1. \A t \in Slots : <<a, t>> \in Oids
      BY DEF Oids
    <2>2. \A t \in Slots : t # s => <<a, t>> # <<a, s>>
      OBVIOUS
    <2>3. state \in [Oids -> OccurrenceStates] /\ coalesced \in [Oids -> Nat]
      BY <1>0 DEF OutboxTypeOK
    <2>4. \A t \in Slots : t # s => coalesced'[<<a, t>>] = coalesced[<<a, t>>]
      BY <1>1, <2>1, <2>2, <2>3
    <2>5. \A t \in Slots : t # s => (state'[<<a, t>>] = "absent" <=> state[<<a, t>>] = "absent")
      BY <1>1, <2>1, <2>2, <2>3
    <2>6. state'[<<a, s>>] # "absent"
      BY <1>1, <2>3
    <2>7. QED
      BY <2>4, <2>5, <2>6
  <1>6. \A t \in Slots : (t < s + Interval /\ t % Interval = 0) => t <= s
    BY <1>0, <1>1, NoSlotBetween
  <1>7. ASSUME NEW t \in Slots, t < f, t % Interval = 0 PROVE t + Interval <= f
    <2>1. t \in Nat /\ t + Interval \in Nat /\ t + Interval < f + Interval
      BY <1>0, <1>2, <1>7
    <2>2. (t + Interval) % Interval = 0
      BY <1>0, <1>7, <2>1, NextSlot
    <2> DEFINE n == t + Interval
    <2>3. n \in Nat /\ n % Interval = 0 /\ n < f + Interval
      BY <2>1, <2>2
    <2> HIDE DEF n
    <2>4. n <= f
      BY <1>0, <1>2, <2>3, NoSlotBetween
    <2>5. QED
      BY <2>4 DEF n
  <1>8. ASSUME NEW r \in Slots, r < s + Interval, r % Interval = 0, state'[<<a, r>>] = "absent"
        PROVE  \E t \in Slots : /\ state'[<<a, t>>] # "absent" /\ r < t
                                /\ r >= t - coalesced'[<<a, t>>] * Interval
    <2>1. r # s /\ state[<<a, r>>] = "absent"
      BY <1>5, <1>8
    <2>2. CASE r < f
      <3>1. PICK t \in Slots : /\ state[<<a, t>>] # "absent" /\ r < t
                               /\ r >= t - coalesced[<<a, t>>] * Interval
        BY <1>8, <2>1, <2>2 DEF Accounted
      <3>2. t # s
        BY <1>1, <3>1
      <3>3. QED
        BY <1>5, <3>1, <3>2
    <2>3. CASE ~(r < f)
      <3>1. r < s
        BY <1>0, <1>6, <1>8, <2>1
      <3>2. r >= s - coalesced'[<<a, s>>] * Interval
        BY <1>0, <1>1, <1>2, <1>4, <2>3
      <3>3. QED
        BY <1>5, <3>1, <3>2
    <2>4. QED
      BY <2>2, <2>3
  <1>9. ASSUME NEW t \in Slots, state'[<<a, t>>] # "absent", t # s
        PROVE  /\ t < s + Interval
               /\ \A r \in Slots : (/\ r < t /\ r >= t - coalesced'[<<a, t>>] * Interval
                                    /\ r % Interval = 0 /\ state'[<<a, r>>] # "absent") => why'[<<a, r>>] = "coalesced"
    <2>1. state[<<a, t>>] # "absent" /\ coalesced'[<<a, t>>] = coalesced[<<a, t>>] /\ t < f
      BY <1>5, <1>9 DEF Accounted
    <2>2. ASSUME NEW r \in Slots, r < t, r >= t - coalesced[<<a, t>>] * Interval,
                 r % Interval = 0, state'[<<a, r>>] # "absent"
          PROVE  why'[<<a, r>>] = "coalesced"
      <3>1. r # s /\ <<a, r>> # <<a, s>>
        BY <1>0, <1>2, <2>1, <2>2
      <3>2. state[<<a, r>>] # "absent"
        BY <1>5, <2>2, <3>1
      <3>3. why[<<a, r>>] = "coalesced" /\ <<a, r>> \in Oids
        BY <2>1, <2>2, <3>2 DEF Accounted, Oids
      <3>4. QED
        BY <1>0, <1>1, <3>1, <3>3 DEF OutboxTypeOK
    <2>3. QED
      BY <1>0, <1>2, <2>1, <2>2
  <1>10. ASSUME NEW r \in Slots, r < s, r >= s - coalesced'[<<a, s>>] * Interval,
                r % Interval = 0, state'[<<a, r>>] # "absent"
         PROVE  why'[<<a, r>>] = "coalesced"
    <2>1. state[<<a, r>>] # "absent" /\ r < f
      BY <1>0, <1>5, <1>10 DEF Accounted
    <2>2. folded = 1 /\ r = f - Interval
      <3> DEFINE kI == k * Interval
                 c == coalesced'[<<a, s>>] * Interval
      <3>1. s = f + kI /\ c = kI + (IF folded = 1 THEN Interval ELSE 0) /\ r >= s - c /\ kI \in Nat
        BY <1>1, <1>2, <1>4, <1>10
      <3>2. r \in Nat /\ r + Interval <= f
        BY <1>0, <1>7, <1>10, <2>1
      <3> HIDE DEF kI, c, f, DueMove
      <3>3. QED
        BY <1>0, <1>2, <3>1, <3>2
    <2>3. /\ active[a] \in Oids /\ active[a][1] = a /\ state[active[a]] = "pending"
          /\ why' = [why EXCEPT ![active[a]] = "coalesced"]
      BY <1>1, <2>2
    <2>4. active[a][2] + Interval = f /\ active[a][2] \in Slots
      BY <2>3 DEF Ticking, Oids
    <2>5. active[a] = <<a, r>>
      <3>1. active[a][2] = r
        <4> DEFINE q == active[a][2]
        <4>1. q \in Nat /\ q + Interval = f /\ r = f - Interval
          BY <1>0, <2>2, <2>4
        <4> HIDE DEF q, f
        <4>2. f \in Nat
          BY <1>2
        <4>3. q = r
          BY <1>0, <4>1, <4>2
        <4>4. QED
          BY <4>3 DEF q
      <3>2. QED
        BY <2>3, <3>1 DEF Oids
    <2>6. QED
      BY <1>0, <2>3, <2>5 DEF OutboxTypeOK
  <1>11. s < s + Interval
    BY <1>0
  <1>12. \A t \in Slots : state'[<<a, t>>] # "absent" =>
          /\ t < nextFire'[a]
          /\ \A r \in Slots :
                (/\ r < t /\ r >= t - coalesced'[<<a, t>>] * Interval
                 /\ r % Interval = 0 /\ state'[<<a, r>>] # "absent") => why'[<<a, r>>] = "coalesced"
    BY <1>2, <1>9, <1>10, <1>11
  <1>13. \A r \in Slots :
          (r < nextFire'[a] /\ r % Interval = 0 /\ state'[<<a, r>>] = "absent") =>
              \E t \in Slots : /\ state'[<<a, t>>] # "absent" /\ r < t
                               /\ r >= t - coalesced'[<<a, t>>] * Interval
    BY <1>2, <1>8
  <1>14. QED
    BY <1>12, <1>13 DEF Accounted

\* What every transaction but a claim leaves alone.
LEMMA QuietAccounts ==
    ASSUME Safe, OutboxStep, \A a \in Activations : ~(IsDue(a, now) /\ DueTx(a, now)), NEW p \in Oids
    PROVE  /\ UNCHANGED <<nextFire, coalesced>>
           /\ state'[p] = "absent" <=> state[p] = "absent"
           /\ state'[p] = "pending" => state[p] = "pending"
           /\ why'[p] = "coalesced" => why[p] = "coalesced"
  <1> USE DEF Safe
  <1>0. OutboxTypeOK
    BY DEF TypeInv, TypeOK
  <1> DEFINE Quiet == /\ UNCHANGED <<nextFire, coalesced>>
                      /\ state'[p] = "absent" <=> state[p] = "absent"
                      /\ state'[p] = "pending" => state[p] = "pending"
                      /\ why'[p] = "coalesced" => why[p] = "coalesced"
  <1>1. ASSUME UNCHANGED outboxVars PROVE Quiet
    BY <1>1 DEF outboxVars, activationVars, occurrenceVars
  <1>2. ASSUME NEW a \in Activations,
               \/ PauseTx(a) \/ (\E h \in Humans : ResumeTx(a, inspected[h].row))
               \/ (\E r \in HoldReasons : BlockTx(a, r)) \/ DueTx(a, now)
        PROVE  Quiet
    BY <1>0, <1>2 DEF PauseTx, ResumeTx, BlockTx, DueTx, OutboxTypeOK, outboxVars, activationVars, occurrenceVars
  <1>3. ASSUME NEW a \in Activations, NEW o \in Oids,
               \/ AdmitTx(a, o) \/ (\E i \in Inputs : SelectInputTx(a, o, i)) \/ RetainInputTx(a, o)
        PROVE  Quiet
    BY <1>0, <1>3 DEF AdmitTx, Admissible, SelectInputTx, SelectReason, RetainInputTx, Owns, OutboxTypeOK,
       activationVars
  <1>4. ASSUME NEW o \in Oids,
               \/ FinishAdmissionTx(o, "linked") /\ state[o] \in {"admitting", "linked"}
               \/ FinishAdmissionTx(o, "interrupted") /\ state[o] = "admitting"
               \/ MarkAnnouncedTx(o)
        PROVE  Quiet
    BY <1>0, <1>4 DEF FinishAdmissionTx, MarkAnnouncedTx, OutboxTypeOK, activationVars
  <1>5. ASSUME NEW a \in Activations, NEW o \in Oids, NEW r \in SkipReasons \ {"coalesced"}, InterruptOwnedTx(a, o, r)
        PROVE  Quiet
    BY <1>0, <1>5 DEF InterruptOwnedTx, Owns, OutboxTypeOK, occurrenceVars
  <1>6. ASSUME NEW a \in Activations, NEW o \in Oids,
               \/ ProcessedInputTx(a, o) \/ ClearActiveTx(a, o)
               \/ \E m \in {"job", "candidate"} : FailTerminalTx(a, o, snap[a], m)
        PROVE  Quiet
    BY <1>0, <1>6 DEF ProcessedInputTx, ClearActiveTx, FailTerminalTx, OutboxTypeOK, occurrenceVars
  <1> HIDE DEF Quiet
  <1>7. Quiet
    BY <1>1, <1>2, <1>3, <1>4, <1>5, <1>6 DEF OutboxStep
  <1>8. QED
    BY <1>7 DEF Quiet

\* Cursors, queued slots and superseded ones stay as Ticking says.
LEMMA TickingStep == Safe /\ ActiveOwn /\ Ticking /\ OutboxStep => Ticking'
  <1> SUFFICES ASSUME Safe, ActiveOwn, Ticking, OutboxStep PROVE Ticking'
    OBVIOUS
  <1> USE DEF Safe
  <1>0. OutboxTypeOK
    BY DEF TypeInv, TypeOK
  <1>1. \A p \in Oids : Receipts(p) /\ p[1] \in Activations
    BY ReceiptsStay DEF Oids
  <1>2. CASE \A a \in Activations : ~(IsDue(a, now) /\ DueTx(a, now))
    <2>1. \A p \in Oids : /\ UNCHANGED nextFire
                          /\ state'[p] = "pending" => state[p] = "pending"
                          /\ why'[p] = "coalesced" => why[p] = "coalesced"
      BY <1>2, QuietAccounts
    <2>2. \A a \in Activations : nextFire'[a] = nextFire[a]
      <3>1. ASSUME NEW a \in Activations PROVE <<a, 0>> \in Oids
        BY IdsAssumption DEF Slots, Oids
      <3>2. QED
        BY <2>1, <3>1
    <2>3. QED
      BY <1>1, <2>1, <2>2 DEF Ticking, Receipts
  <1>3. ASSUME NEW a \in Activations, IsDue(a, now), DueTx(a, now) PROVE Ticking'
    <2>1. PICK s \in Slots, k \in Nat, folded \in {0, 1} : DueMove(a, s, k, folded)
      BY <1>3, DueMoves
    <2> USE DEF DueMove
    <2> DEFINE d == <<a, s>>
    <2>2. d \in Oids /\ d[1] = a /\ d[2] = s /\ state[d] = "absent"
      BY <2>1
    <2>3. \A b \in Activations : nextFire'[b] = IF b = a THEN s + Interval ELSE nextFire[b]
      BY <1>0, <2>1 DEF OutboxTypeOK
    <2> HIDE DEF d
    <2>4. \A b \in Activations : nextFire'[b] % Interval = 0
      BY <2>1, <2>3 DEF Ticking
    <2>5. ASSUME NEW o \in Oids, state'[o] = "pending" PROVE o[2] + Interval = nextFire'[o[1]]
      <3>1. CASE o = d
        BY <2>2, <2>3, <3>1
      <3>2. CASE o # d
        <4>1. state[o] = "pending"
          BY <1>0, <2>1, <2>5, <3>2 DEF OutboxTypeOK, d
        <4>2. active[o[1]] = o
          BY <4>1 DEF Kept, NoLostWork
        <4>3. o[1] # a
          BY <1>0, <2>1, <2>5, <3>2, <4>2, IdsAssumption DEF OutboxTypeOK, d
        <4>4. QED
          BY <1>1, <2>3, <4>1, <4>3 DEF Ticking
      <3>3. QED
        BY <3>1, <3>2
    <2>6. ASSUME NEW o \in Oids, why'[o] = "coalesced" PROVE state'[o] = "skipped"
      <3>1. CASE o = d
        <4>1. why[d] # "coalesced"
          BY <2>2 DEF Ticking
        <4>2. d # active[a] \/ folded = 0
          BY <2>1, <2>2
        <4>3. QED
          BY <1>0, <2>1, <2>2, <2>6, <3>1, <4>1, <4>2 DEF OutboxTypeOK, d
      <3>2. CASE o # d
        BY <1>0, <1>1, <2>1, <2>6, <3>2 DEF Ticking, Receipts, OutboxTypeOK, d
      <3>3. QED
        BY <3>1, <3>2
    <2>7. QED
      BY <2>4, <2>5, <2>6 DEF Ticking
  <1>4. QED
    BY <1>2, <1>3

\* No step loses or double counts a slot.
LEMMA SlotsStep == Safe /\ ActiveOwn /\ Ticking /\ SlotsAccounted /\ OutboxStep => SlotsAccounted'
  <1> SUFFICES ASSUME Safe, ActiveOwn, Ticking, SlotsAccounted, OutboxStep, NEW b \in Activations
               PROVE  Accounted(b)'
    BY DEF SlotsAccounted, Accounted
  <1> USE DEF Safe
  <1>0. OutboxTypeOK /\ Accounted(b)
    BY AccountedIs DEF TypeInv, TypeOK
  <1>1. \A s \in Slots : <<b, s>> \in Oids
    BY DEF Oids
  <1>2. \A p \in Oids : why[p] = "coalesced" => why'[p] = "coalesced"
    BY ReceiptsStay DEF Ticking, Receipts
  <1>3. ASSUME nextFire'[b] = nextFire[b],
               \A s \in Slots : /\ coalesced'[<<b, s>>] = coalesced[<<b, s>>]
                                /\ state'[<<b, s>>] = "absent" <=> state[<<b, s>>] = "absent"
        PROVE  Accounted(b)'
    BY <1>0, <1>1, <1>2, <1>3 DEF Accounted
  <1>4. CASE \A a \in Activations : ~(IsDue(a, now) /\ DueTx(a, now))
    <2>1. \A p \in Oids : /\ UNCHANGED <<nextFire, coalesced>>
                          /\ state'[p] = "absent" <=> state[p] = "absent"
      BY <1>4, QuietAccounts
    <2>2. <<b, 0>> \in Oids
      BY <1>1, IdsAssumption DEF Slots
    <2>3. QED
      BY <1>1, <1>3, <2>1, <2>2
  <1>5. ASSUME NEW a \in Activations, IsDue(a, now), DueTx(a, now), a # b PROVE Accounted(b)'
    <2>1. PICK s \in Slots, k \in Nat, folded \in {0, 1} : DueMove(a, s, k, folded)
      BY <1>5, DueMoves
    <2>2. \A t \in Slots : <<b, t>> # <<a, s>> /\ (active[a][1] = a => <<b, t>> # active[a])
      BY <1>5
    <2>3. QED
      BY <1>0, <1>1, <1>3, <1>5, <2>1, <2>2 DEF OutboxTypeOK, DueMove
  <1>6. QED
    BY <1>0, <1>4, <1>5, DueAccounted

-----------------------------------------------------------------------------
\* The conflicts the writer would throw.

\* What the code checks before or in a transaction, and throws a conflict for:
\* no earlier attempt at the occurrence, the claim, the first selection and
\* retention, an open request, and evidence of settled work in its slot.
ConflictFree ==
    /\ pc = "admit"  => request[slot] = "none" /\ ~retained[slot]
    /\ pc = "select" => Owns(at, slot) /\ input[slot] = None
    /\ pc = "retain" => Owns(at, slot) /\ input[slot] # None /\ ~retained[slot]
    /\ pc = "submit" => Owns(at, slot)
    /\ pc = "job"    => request[slot] = "admitting" /\ job[slot] = "none"
    /\ pc = "mark"   => Processable(at, slot)

\* The rows: evidence is selected only while admitting, every linked occurrence
\* carries its request, and selecting schedules submit retained evidence.
Ordered ==
    \A o \in Oids :
        /\ state[o] \in {"absent", "pending"} => input[o] = None /\ ~retained[o]
        /\ state[o] = "linked" => pointer[o]
        /\ request[o] \in {"none", "admitting"} => job[o] = "none"
        /\ (request[o] = "submitted" /\ Selects(o[1])) => input[o] # None /\ retained[o]

\* The pass: an occurrence read at its start and not yet visited is still in its
\* slot, or a human has withdrawn it meanwhile.
Visiting ==
    /\ pc \in RowPcs => at \notin todo
    /\ pc \in RowPcs \cup {"row"} =>
          \A a \in todo : snap[a].active # None =>
              active[a] = snap[a].active \/ state[snap[a].active] = "skipped"

\* The occurrence in hand: its slot while it is settled, and how far its
\* admission has come.
Holding ==
    /\ pc \in Settling => active[at] = slot
    /\ pc \in {"file", "mark"} => Selects(at)
    /\ (pc = "mark" /\ Kind[at] = "live") => filed[slot]
    /\ pc = "admit" => request[slot] = "none"
    /\ pc \in {"admit", "select"} => input[slot] = None
    /\ pc \in {"admit", "select", "retain"} => ~retained[slot]
    /\ pc = "job" => request[slot] = "admitting"

\* Together they exclude every conflict.
LEMMA NoConflict ==
    ASSUME Safe, ActiveOwn, Evidence, Ordered, Holding
    PROVE  ConflictFree
  <1> USE DEF Safe
  <1>1. pc \in {"admit", "select", "retain", "submit", "job", "mark"} => slot \in Oids /\ at \in Activations
    BY DEF TypeInv, Located, SlotPcs, RowPcs
  <1>2. ASSUME pc \in {"select", "retain", "submit"} PROVE Owns(at, slot)
    <2>1. state[slot] = "admitting" /\ slot[1] = at
      BY <1>2 DEF InHand, Evidence, Dispatching
    <2>2. QED
      BY <1>1, <1>2, <2>1 DEF Kept, NoLostWork, Owns
  <1>3. pc = "retain" => input[slot] # None
    BY DEF Evidence, Fresh
  <1>4. pc = "job" => job[slot] = "none"
    BY <1>1 DEF Holding, Ordered
  <1>5. ASSUME pc = "mark" PROVE Processable(at, slot)
    <2>1. state[slot] = "linked" /\ Settled(slot) /\ active[at] = slot
      BY <1>5 DEF InHand, Holding, Settling
    <2>2. slot[1] = at
      BY <1>1, <1>5, <2>1, IdsAssumption DEF ActiveOwn
    <2>3. QED
      BY <1>1, <1>5, <2>1, <2>2 DEF Ordered, Holding, Processable, Settled
  <1>6. QED
    BY <1>2, <1>3, <1>4, <1>5 DEF ConflictFree, Holding

\* An occurrence is queued once, its evidence moves only while it is admitting,
\* and it is linked with its request.
LEMMA RowMoves ==
    ASSUME Safe, OutboxStep, NEW p \in Oids
    PROVE  /\ state'[p] \in {"absent", "pending"} =>
                 /\ state[p] \in {"absent", "pending"}
                 /\ input'[p] = input[p] /\ retained'[p] = retained[p]
           /\ state'[p] = "linked" => state[p] = "linked" \/ pointer'[p]
           /\ pointer[p] => pointer'[p]
  <1> USE DEF Safe
  <1>0. OutboxTypeOK /\ now \in Slots
    BY DEF TypeInv, TypeOK
  <1> DEFINE Goal == /\ state'[p] \in {"absent", "pending"} =>
                           /\ state[p] \in {"absent", "pending"}
                           /\ input'[p] = input[p] /\ retained'[p] = retained[p]
                     /\ state'[p] = "linked" => state[p] = "linked" \/ pointer'[p]
                     /\ pointer[p] => pointer'[p]
  <1>1. CASE UNCHANGED outboxVars
    BY <1>1 DEF outboxVars, activationVars, occurrenceVars
  <1>2. ASSUME NEW a \in Activations,
               \/ PauseTx(a) \/ (\E h \in Humans : ResumeTx(a, inspected[h].row))
               \/ (\E r \in HoldReasons : BlockTx(a, r))
        PROVE  Goal
    BY <1>0, <1>2 DEF PauseTx, ResumeTx, BlockTx, OutboxTypeOK, occurrenceVars
  <1>3. ASSUME NEW a \in Activations, DueTx(a, now) PROVE Goal
    <2>1. CASE ~IsDue(a, now)
      BY <1>1, <1>3, <2>1 DEF DueTx
    <2>2. CASE IsDue(a, now)
      <3>1. DueOid(a, now) \in Oids /\ state[DueOid(a, now)] = "absent"
        BY <1>0, <2>2, DueFresh
      <3>2. QED
        BY <1>0, <1>3, <2>2, <3>1 DEF DueTx, QueueDue, SupersedeDue, OverlapDue, AdvanceCursor,
           OutboxTypeOK
    <2>3. QED
      BY <2>1, <2>2
  <1>4. ASSUME NEW a \in Activations, NEW o \in Oids,
               \/ AdmitTx(a, o) \/ (\E i \in Inputs : SelectInputTx(a, o, i)) \/ RetainInputTx(a, o)
        PROVE  Goal
    BY <1>0, <1>4 DEF AdmitTx, Admissible, SelectInputTx, RetainInputTx, Owns, OutboxTypeOK,
       activationVars
  <1>5. ASSUME NEW o \in Oids,
               \/ FinishAdmissionTx(o, "linked") /\ state[o] \in {"admitting", "linked"}
               \/ FinishAdmissionTx(o, "interrupted") /\ state[o] = "admitting"
               \/ MarkAnnouncedTx(o)
        PROVE  Goal
    BY <1>0, <1>5 DEF FinishAdmissionTx, MarkAnnouncedTx, OutboxTypeOK, activationVars
  <1>6. ASSUME NEW a \in Activations, NEW o \in Oids, NEW r, InterruptOwnedTx(a, o, r)
        PROVE  Goal
    BY <1>0, <1>6 DEF InterruptOwnedTx, Owns, OutboxTypeOK, occurrenceVars
  <1>7. ASSUME NEW a \in Activations, NEW o \in Oids,
               \/ ProcessedInputTx(a, o) \/ ClearActiveTx(a, o)
               \/ \E m \in {"job", "candidate"} : FailTerminalTx(a, o, snap[a], m)
        PROVE  Goal
    BY <1>0, <1>7 DEF ProcessedInputTx, ClearActiveTx, FailTerminalTx, OutboxTypeOK, occurrenceVars
  <1>8. QED
    BY <1>1, <1>2, <1>3, <1>4, <1>5, <1>6, <1>7 DEF OutboxStep

\* A request is submitted only by recording its Job, and never goes back to
\* being open.
LEMMA RequestMoves ==
    ASSUME Safe, [Next]_vars, NEW p \in Oids
    PROVE  /\ request'[p] = "submitted" => request[p] = "submitted" \/ (RecordJob /\ p = slot)
           /\ request'[p] \in {"none", "admitting"} => /\ request[p] \in {"none", "admitting"}
                                                      /\ ~(RecordJob /\ p = slot)
  <1>0. WorkTypeOK
    BY DEF Safe, TypeInv, TypeOK
  <1>1. PICK o : JournalStep(o)
    BY StepJournal
  <1>2. /\ request'[p] = "submitted" =>
              request[p] = "submitted" \/ (job[p] = "none" /\ job'[p] = "created")
        /\ request'[p] \in {"none", "admitting"} => request[p] \in {"none", "admitting"}
    BY <1>0, <1>1 DEF JournalStep, WorkTypeOK, ClaimRequestTx, RecordJobTx, InterruptRequestTx,
       StartEvaluation, FailConstruction, FileOutputTx, FinishJob, ReturnJob, BootRecovery, workVars
  <1>3. RecordJob /\ p = slot => request'[p] = "submitted"
    BY <1>0 DEF RecordJob, RecordJobTx, WorkTypeOK
  <1>4. QED
    BY <1>2, <1>3, JobMoves

\* The order of the rows is inductive.
LEMMA OrderedStep == Safe /\ Evidence /\ Ordered /\ [Next]_vars => Ordered'
  <1> SUFFICES ASSUME Safe, Evidence, Ordered, [Next]_vars, NEW o \in Oids
      PROVE  /\ state'[o] \in {"absent", "pending"} => input'[o] = None /\ ~retained'[o]
             /\ state'[o] = "linked" => pointer'[o]
             /\ request'[o] \in {"none", "admitting"} => job'[o] = "none"
             /\ (request'[o] = "submitted" /\ Selects(o[1])) => input'[o] # None /\ retained'[o]
    BY DEF Ordered, Selects
  <1>1. OutboxStep
    BY StepOutbox
  <1>2. /\ state'[o] \in {"absent", "pending"} => input'[o] = None /\ ~retained'[o]
        /\ state'[o] = "linked" => pointer'[o]
    BY <1>1, RowMoves DEF Ordered
  <1>3. request'[o] \in {"none", "admitting"} => job'[o] = "none"
    BY RequestMoves, JobMoves DEF Ordered
  <1>4. ASSUME request'[o] = "submitted", Selects(o[1])
        PROVE  input'[o] # None /\ retained'[o]
    <2>1. input[o] # None /\ retained[o]
      <3>1. CASE request[o] = "submitted"
        BY <1>4, <3>1 DEF Ordered
      <3>2. CASE RecordJob /\ o = slot
        BY <1>4, <3>2 DEF RecordJob, Evidence, Fresh, Dispatching
      <3>3. QED
        BY <1>4, <3>1, <3>2, RequestMoves
    <2>2. Receipts(o)
      BY <1>1, ReceiptsStay
    <2>3. QED
      BY <2>1, <2>2 DEF Receipts
  <1>5. QED
    BY <1>2, <1>3, <1>4

\* How the slots move: a human withdraws queued work, or the worker moves the
\* slot of the row it is at.
LEMMA SlotMoves ==
    ASSUME Safe, [Next]_vars
    PROVE  \/ active' = active
           \/ \E a \in Activations : Pause(a)
           \/ /\ pc \in RowPcs
              /\ \A a \in Activations : a # at => active'[a] = active[a]
              /\ pc = "claim" \/ pc' \notin Settling
  <1> USE DEF Safe
  <1>0. OutboxTypeOK
    BY DEF TypeInv, TypeOK
  <1>1. CASE UNCHANGED vars \/ BeginPass \/ (\E a \in Activations : TakeRow(a)) \/ EndPass
             \/ Failures \/ Boot \/ Start \/ (\E o \in Oids : JobStep(o))
    BY <1>1 DEF vars, BeginPass, TakeRow, EndPass, Failures, Fault, RecoverFault, AbandonRequest,
                FailStart, Crash, Stop, Boot, Start, JobStep, outboxVars, activationVars
  <1>2. CASE Controls
    BY <1>2 DEF Controls, Inspect, Resume, ResumeTx, RefuseResume, outboxVars, activationVars
  <1>3. CASE Recover
    BY <1>3 DEF Recover, RecoverLinked, RecoverInterrupted, RecoverUnclaimed, RecoverBlock,
       RecoverCaught, RecoverDone, FinishAdmissionTx, InterruptOwnedTx, BlockTx,
       outboxVars, activationVars
  <1>4. CASE Release
    <2>1. CASE RecordFailure \/ ReleaseSlot
      <3>1. pc \in RowPcs /\ pc' \notin Settling
        BY <2>1 DEF RecordFailure, ReleaseSlot, Reply, Acked, Thrown, Handler, Processing,
           Dispatching, RowWide, RowPcs, Settling
      <3>2. \A a \in Activations : a # at => active'[a] = active[a]
        BY <1>0, <2>1 DEF RecordFailure, ReleaseSlot, FailTerminalTx, ClearActiveTx, OutboxTypeOK
      <3>3. QED
        BY <3>1, <3>2
    <2>2. QED
      BY <1>4, <2>1 DEF Release, FileOutput, MarkProcessed, RejectFrozen, PostResult, SkipPost,
         MarkAnnounced, Rethrow, RefuseFailure, ProcessedInputTx, BlockTx, MarkAnnouncedTx,
         outboxVars, activationVars
  <1>5. CASE Dispatch
    <2>1. CASE ClaimDue \/ SelectInput
      <3>1. /\ pc \in RowPcs
            /\ pc = "claim" \/ pc' \notin Settling
        BY <2>1 DEF ClaimDue, SelectInput, Reply, Acked, Thrown, Handler, Processing,
           Dispatching, RowWide, RowPcs, Settling
      <3>2. \A a \in Activations : a # at => active'[a] = active[a]
        BY <1>0, <2>1 DEF ClaimDue, SelectInput, DueTx, QueueDue, SupersedeDue, OverlapDue,
           SelectInputTx, OutboxTypeOK, outboxVars, activationVars
      <3>3. QED
        BY <3>1, <3>2
    <2>2. QED
      BY <1>5, <2>1 DEF Dispatch, Look, Admit, RetainInput, ClaimRequest, RecordJob, StartWork,
         LinkSubmitted, LinkInterrupted, BlockInterrupted, InterruptUnclaimed, AlreadySkipped, Hold,
         AdmitTx, RetainInputTx, FinishAdmissionTx, InterruptOwnedTx, BlockTx, BlockOwnedTx,
         outboxVars, activationVars
  <1>6. QED
    BY <1>1, <1>2, <1>3, <1>4, <1>5 DEF Next, Worker

\* How the pass moves over the rows.
LEMMA PassMoves ==
    ASSUME [Next]_vars, pc' \in RowPcs \cup {"row"}
    PROVE  \/ BeginPass
           \/ \E a \in Activations : TakeRow(a)
           \/ /\ pc \in RowPcs \cup {"row"}
              /\ UNCHANGED <<todo, snap, at>>
              /\ pc' \in RowPcs => pc \in RowPcs
  <1> USE DEF RowPcs
  <1>1. CASE UNCHANGED vars \/ Controls \/ \E o \in Oids : JobStep(o)
    BY <1>1 DEF vars, Controls, Pause, Inspect, Resume, RefuseResume, Answered, JobStep, serviceVars
  <1>2. CASE Boot \/ Start \/ Failures
    BY <1>2 DEF Boot, Start, Failures, Fault, RecoverFault, Recovering, AbandonRequest, FailStart,
       Crash, Stop, Thrown, Handler, Processing, Dispatching, RowWide, serviceVars
  <1>3. CASE Recover
    BY <1>3 DEF Recover, RecoverLinked, RecoverInterrupted, RecoverUnclaimed, RecoverBlock,
       RecoverCaught, RecoverDone, Recovering, Reply, Acked, Thrown, Handler, Processing,
       Dispatching, RowWide
  <1>4. CASE BeginPass \/ (\E a \in Activations : TakeRow(a)) \/ EndPass
    BY <1>4 DEF EndPass
  <1>5. CASE Release
    BY <1>5 DEF Release, FileOutput, MarkProcessed, RejectFrozen, PostResult, SkipPost,
       MarkAnnounced, Rethrow, RecordFailure, RefuseFailure, ReleaseSlot, serviceVars
  <1>6. CASE Dispatch
    BY <1>6 DEF Dispatch, ClaimDue, Look, Admit, SelectInput, RetainInput, ClaimRequest, RecordJob,
       StartWork, LinkSubmitted, LinkInterrupted, BlockInterrupted, InterruptUnclaimed,
       AlreadySkipped, Hold, serviceVars
  <1>7. QED
    BY <1>1, <1>2, <1>3, <1>4, <1>5, <1>6 DEF Next, Worker

\* What a pass knows of the rows it has yet to visit is inductive.
LEMMA VisitingStep == Safe /\ Visiting /\ [Next]_vars => Visiting'
  <1> SUFFICES ASSUME Safe, Visiting, [Next]_vars, pc' \in RowPcs \cup {"row"} PROVE Visiting'
    BY DEF Visiting
  <1> USE DEF Safe
  <1>0. OutboxTypeOK
    BY DEF TypeInv, TypeOK
  <1>1. CASE BeginPass
    BY <1>1 DEF BeginPass, Acked, Row, Visiting, RowPcs, outboxVars, activationVars
  <1>2. ASSUME NEW a \in Activations, TakeRow(a) PROVE Visiting'
    <2>1. /\ pc = "row" /\ at' = a /\ todo' = todo \ {a}
          /\ UNCHANGED <<snap, active, state>>
      BY <1>2 DEF TakeRow, outboxVars, activationVars, occurrenceVars
    <2>2. QED
      BY <2>1 DEF Visiting
  <1>3. CASE /\ pc \in RowPcs \cup {"row"}
             /\ UNCHANGED <<todo, snap, at>>
             /\ pc' \in RowPcs => pc \in RowPcs
    <2>1. ASSUME NEW a \in todo, snap[a].active # None
          PROVE  active'[a] = snap[a].active \/ state'[snap[a].active] = "skipped"
      <3>1. a \in Activations /\ snap[a].active \in Oids
        BY <1>3, <2>1 DEF TypeInv, TypeOK, Located, Rows
      <3>2. state[snap[a].active] = "skipped" => state'[snap[a].active] = "skipped"
        BY <3>1, StepOutbox, ReceiptsStay DEF Receipts
      <3>3. ASSUME active[a] = snap[a].active
            PROVE  active'[a] = snap[a].active \/ state'[snap[a].active] = "skipped"
        <4>1. ASSUME NEW b \in Activations, Pause(b)
              PROVE  active'[a] = active[a] \/ state'[active[a]] = "skipped"
          BY <1>0, <3>1, <3>3, <4>1 DEF Pause, PauseTx, OutboxTypeOK
        <4>2. pc \in RowPcs => a # at
          BY <1>3, <2>1 DEF Visiting
        <4>3. QED
          BY <3>1, <3>3, <4>1, <4>2, SlotMoves
      <3>4. QED
        BY <1>3, <2>1, <3>2, <3>3 DEF Visiting
    <2>2. QED
      BY <1>3, <2>1 DEF Visiting
  <1>4. QED
    BY <1>1, <1>2, <1>3, PassMoves

\* Where the worker stays put, only humans and Jobs act.
LEMMA StandsBy ==
    ASSUME Safe, [Next]_vars, pc' \in Relying, UNCHANGED <<pc, at, slot>>
    PROVE  UNCHANGED <<request, filed, input, retained>>
  <1> USE DEF Relying, Dispatching
  <1>1. CASE UNCHANGED vars \/ Controls \/ \E o \in Oids : JobStep(o)
    BY <1>1 DEF vars, workVars, outboxVars, occurrenceVars, Controls, Pause, PauseTx, Inspect, Resume,
       ResumeTx, RefuseResume, Answered, JobStep, FinishJob, ReturnJob
  <1>2. CASE Boot \/ Start \/ Failures \/ Recover \/ Release \/ Dispatch
             \/ BeginPass \/ (\E a \in Activations : TakeRow(a)) \/ EndPass
    <2>1. pc # pc'
      <3>1. CASE Boot \/ Start \/ Failures
        BY <3>1 DEF Boot, Start, Failures, Fault, RecoverFault, AbandonRequest, FailStart, Crash, Stop,
           Thrown, Handler, Processing, RowWide
      <3>2. CASE Recover
        BY <3>2 DEF Recover, RecoverLinked, RecoverInterrupted, RecoverUnclaimed, RecoverBlock,
           RecoverCaught, RecoverDone, Recovering, Reply, Acked, Thrown, Handler, Processing, RowWide
      <3>3. CASE BeginPass \/ (\E a \in Activations : TakeRow(a)) \/ EndPass
        BY <3>3 DEF BeginPass, TakeRow, EndPass, Acked, Process
      <3>4. CASE Release
        BY <3>4 DEF Release, FileOutput, MarkProcessed, RejectFrozen, PostResult, SkipPost,
           MarkAnnounced, Rethrow, RecordFailure, RefuseFailure, ReleaseSlot,
           Reply, Acked, Thrown, Handler, Processing, RowWide
      <3>5. CASE Dispatch
        BY <3>5 DEF Dispatch, ClaimDue, Look, Admit, SelectInput, RetainInput, ClaimRequest, RecordJob,
           StartWork, LinkSubmitted, LinkInterrupted, BlockInterrupted, InterruptUnclaimed,
           AlreadySkipped, Hold, Reply, Acked, Thrown, Handler, Processing, RowWide
      <3>6. QED
        BY <1>2, <3>1, <3>2, <3>3, <3>4, <3>5
    <2>2. QED
      BY <2>1
  <1>3. QED
    BY <1>1, <1>2 DEF Next, Worker

\* How the worker comes to settle an occurrence, and stays at it.
LEMMA Settles ==
    ASSUME Safe, [Next]_vars, pc' \in Settling
    PROVE  \/ \E a \in Activations : TakeRow(a)
           \/ pc \in Settling /\ UNCHANGED <<at, slot>>
  <1> USE DEF Settling
  <1>1. CASE UNCHANGED vars \/ Controls \/ \E o \in Oids : JobStep(o)
    BY <1>1 DEF vars, Controls, Pause, Inspect, Resume, RefuseResume, Answered, JobStep, serviceVars
  <1>2. CASE Boot \/ Start \/ Failures
    BY <1>2 DEF Boot, Start, Failures, Fault, RecoverFault, Recovering, AbandonRequest,
       FailStart, Crash, Stop, Thrown, Handler, Processing, Dispatching, RowWide, serviceVars
  <1>3. CASE Recover
    BY <1>3 DEF Recover, RecoverLinked, RecoverInterrupted, RecoverUnclaimed, RecoverBlock,
       RecoverCaught, RecoverDone, Recovering, Reply, Acked, Thrown, Handler, Processing,
       Dispatching, RowWide
  <1>4. CASE BeginPass \/ (\E a \in Activations : TakeRow(a)) \/ EndPass
    BY <1>4 DEF BeginPass, EndPass, Acked
  <1>5. CASE Release
    BY <1>5 DEF Release, FileOutput, MarkProcessed, RejectFrozen, PostResult, SkipPost,
       MarkAnnounced, Rethrow, RecordFailure, RefuseFailure, ReleaseSlot, serviceVars
  <1>6. CASE Dispatch
    BY <1>6 DEF Dispatch, ClaimDue, Look, Admit, SelectInput, RetainInput, ClaimRequest, RecordJob,
       StartWork, LinkSubmitted, LinkInterrupted, BlockInterrupted, InterruptUnclaimed,
       AlreadySkipped, Hold, Reply, Acked, Thrown, Handler, Processing, Dispatching, RowWide
  <1>7. QED
    BY <1>1, <1>2, <1>3, <1>4, <1>5, <1>6 DEF Next, Worker

\* The occurrence being settled keeps its slot: it is linked, so neither a human
\* nor a due slot takes it, and the pass had read it in its slot.
LEMMA SettlingSlot ==
    ASSUME Safe, Visiting, Holding, [Next]_vars, pc' \in Settling
    PROVE  active'[at'] = slot'
  <1> USE DEF Safe
  <1>0. OutboxTypeOK
    BY DEF TypeInv, TypeOK
  <1>1. ASSUME NEW a \in Activations, TakeRow(a) PROVE active'[at'] = slot'
    <2>1. /\ pc = "row" /\ a \in todo /\ at' = a /\ slot' = snap[a].active
          /\ snap[a].active # None /\ state[snap[a].active] = "linked"
          /\ active' = active
      BY <1>1 DEF TakeRow, Releasable, Settling, outboxVars, activationVars
    <2>2. QED
      BY <2>1 DEF Visiting
  <1>2. CASE pc \in Settling /\ UNCHANGED <<at, slot>>
    <2>1. active[at] = slot /\ state[slot] = "linked" /\ at \in Activations /\ slot \in Oids
      BY <1>2 DEF Holding, InHand, TypeInv, Located, Settling, RowPcs, SlotPcs
    <2>2. ASSUME NEW b \in Activations, Pause(b) PROVE active'[at] = active[at]
      BY <1>0, <2>1, <2>2 DEF Pause, PauseTx, OutboxTypeOK
    <2>3. pc # "claim"
      BY <1>2 DEF Settling
    <2>4. active'[at] = active[at]
      BY <2>1, <2>2, <2>3, SlotMoves
    <2>5. QED
      BY <1>2, <2>1, <2>4
  <1>3. QED
    BY <1>1, <1>2, Settles

\* What the worker relies on for the occurrence in hand is inductive.
LEMMA HoldingStep ==
    Safe /\ Evidence /\ Ordered /\ Visiting /\ Holding /\ [Next]_vars => Holding'
  <1> SUFFICES ASSUME Safe, Evidence, Ordered, Visiting, Holding, [Next]_vars PROVE Holding'
    OBVIOUS
  <1> USE DEF Safe
  <1>0. OutboxTypeOK /\ WorkTypeOK
    BY DEF TypeInv, TypeOK
  <1>1. pc' \in Settling => active'[at'] = slot'
    BY SettlingSlot
  <1>2. CASE pc' \notin Relying
    BY <1>1, <1>2 DEF Holding, Relying, Dispatching
  <1>3. CASE pc' \in Relying /\ UNCHANGED <<pc, at, slot>>
    BY <1>1, <1>3, StandsBy DEF Holding
  <1>4. CASE FileOutput /\ pc' = "mark"
    <2>1. pc = "file" /\ UNCHANGED <<at, slot>> /\ slot \in Oids
      BY <1>4 DEF FileOutput, serviceVars, TypeInv, Located, SlotPcs, RowPcs
    <2>2. filed'[slot]
      BY <1>0, <1>4, <2>1 DEF FileOutput, FileOutputTx, WorkTypeOK
    <2>3. QED
      BY <1>1, <1>4, <2>1, <2>2 DEF Holding
  <1>5. ASSUME NEW a \in Activations, TakeRow(a), pc' \in {"file", "mark"} PROVE Holding'
    <2>1. at' = a /\ Selects(a) /\ (pc' = "mark" => Kind[a] = "frozen")
      BY <1>5 DEF TakeRow, Process, Selects
    <2>2. QED
      BY <1>1, <1>5, <2>1 DEF Holding
  <1>6. CASE Look /\ pc' = "admit"
    <2>1. /\ active[at] # None /\ state[active[at]] = "pending" /\ slot' = active[at]
          /\ at \in Activations /\ UNCHANGED <<request, input, retained>>
      BY <1>6 DEF Look, Acked, TypeInv, Located, RowPcs, workVars, outboxVars, occurrenceVars
    <2>2. active[at] \in Oids
      BY <1>0, <2>1 DEF OutboxTypeOK
    <2>3. QED
      BY <1>1, <1>6, <2>1, <2>2 DEF Holding, Ordered, Untouched
  <1>7. CASE Admit /\ pc' \in {"select", "submit"}
    <2>1. pc = "admit" /\ UNCHANGED <<at, slot, input, retained>>
      BY <1>7 DEF Admit, AdmitTx, serviceVars
    <2>2. QED
      BY <1>1, <1>7, <2>1 DEF Holding
  <1>8. CASE SelectInput /\ pc' = "retain"
    <2>1. pc = "select" /\ UNCHANGED <<at, slot, retained>>
      BY <1>8 DEF SelectInput, SelectInputTx, serviceVars
    <2>2. QED
      BY <1>1, <1>8, <2>1 DEF Holding
  <1>9. CASE \/ RetainInput /\ pc' = "submit"
             \/ RecordJob /\ pc' = "start"
             \/ StartWork /\ pc' \in {"start", "reread"}
    BY <1>1, <1>9 DEF Holding
  <1>10. CASE ClaimRequest /\ pc' = "job"
    <2>1. pc = "submit" /\ slot' = slot /\ slot \in Oids /\ request[slot] = "none"
      BY <1>10 DEF ClaimRequest, serviceVars, TypeInv, Located, SlotPcs, RowPcs, BeforeClaim
    <2>2. request'[slot] = "admitting"
      BY <1>0, <1>10, <2>1 DEF ClaimRequest, ClaimRequestTx, WorkTypeOK
    <2>3. QED
      BY <1>1, <1>10, <2>1, <2>2 DEF Holding
  <1>11. QED
    BY <1>2, <1>3, <1>4, <1>5, <1>6, <1>7, <1>8, <1>9, <1>10, Arrivals

-----------------------------------------------------------------------------
\* The theorems.

\* In a fresh system nothing is held, inspected, marked or decided.
LEMMA InitSafe ==
    Init => /\ Safe
            /\ ActiveOwn /\ FailureAuditable /\ Inspected /\ Fenced
            /\ Evidence /\ ProcessedIsReal /\ FreshInputOnly
            /\ Ticking /\ SlotsAccounted
  <1> SUFFICES ASSUME Init
               PROVE  /\ Safe
                      /\ ActiveOwn /\ FailureAuditable /\ Inspected /\ Fenced
                      /\ Evidence /\ ProcessedIsReal /\ FreshInputOnly
                      /\ Ticking /\ SlotsAccounted
    OBVIOUS
  <1> USE DEF Init, WorkInit, OutboxInit
  <1>1. Safe
    BY InitTyped, InitKept, InitKeepsContract DEF Safe
  <1>2. ActiveOwn /\ FailureAuditable /\ Inspected /\ Fenced
    BY DEF ActiveOwn, FailureAuditable, Inspected, Fenced
  <1>3. Evidence /\ ProcessedIsReal /\ FreshInputOnly
    BY DEF Evidence, ProcessedIsReal, FreshInputOnly, Dispatching
  <1>4. Ticking /\ SlotsAccounted
    <2>1. 0 % Interval = 0
      BY OutboxAssumption
    <2>2. Ticking
      BY <2>1, OutboxAssumption DEF Ticking
    <2>3. \A s \in Slots : ~(s < 0)
      BY IdsAssumption DEF Slots
    <2>4. \A b \in Activations, s \in Slots : state[<<b, s>>] = "absent" /\ nextFire[b] = 0
      BY DEF Oids
    <2>5. QED
      BY <2>2, <2>3, <2>4 DEF SlotsAccounted
  <1>5. QED
    BY <1>1, <1>2, <1>3, <1>4

\* What the stores and the worker are known to be is inductive.
LEMMA SafeStep == Safe /\ [Next]_vars => Safe'
  BY TypeStep, OneRunStep, UntouchedStep, BeforeClaimStep, KeptStep, InHandStep, EndedStep DEF Safe

\* The failure a schedule is held for can always be audited: after any lost
\* answer, crash or control its occurrence is linked, submitted, announced and
\* marked, so resume-blocked-reason never locks a human out.
THEOREM FailuresOnRecord == Spec => []FailureAuditable
  BY InitSafe, SafeStep, FailureStep, PTL DEF Spec

\* The evidence cursor always names evidence of work that completed, returned
\* and, for live evidence, was filed, whatever calls failed in between.
THEOREM ProcessedTruthfully == Spec => []ProcessedIsReal
  <1>1. Safe /\ ActiveOwn /\ [Next]_vars => ActiveOwn'
    BY ActiveOwnStep, StepOutbox
  <1>2. QED
    BY InitSafe, SafeStep, <1>1, EvidenceStep, ProcessedStep, PTL DEF Spec

\* No allowance is spent on evidence already processed or not retained.
THEOREM AllowanceOnFreshInput == Spec => []FreshInputOnly
  <1>1. Safe /\ ActiveOwn /\ [Next]_vars => ActiveOwn'
    BY ActiveOwnStep, StepOutbox
  <1>2. QED
    BY InitSafe, SafeStep, <1>1, EvidenceStep, FreshStep, PTL DEF Spec

\* Every slot before a schedule's cursor has an occurrence or is counted as
\* folded into exactly the one that stands for it.
THEOREM EverySlotAccounted == Spec => []SlotsAccounted
  <1>1. Safe /\ ActiveOwn /\ [Next]_vars => ActiveOwn'
    BY ActiveOwnStep, StepOutbox
  <1>2. Safe /\ ActiveOwn /\ Ticking /\ [Next]_vars => Ticking'
    BY TickingStep, StepOutbox
  <1>3. Safe /\ ActiveOwn /\ Ticking /\ SlotsAccounted /\ [Next]_vars => SlotsAccounted'
    BY SlotsStep, StepOutbox
  <1>4. QED
    BY InitSafe, SafeStep, <1>1, <1>2, <1>3, PTL DEF Spec

\* Only a human whose inspection no failure overtook switches a schedule on,
\* however many humans answer and fail in between.
THEOREM ResumeIsFenced == Spec => ResumeFencesFailure
  <1>1. Safe /\ Fenced /\ [Next]_vars =>
          [\A a \in Activations :
              (~enabled[a] /\ enabled'[a]) =>
                  \E h \in Humans :
                      /\ inspected[h] # None /\ inspected'[h] = None
                      /\ inspected[h].activation = a
                      /\ h \notin overtaken]_vars
    BY ResumeFences
  <1>2. QED
    BY InitSafe, SafeStep, FailureStep, InspectedStep, FencedStep, <1>1, PTL DEF Spec, ResumeFencesFailure

\* Whatever answers are lost and whoever writes after them, what was recorded
\* of an occurrence and its work stays recorded.
THEOREM ReceiptsAreFinal == Spec => ReceiptsFinal
  <1>1. Safe /\ [Next]_vars =>
          [\A o \in Oids :
              /\ state[o] \in {"linked", "skipped"} => state'[o] = state[o]
              /\ announced[o] => announced'[o]
              /\ failure[o] # "none" => failure'[o] # "none"
              /\ input[o] # None => input'[o] = input[o]
              /\ job[o] \in Terminal => job'[o] = job[o]
              /\ Settled(o) => Settled(o)']_vars
    BY StepOutbox, ReceiptsStay, JournalStays DEF Receipts
  <1>2. QED
    BY InitSafe, SafeStep, <1>1, PTL DEF Spec, ReceiptsFinal

\* The conflicts the writer and the dispatcher check for are never met in a
\* pass: claimed-occurrence!, select-input-tx, retain-owned-input-tx, a second
\* attempt and a cursor without settled work refuse nothing the dispatcher asks,
\* whatever answers are lost and whoever pauses, resumes or restarts meanwhile.
THEOREM NeverConflicts == Spec => []ConflictFree
  <1>1. Safe /\ ActiveOwn /\ [Next]_vars => ActiveOwn'
    BY ActiveOwnStep, StepOutbox
  <1>2. Init => Ordered /\ Visiting /\ Holding
    BY DEF Init, WorkInit, OutboxInit, Ordered, Visiting, Holding, Settling, RowPcs
  <1>3. Safe /\ ActiveOwn /\ Evidence /\ Ordered /\ Holding => ConflictFree
    BY NoConflict
  <1>4. QED
    BY InitSafe, SafeStep, EvidenceStep, OrderedStep, VisitingStep, HoldingStep,
       <1>1, <1>2, <1>3, PTL DEF Spec
=============================================================================
