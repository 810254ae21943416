----------------------- MODULE ScheduleReleaseProofs ------------------------
(***************************************************************************)
(* Submitted work keeps its slot: what release-owned-settled!,             *)
(* owned-dispatch! and recover-owned-in! rely on when they move the active *)
(* pointer, for every instance of the dispatcher.                          *)
(***************************************************************************)
EXTENDS ScheduleDispatcherProofs

Settling == {"file", "mark", "reject", "post", "announce", "settle"}
Reconciling == {"recover", "recover-block", "recover-caught"}

\* The stores: no work is lost, an announcement is in the room, and a linked
\* occurrence has its request submitted.
Kept ==
    /\ NoLostWork
    /\ \A o \in Oids : announced[o] => posted[o]
    /\ \A o \in Oids : state[o] = "linked" => request[o] = "submitted"

\* The worker: what holds of the occurrence in hand at each position.  The
\* code checks it on entry and relies on it after every later call.
InHand ==
    /\ pc \in Settling => state[slot] = "linked" /\ Settled(slot)
    /\ pc = "announce" => posted[slot]
    /\ pc = "settle" => announced[slot]
    /\ pc \in Dispatching => state[slot] = "admitting"
    /\ pc = "caught" => state[slot] \in {"admitting", "skipped", "linked"}
    /\ pc \in Reconciling => \A o \in uncertain : state[o] = "admitting"
    /\ pc \in {"recover-block", "recover-caught"} => slot \notin uncertain

\* A wallet is out only for a request that exists.
Returning == \A o \in Oids : request[o] = "none" => returned[o] = "unset"

-----------------------------------------------------------------------------
\* The stores.

\* States in which an occurrence still needs its slot.
Hot == {"pending", "admitting", "interrupted"}

\* Every step of the request journal or of a Job, for one occurrence.
JournalStep(o) ==
    \/ ClaimRequestTx(o) \/ RecordJobTx(o) \/ InterruptRequestTx(o)
    \/ StartEvaluation(o) \/ FailConstruction(o) \/ FileOutputTx(o)
    \/ FinishJob(o) \/ ReturnJob(o) \/ BootRecovery \/ UNCHANGED workVars

\* Whatever the journal and the Jobs do, a submitted request stays submitted,
\* a returned one returned, and only a request that exists has a wallet out.
LEMMA JournalStable ==
    ASSUME WorkTypeOK, NEW o, JournalStep(o)
    PROVE  /\ \A p \in Oids : request[p] = "submitted" => request'[p] = "submitted"
           /\ \A p \in Oids : Settled(p) => Settled(p)'
           /\ Returning => Returning'
  <1>1. \A p \in Oids : request[p] = "submitted" => request'[p] = "submitted"
    BY DEF JournalStep, WorkTypeOK, ClaimRequestTx, RecordJobTx, InterruptRequestTx,
           StartEvaluation, FailConstruction, FileOutputTx, FinishJob, ReturnJob,
           BootRecovery, workVars
  <1>2. \A p \in Oids : (request[p] = "submitted" /\ returned[p] = "done") => returned'[p] = "done"
    BY DEF JournalStep, WorkTypeOK, ClaimRequestTx, RecordJobTx, InterruptRequestTx,
           StartEvaluation, FailConstruction, FileOutputTx, FinishJob, ReturnJob,
           BootRecovery, workVars
  <1>3. Returning => Returning'
    BY DEF JournalStep, WorkTypeOK, ClaimRequestTx, RecordJobTx, InterruptRequestTx,
           StartEvaluation, FailConstruction, FileOutputTx, FinishJob, ReturnJob,
           BootRecovery, workVars, Returning
  <1> QED
    BY <1>1, <1>2, <1>3 DEF Settled

\* Steps that leave the outbox's states, slots and announcements alone.
LEMMA JournalKept ==
    ASSUME WorkTypeOK, Kept, UNCHANGED <<state, active, announced, posted>>,
           NEW o, JournalStep(o)
    PROVE  Kept'
  BY JournalStable DEF Kept, NoLostWork

\* Steps of the outbox that move one occurrence and leave the pointers alone.
LEMMA RowKept ==
    ASSUME OutboxTypeOK, Kept, UNCHANGED <<workVars, active, announced, posted>>,
           NEW o \in Oids, NEW s,
           state' = state \/ state' = [state EXCEPT ![o] = s],
           s \in Hot => active[o[1]] = o,
           s = "linked" => /\ request[o] = "submitted"
                           /\ active[o[1]] = o \/ state[o] = "linked"
    PROVE  Kept'
  <1>1. \A p \in Oids : Settled(p)' <=> Settled(p)
    BY DEF Settled, workVars
  <1> QED
    BY <1>1 DEF Kept, NoLostWork, Hot, OutboxTypeOK, workVars

\* Steps that let go of the occurrence in a slot: only one withdrawn in the
\* same step, or one that is linked, returned and announced.
LEMMA ClearKept ==
    ASSUME OutboxTypeOK, Kept, UNCHANGED <<workVars, announced, posted>>,
           NEW a \in Activations, NEW o \in Oids, active[a] = o,
           active' = [active EXCEPT ![a] = None],
           \/ state' = [state EXCEPT ![o] = "skipped"]
           \/ state' = state /\ state[o] = "linked" /\ Settled(o) /\ announced[o]
    PROVE  Kept'
  <1>1. \A p \in Oids : Settled(p)' <=> Settled(p)
    BY DEF Settled, workVars
  <1>2. \A p \in Oids : p # o => state'[p] = state[p]
    BY DEF OutboxTypeOK
  <1>3. \A p \in Oids : (p # o /\ active[p[1]] = p) => active'[p[1]] = p
    BY DEF OutboxTypeOK
  <1>4. \A p \in Oids : (p # o /\ active[p[1]] # p) => active'[p[1]] # p
    BY DispatcherAssumption, IdsAssumption DEF OutboxTypeOK
  <1>5. state'[o] = "skipped" \/ (state'[o] = "linked" /\ Settled(o) /\ announced[o])
    BY DEF OutboxTypeOK
  <1>6. request' = request
    BY DEF workVars
  <1>7. ASSUME NEW p \in Oids
        PROVE  /\ state'[p] \in Hot => active'[p[1]] = p
               /\ (state'[p] = "linked" /\ active'[p[1]] # p) =>
                      Settled(p) /\ posted[p] /\ announced[p]
    <2>1. CASE p = o
      BY <1>5, <2>1 DEF Kept, Hot
    <2>2. CASE p # o
      BY <1>2, <1>3, <1>4, <2>2 DEF Kept, NoLostWork, Hot
    <2> QED
      BY <2>1, <2>2
  <1>8. NoLostWork'
    BY <1>1, <1>7 DEF NoLostWork, Hot
  <1> QED
    BY <1>2, <1>5, <1>6, <1>8 DEF Kept, Settled

\* due-tx claims a slot that has no occurrence yet.
LEMMA DueFresh ==
    ASSUME OutboxTypeOK, Untouched, NEW a \in Activations, now \in Slots, IsDue(a, now)
    PROVE  /\ DueOid(a, now) \in Oids /\ DueOid(a, now)[1] = a
           /\ state[DueOid(a, now)] = "absent"
  <1>1. /\ DueOid(a, now) \in Oids /\ DueOid(a, now)[1] = a
        /\ nextFire[a] <= DueOid(a, now)[2]
    BY DueSlotTyped
  <1>2. nextFire[a] \in Nat /\ DueOid(a, now)[2] \in Nat
    BY <1>1, IdsAssumption DEF OutboxTypeOK, Oids, Slots
  <1> QED
    BY <1>1, <1>2 DEF Untouched

\* due-tx: only a queued occurrence gives way, and it is withdrawn with it.
LEMMA DueKept ==
    ASSUME OutboxTypeOK, Untouched, Kept, UNCHANGED <<workVars, posted>>,
           NEW a \in Activations, now \in Slots, DueTx(a, now)
    PROVE  Kept'
  <1> DEFINE d == DueOid(a, now)
  <1>1. CASE ~IsDue(a, now)
    <2>1. UNCHANGED <<workVars, state, active, announced, posted>>
      BY <1>1 DEF DueTx, outboxVars, activationVars, occurrenceVars
    <2> QED
      BY <2>1 DEF Kept, NoLostWork, Settled, workVars
  <1>2. CASE IsDue(a, now)
    <2>1. d \in Oids /\ d[1] = a /\ state[d] = "absent"
      BY <1>2, DueFresh
    <2>2. announced' = announced /\ posted' = posted /\ request' = request
      BY <1>2 DEF DueTx, QueueDue, SupersedeDue, OverlapDue, AdvanceCursor, workVars
    <2>3. \A p \in Oids : Settled(p)' <=> Settled(p)
      BY DEF Settled, workVars
    <2> HIDE DEF d
    <2>4. CASE OverlapDue(a, now)
      <3>1. state' = [state EXCEPT ![d] = "skipped"] /\ UNCHANGED active
        BY <2>4 DEF OverlapDue, d
      <3> QED
        BY <2>1, <2>2, <3>1, RowKept DEF Hot
    <2>5. CASE QueueDue(a, now)
      <3>1. /\ active[a] = None /\ active' = [active EXCEPT ![a] = d]
            /\ state' = [state EXCEPT ![d] = "pending"]
        BY <2>5 DEF QueueDue, d
      <3>2. \A p \in Oids : p # d => state'[p] = state[p]
        BY <2>1, <3>1 DEF OutboxTypeOK
      <3>3. state'[d] = "pending" /\ active'[a] = d
        BY <2>1, <3>1 DEF OutboxTypeOK
      <3>4. \A p \in Oids : active[p[1]] = p => active'[p[1]] = p
        BY <3>1, IdsAssumption DEF OutboxTypeOK
      <3>5. \A p \in Oids : (p # d /\ active[p[1]] # p) => active'[p[1]] # p
        BY <3>1 DEF OutboxTypeOK
      <3> QED
        BY <2>1, <2>2, <2>3, <3>2, <3>3, <3>4, <3>5 DEF Kept, NoLostWork
    <2>6. CASE SupersedeDue(a, now)
      <3> DEFINE q == active[a]
      <3>1. /\ q \in Oids /\ state[q] = "pending" /\ active' = [active EXCEPT ![a] = d]
            /\ state' = [state EXCEPT ![q] = "skipped", ![d] = "pending"]
        BY <2>6 DEF SupersedeDue, OutboxTypeOK, d
      <3> HIDE DEF q
      <3>2. \A p \in Oids : p \notin {d, q} => state'[p] = state[p]
        BY <2>1, <3>1 DEF OutboxTypeOK
      <3>3. state'[d] = "pending" /\ active'[a] = d /\ state'[q] = "skipped"
        BY <2>1, <3>1 DEF OutboxTypeOK
      <3>4. \A p \in Oids : (p # q /\ active[p[1]] = p) => active'[p[1]] = p
        BY <3>1 DEF OutboxTypeOK, q
      <3>5. ASSUME NEW p \in Oids
            PROVE  /\ state'[p] \in Hot => active'[p[1]] = p
                   /\ (state'[p] = "linked" /\ active'[p[1]] # p) =>
                          Settled(p) /\ posted[p] /\ announced[p]
                   /\ state'[p] = "linked" => request[p] = "submitted"
        <4>1. CASE p = d
          BY <2>1, <3>3, <4>1 DEF Hot
        <4>2. CASE p # d /\ p = q
          BY <3>3, <4>2 DEF Hot
        <4>3. CASE p # d /\ p # q
          BY <3>2, <3>4, <4>3 DEF Kept, NoLostWork, Hot
        <4> QED
          BY <4>1, <4>2, <4>3
      <3>6. NoLostWork'
        BY <2>2, <2>3, <3>5 DEF NoLostWork, Hot
      <3> QED
        BY <2>2, <3>5, <3>6 DEF Kept
    <2> QED
      BY <1>2, <2>4, <2>5, <2>6 DEF DueTx
  <1> QED
    BY <1>1, <1>2

\* enabled-tx withdraws the queued occurrence together with its slot.
LEMMA PauseKept ==
    ASSUME OutboxTypeOK, Kept, UNCHANGED <<workVars, posted>>,
           NEW a \in Activations, PauseTx(a)
    PROVE  Kept'
  <1>1. CASE active[a] # None /\ state[active[a]] = "pending"
    <2> DEFINE q == active[a]
    <2>1. /\ q \in Oids /\ active' = [active EXCEPT ![a] = None]
          /\ state' = [state EXCEPT ![q] = "skipped"]
          /\ UNCHANGED <<workVars, announced, posted>>
      BY <1>1 DEF PauseTx, OutboxTypeOK
    <2>2. active[a] = q
      OBVIOUS
    <2> HIDE DEF q
    <2> QED
      BY <2>1, <2>2, ClearKept
  <1>2. CASE ~(active[a] # None /\ state[active[a]] = "pending")
    <2>1. UNCHANGED <<workVars, state, active, announced, posted>>
      BY <1>2 DEF PauseTx
    <2> QED
      BY <2>1 DEF Kept, NoLostWork, Settled, workVars
  <1> QED
    BY <1>1, <1>2

\* interrupt-owned-tx keeps the slot of what it interrupts.
LEMMA InterruptKept ==
    ASSUME OutboxTypeOK, Kept, UNCHANGED <<workVars, posted>>,
           NEW a, NEW o \in Oids, NEW r, InterruptOwnedTx(a, o, r)
    PROVE  Kept'
  <1>1. active[o[1]] = o \/ state[o] # "admitting"
    BY DEF Kept, NoLostWork
  <1>2. CASE Owns(a, o) /\ ~pointer[o] /\ request[o] = "none"
    BY <1>1, <1>2, RowKept DEF InterruptOwnedTx, Owns, Hot
  <1>3. CASE ~(Owns(a, o) /\ ~pointer[o] /\ request[o] = "none")
    <2>1. UNCHANGED <<workVars, state, active, announced, posted>>
      BY <1>3 DEF InterruptOwnedTx, occurrenceVars
    <2> QED
      BY <2>1 DEF Kept, NoLostWork, Settled, workVars
  <1> QED
    BY <1>2, <1>3

\* finish-admission! links or interrupts what was being admitted.
LEMMA FinishKept ==
    ASSUME OutboxTypeOK, Kept, UNCHANGED <<workVars, posted>>,
           NEW o \in Oids, state[o] \in {"admitting", "linked"},
           NEW outcome \in {"linked", "interrupted"}, FinishAdmissionTx(o, outcome),
           IF outcome = "linked" THEN request[o] = "submitted" ELSE request[o] # "submitted"
    PROVE  Kept'
  <1>1. state[o] = "linked" => outcome = "linked"
    BY DEF Kept
  <1>2. state[o] = "admitting" => active[o[1]] = o
    BY DEF Kept, NoLostWork
  <1>3. UNCHANGED <<active, announced>> /\ state' = [state EXCEPT ![o] = outcome]
    BY DEF FinishAdmissionTx, activationVars
  <1> QED
    BY <1>1, <1>2, <1>3, RowKept DEF Hot

-----------------------------------------------------------------------------
\* The steps of the dispatcher.

\* Every step of the dispatcher is one of the journal, or leaves it alone.
LEMMA StepJournal == ASSUME [Next]_vars PROVE \E o : JournalStep(o)
  <1>1. CASE UNCHANGED vars \/ Controls \/ Start
    BY <1>1 DEF vars, Controls, Pause, Inspect, Resume, RefuseResume, Answered, Start,
                JournalStep
  <1>2. CASE Worker
    <2>1. CASE Recover \/ BeginPass \/ (\E a \in Activations : TakeRow(a)) \/ EndPass
      BY <2>1 DEF Recover, RecoverLinked, RecoverInterrupted, RecoverUnclaimed, RecoverBlock,
                  RecoverCaught, RecoverDone, BeginPass, TakeRow, EndPass, JournalStep
    <2>2. CASE Release
      BY <2>2 DEF Release, FileOutput, MarkProcessed, RejectFrozen, PostResult, SkipPost,
                  MarkAnnounced, Rethrow, RecordFailure, RefuseFailure, ReleaseSlot,
                  JournalStep
    <2>3. CASE Dispatch
      BY <2>3 DEF Dispatch, ClaimDue, Look, Admit, SelectInput, RetainInput, ClaimRequest,
                  RecordJob, StartWork, LinkSubmitted, LinkInterrupted, BlockInterrupted,
                  InterruptUnclaimed, AlreadySkipped, Hold, JournalStep
    <2> QED
      BY <1>2, <2>1, <2>2, <2>3 DEF Worker
  <1>3. CASE Failures
    BY <1>3 DEF Failures, Fault, RecoverFault, AbandonRequest, FailStart, Crash, Stop,
                JournalStep
  <1>4. CASE Boot \/ \E o \in Oids : JobStep(o)
    BY <1>4 DEF Boot, JobStep, JournalStep
  <1> QED
    BY <1>1, <1>2, <1>3, <1>4 DEF Next

\* A step that moves nothing the properties look at but the journal.
LEMMA QuietKept ==
    ASSUME WorkTypeOK, Kept, [Next]_vars, UNCHANGED <<state, active, announced, posted>>
    PROVE  Kept'
  BY StepJournal, JournalKept

\* release-owned-settled! lets go only of what is returned and announced.
LEMMA ReleaseKept ==
    ASSUME TypeInv, Kept, InHand, Release PROVE Kept'
  <1> USE DEF Settling
  <1>0. WorkTypeOK /\ OutboxTypeOK /\ posted \in [Oids -> BOOLEAN]
    BY DEF TypeInv, TypeOK
  <1>1. [Next]_vars
    BY DEF Next, Worker
  <1>2. CASE FileOutput \/ MarkProcessed \/ RejectFrozen \/ SkipPost \/ Rethrow \/ RefuseFailure
    BY <1>0, <1>1, <1>2, QuietKept
    DEF FileOutput, MarkProcessed, RejectFrozen, SkipPost, Rethrow, RefuseFailure,
        ProcessedInputTx, BlockTx, outboxVars, activationVars, occurrenceVars
  <1>3. CASE PostResult
    BY <1>0, <1>3 DEF PostResult, Kept, NoLostWork, Settled, workVars, outboxVars,
                      activationVars, occurrenceVars
  <1>4. CASE MarkAnnounced
    <2>1. slot \in Oids /\ posted[slot]
      BY <1>4 DEF MarkAnnounced, InHand, TypeInv, Located, SlotPcs, RowPcs
    <2>2. /\ UNCHANGED <<workVars, state, active, posted>>
          /\ announced' = [announced EXCEPT ![slot] = TRUE]
      BY <1>4 DEF MarkAnnounced, MarkAnnouncedTx, activationVars
    <2> QED
      BY <1>0, <2>1, <2>2 DEF Kept, NoLostWork, Settled, workVars, OutboxTypeOK
  <1>5. CASE RecordFailure \/ ReleaseSlot
    <2>1. /\ slot \in Oids /\ at \in Activations
          /\ state[slot] = "linked" /\ Settled(slot) /\ announced[slot]
      BY <1>5 DEF RecordFailure, ReleaseSlot, InHand, TypeInv, Located, SlotPcs, RowPcs
    <2>2. UNCHANGED <<workVars, state, announced, posted>>
      BY <1>5 DEF RecordFailure, ReleaseSlot, FailTerminalTx, ClearActiveTx, occurrenceVars
    <2>3. CASE active' = active
      BY <1>0, <1>1, <2>2, <2>3, QuietKept
    <2>4. CASE active[at] = slot /\ active' = [active EXCEPT ![at] = None]
      BY <1>0, <2>1, <2>2, <2>4, ClearKept
    <2> QED
      BY <1>5, <2>3, <2>4 DEF RecordFailure, ReleaseSlot, FailTerminalTx, FailureCurrent,
                              ClearActiveTx
  <1> QED
    BY <1>2, <1>3, <1>4, <1>5 DEF Release

\* owned-dispatch! admits, withdraws, links or interrupts what holds a slot.
LEMMA DispatchKept ==
    ASSUME TypeInv, Untouched, Kept, InHand, Dispatch PROVE Kept'
  <1> USE DEF RowPcs, SlotPcs, Dispatching
  <1>0. WorkTypeOK /\ OutboxTypeOK /\ now \in Slots
    BY DEF TypeInv, TypeOK
  <1>1. [Next]_vars
    BY DEF Next, Worker
  <1>2. CASE ClaimDue
    BY <1>0, <1>2, DueKept DEF ClaimDue, TypeInv, Located
  <1>3. CASE Look \/ RetainInput \/ ClaimRequest \/ RecordJob \/ StartWork
             \/ BlockInterrupted \/ AlreadySkipped \/ Hold
    BY <1>0, <1>1, <1>3, QuietKept
    DEF Look, RetainInput, ClaimRequest, RecordJob, StartWork, BlockInterrupted,
        AlreadySkipped, Hold, RetainInputTx, BlockOwnedTx, BlockTx, outboxVars,
        activationVars, occurrenceVars
  <1>4. CASE Admit
    <2>1. slot \in Oids
      BY <1>4 DEF Admit, TypeInv, Located
    <2>2. UNCHANGED <<workVars, active, announced, posted>>
      BY <1>4 DEF Admit, AdmitTx, activationVars
    <2>3. CASE Admissible(at, slot)
      <3>1. state' = [state EXCEPT ![slot] = "admitting"] /\ active[slot[1]] = slot
        BY <1>4, <2>1, <2>3 DEF Admit, AdmitTx, Admissible, Kept, NoLostWork
      <3> QED
        BY <1>0, <2>1, <2>2, <3>1, RowKept
    <2>4. CASE ~Admissible(at, slot)
      BY <1>0, <1>1, <1>4, <2>2, <2>4, QuietKept DEF Admit, AdmitTx
    <2> QED
      BY <2>3, <2>4
  <1>5. CASE SelectInput
    <2>1. PICK i \in Inputs : SelectInputTx(at, slot, i)
      BY <1>5 DEF SelectInput
    <2>2. slot \in Oids /\ at \in Activations /\ active[at] = slot
      BY <1>5, <2>1 DEF SelectInput, SelectInputTx, Owns, TypeInv, Located
    <2>3. UNCHANGED <<workVars, announced, posted>>
      BY <1>5, <2>1 DEF SelectInput, SelectInputTx
    <2>4. CASE SelectReason(at, i) # None
      <3>1. /\ active' = [active EXCEPT ![at] = None]
            /\ state' = [state EXCEPT ![slot] = "skipped"]
        BY <2>1, <2>4 DEF SelectInputTx
      <3> QED
        BY <1>0, <2>2, <2>3, <3>1, ClearKept
    <2>5. CASE SelectReason(at, i) = None
      BY <1>0, <1>1, <2>1, <2>3, <2>5, QuietKept DEF SelectInputTx
    <2> QED
      BY <2>4, <2>5
  <1>6. CASE LinkSubmitted
    <2>1. slot \in Oids /\ state[slot] \in {"admitting", "linked"}
      BY <1>6 DEF LinkSubmitted, InHand, TypeInv, Located
    <2> QED
      BY <1>0, <1>6, <2>1, FinishKept DEF LinkSubmitted
  <1>7. CASE LinkInterrupted
    <2>1. slot \in Oids /\ state[slot] \in {"admitting", "linked"}
      BY <1>7 DEF LinkInterrupted, InHand, TypeInv, Located
    <2> QED
      BY <1>0, <1>7, <2>1, FinishKept DEF LinkInterrupted
  <1>8. CASE InterruptUnclaimed
    BY <1>0, <1>8, InterruptKept DEF InterruptUnclaimed, TypeInv, Located
  <1> QED
    BY <1>2, <1>3, <1>4, <1>5, <1>6, <1>7, <1>8 DEF Dispatch

\* recover-owned-in! finishes only what it found being admitted.
LEMMA RecoverKept ==
    ASSUME TypeInv, Kept, InHand, Recover PROVE Kept'
  <1>0. WorkTypeOK /\ OutboxTypeOK
    BY DEF TypeInv, TypeOK
  <1>1. [Next]_vars
    BY DEF Next, Worker
  <1>2. ASSUME NEW o \in Oids, RecoverLinked(o) \/ RecoverInterrupted(o) PROVE Kept'
    <2>1. state[o] = "admitting" /\ UNCHANGED <<workVars, posted>>
      BY <1>2 DEF RecoverLinked, RecoverInterrupted, Recovering, InHand, Reconciling
    <2> QED
      BY <1>0, <1>2, <2>1, FinishKept DEF RecoverLinked, RecoverInterrupted
  <1>3. ASSUME NEW o \in Oids, RecoverUnclaimed(o) PROVE Kept'
    BY <1>0, <1>3, InterruptKept DEF RecoverUnclaimed, Recovering
  <1>4. CASE RecoverCaught
    BY <1>0, <1>4, InterruptKept DEF RecoverCaught, TypeInv, Located, SlotPcs
  <1>5. CASE RecoverBlock \/ RecoverDone
    BY <1>0, <1>1, <1>5, QuietKept
    DEF RecoverBlock, RecoverDone, BlockTx, outboxVars, activationVars, occurrenceVars
  <1> QED
    BY <1>2, <1>3, <1>4, <1>5 DEF Recover

\* The stores keep their work across every step.
LEMMA KeptStep == TypeInv /\ Untouched /\ Kept /\ InHand /\ [Next]_vars => Kept'
  <1> SUFFICES ASSUME TypeInv, Untouched, Kept, InHand, [Next]_vars PROVE Kept'
    OBVIOUS
  <1>0. WorkTypeOK /\ OutboxTypeOK
    BY DEF TypeInv, TypeOK
  <1>1. ASSUME NEW a \in Activations, Pause(a) PROVE Kept'
    BY <1>0, <1>1, PauseKept DEF Pause
  <1>2. CASE \/ UNCHANGED vars \/ Failures \/ Boot \/ Start
             \/ BeginPass \/ (\E a \in Activations : TakeRow(a)) \/ EndPass
             \/ \E o \in Oids : JobStep(o)
             \/ \E h \in Humans : Resume(h) \/ RefuseResume(h)
             \/ \E h \in Humans, a \in Activations : Inspect(h, a)
    <2>1. UNCHANGED <<state, active, announced, posted>>
      BY <1>2 DEF vars, Failures, Fault, RecoverFault, AbandonRequest, FailStart, Crash, Stop,
                  Boot, Start, BeginPass, TakeRow, EndPass, JobStep, Resume, RefuseResume,
                  Answered, Inspect, ResumeTx, Recovering, outboxVars, activationVars,
                  occurrenceVars
    <2> QED
      BY <1>0, <2>1, QuietKept
  <1> QED
    BY <1>1, <1>2, RecoverKept, ReleaseKept, DispatchKept DEF Next, Worker, Controls

-----------------------------------------------------------------------------
\* The occurrence in hand.

\* Humans, Jobs and steps that leave the worker where it is disturb nothing
\* it has checked: only queued occurrences change under it.
LEMMA OthersInHand ==
    ASSUME TypeInv, InHand, [Next]_vars,
           UNCHANGED <<pc, slot, uncertain, posted, announced>>,
           \A o \in Oids : state[o] # "pending" => state'[o] = state[o]
    PROVE  InHand'
  <1>1. \A o \in Oids : Settled(o) => Settled(o)'
    BY StepJournal, JournalStable DEF TypeInv, TypeOK
  <1>2. pc \in Settling \cup Dispatching \cup {"caught"} => slot \in Oids
    BY DEF TypeInv, Located, SlotPcs, RowPcs, Settling, Dispatching
  <1>3. uncertain \subseteq Oids
    BY DEF TypeInv, TypeOK
  <1> QED
    BY <1>1, <1>2, <1>3 DEF InHand, Settling

\* release-owned-settled!: each call needs what the calls before it left.
LEMMA ReleaseInHand ==
    ASSUME TypeInv, InHand, Release PROVE InHand'
  <1> USE DEF Settling, Dispatching, Reconciling
  <1>0. slot \in Oids /\ posted \in [Oids -> BOOLEAN] /\ announced \in [Oids -> BOOLEAN]
    BY DEF Release, FileOutput, MarkProcessed, RejectFrozen, PostResult, SkipPost,
           MarkAnnounced, Rethrow, RecordFailure, RefuseFailure, ReleaseSlot,
           TypeInv, TypeOK, OutboxTypeOK, Located, SlotPcs, RowPcs
  <1>1. [Next]_vars
    BY DEF Next, Worker
  <1>2. \A o \in Oids : Settled(o) => Settled(o)'
    BY <1>1, StepJournal, JournalStable DEF TypeInv, TypeOK
  <1>3. UNCHANGED <<state, slot>> /\ pc \in Settling
    BY DEF Release, FileOutput, MarkProcessed, RejectFrozen, PostResult, SkipPost,
           MarkAnnounced, Rethrow, RecordFailure, RefuseFailure, ReleaseSlot,
           ProcessedInputTx, BlockTx, MarkAnnouncedTx, FailTerminalTx, ClearActiveTx,
           serviceVars, outboxVars, activationVars, occurrenceVars
  <1>4. /\ pc' \in Settling \cup {"claim", "hold"}
        /\ pc' = "announce" => posted'[slot]
        /\ pc' = "settle" => announced'[slot]
    <2>1. CASE FileOutput \/ MarkProcessed \/ RejectFrozen \/ RecordFailure \/ ReleaseSlot
      BY <2>1 DEF FileOutput, MarkProcessed, RejectFrozen, RecordFailure, ReleaseSlot,
                  Reply, Acked, Thrown, Handler, Processing, RowWide
    <2>2. CASE PostResult
      BY <1>0, <2>2 DEF PostResult, Reply, Acked, Thrown, Handler, Processing, RowWide
    <2>3. CASE SkipPost \/ Rethrow \/ RefuseFailure
      BY <2>3 DEF SkipPost, Rethrow, RefuseFailure, Acked, outboxVars, occurrenceVars
    <2>4. CASE MarkAnnounced
      BY <1>0, <2>4 DEF MarkAnnounced, MarkAnnouncedTx, Reply, Acked, Thrown, Handler,
                        Processing, RowWide
    <2> QED
      BY <2>1, <2>2, <2>3, <2>4 DEF Release
  <1> QED
    BY <1>0, <1>2, <1>3, <1>4 DEF InHand

\* owned-dispatch!: the admission holds until it is linked or withdrawn.
LEMMA DispatchInHand ==
    ASSUME TypeInv, InHand, Dispatch PROVE InHand'
  <1> USE DEF Settling, Dispatching, Reconciling
  <1>0. OutboxTypeOK
    BY DEF TypeInv, TypeOK
  <1> DEFINE Elsewhere == pc' \in {"look", "admit", "row", "block", "hold", "stopped"}
  <1>1. CASE Look \/ BlockInterrupted \/ InterruptUnclaimed \/ AlreadySkipped \/ Hold
             \/ LinkInterrupted \/ ClaimDue
    <2>1. Elsewhere
      BY <1>1 DEF Look, BlockInterrupted, InterruptUnclaimed, AlreadySkipped, Hold,
                  LinkInterrupted, ClaimDue, Reply, Acked, Thrown, Handler, Processing,
                  RowWide
    <2> QED
      BY <2>1 DEF InHand
  <1>2. CASE RetainInput \/ ClaimRequest \/ RecordJob \/ StartWork
    <2>1. UNCHANGED <<state, slot>> /\ pc \in Dispatching
      BY <1>2 DEF RetainInput, RetainInputTx, ClaimRequest, RecordJob, StartWork, serviceVars,
                  outboxVars, occurrenceVars
    <2>2. pc' \in Dispatching \cup {"caught"}
      BY <1>2 DEF RetainInput, ClaimRequest, RecordJob, StartWork, Reply, Acked, Thrown,
                  Handler, Processing, RowWide
    <2> QED
      BY <2>1, <2>2 DEF InHand
  <1>3. CASE Admit
    <2>1. slot \in Oids /\ slot' = slot
      BY <1>3 DEF Admit, TypeInv, Located, SlotPcs, RowPcs, serviceVars
    <2>2. CASE Admissible(at, slot)
      <3>1. state'[slot] = "admitting"
        BY <1>0, <1>3, <2>1, <2>2 DEF Admit, AdmitTx, OutboxTypeOK
      <3>2. pc' \in {"select", "submit", "hold"}
        BY <1>3, <2>2 DEF Admit, Reply, Acked, Thrown, Handler, Processing, RowWide
      <3> QED
        BY <2>1, <3>1, <3>2 DEF InHand
    <2>3. CASE ~Admissible(at, slot)
      <3>1. Elsewhere
        BY <1>3, <2>3 DEF Admit, Reply, Acked, Thrown, Handler, Processing, RowWide
      <3> QED
        BY <3>1 DEF InHand
    <2> QED
      BY <2>2, <2>3
  <1>4. CASE SelectInput
    <2>1. PICK i \in Inputs : /\ SelectInputTx(at, slot, i)
                             /\ Reply(IF SelectReason(at, i) = None THEN "retain" ELSE "row")
      BY <1>4 DEF SelectInput
    <2>2. slot \in Oids /\ slot' = slot /\ pc = "select"
      BY <1>4 DEF SelectInput, TypeInv, Located, SlotPcs, RowPcs, serviceVars
    <2>3. state[slot] = "admitting"
      BY <2>2 DEF InHand
    <2>4. CASE SelectReason(at, i) = None
      <3>1. state' = state /\ Reply("retain")
        BY <2>1, <2>4 DEF SelectInputTx
      <3>2. pc' \in {"retain", "caught"}
        BY <2>2, <3>1 DEF Reply, Acked, Thrown, Handler, Processing, RowWide
      <3> QED
        BY <2>2, <2>3, <3>1, <3>2 DEF InHand
    <2>5. CASE SelectReason(at, i) # None
      <3>1. state' = [state EXCEPT ![slot] = "skipped"] /\ Reply("row")
        BY <2>1, <2>5 DEF SelectInputTx
      <3>2. pc' \in {"row", "caught"}
        BY <2>2, <3>1 DEF Reply, Acked, Thrown, Handler, Processing, RowWide
      <3> QED
        BY <1>0, <2>2, <3>1, <3>2 DEF InHand, OutboxTypeOK
    <2> QED
      BY <2>4, <2>5
  <1>5. CASE LinkSubmitted
    <2>1. slot \in Oids /\ slot' = slot
      BY <1>5 DEF LinkSubmitted, TypeInv, Located, SlotPcs, RowPcs, serviceVars
    <2>2. state'[slot] = "linked"
      BY <1>0, <1>5, <2>1 DEF LinkSubmitted, FinishAdmissionTx, OutboxTypeOK
    <2>3. pc' \in {"row", "caught", "hold"}
      BY <1>5 DEF LinkSubmitted, Reply, Acked, Thrown, Handler, Processing, RowWide
    <2> QED
      BY <2>1, <2>2, <2>3 DEF InHand
  <1> QED
    BY <1>1, <1>2, <1>3, <1>4, <1>5 DEF Dispatch

\* recover-owned-in! moves the occurrence it has taken off its list.
LEMMA RecoverInHand ==
    ASSUME TypeInv, InHand, Recover \/ (\E o \in Oids : RecoverFault(o)) PROVE InHand'
  <1> USE DEF Settling, Dispatching, Reconciling
  <1>0. OutboxTypeOK /\ uncertain \subseteq Oids
    BY DEF TypeInv, TypeOK
  <1>1. ASSUME NEW o \in Oids,
               \/ RecoverLinked(o) \/ RecoverInterrupted(o) \/ RecoverUnclaimed(o)
               \/ RecoverFault(o)
        PROVE  InHand'
    <2>1. /\ pc = "recover" /\ slot' = o /\ uncertain' = uncertain \ {o}
      BY <1>1 DEF RecoverLinked, RecoverInterrupted, RecoverUnclaimed, RecoverFault, Recovering
    <2>2. \A p \in Oids : p # o => state'[p] = state[p]
      BY <1>0, <1>1 DEF RecoverLinked, RecoverInterrupted, RecoverUnclaimed, RecoverFault,
                        FinishAdmissionTx, InterruptOwnedTx, OutboxTypeOK, outboxVars,
                        occurrenceVars
    <2>3. pc' \in Reconciling
      BY <1>1, <2>1 DEF RecoverLinked, RecoverInterrupted, RecoverUnclaimed, RecoverFault,
                        Reply, Acked, Thrown, Handler, Processing, RowWide
    <2> QED
      BY <1>0, <2>1, <2>2, <2>3 DEF InHand
  <1>2. CASE RecoverBlock \/ RecoverCaught
    <2>1. slot \notin uncertain /\ UNCHANGED <<slot, uncertain>> /\ slot \in Oids
      BY <1>2 DEF RecoverBlock, RecoverCaught, InHand, serviceVars, TypeInv, Located, SlotPcs
    <2>2. \A p \in Oids : p # slot => state'[p] = state[p]
      BY <1>0, <1>2, <2>1 DEF RecoverBlock, RecoverCaught, BlockTx, InterruptOwnedTx,
                              OutboxTypeOK, occurrenceVars
    <2>3. pc \in Reconciling /\ pc' \in Reconciling \cup {"stopped"}
      BY <1>2 DEF RecoverBlock, RecoverCaught, Reply, Acked, Thrown, Handler, Processing,
                  RowWide
    <2> QED
      BY <1>0, <2>1, <2>2, <2>3 DEF InHand
  <1>3. CASE RecoverDone
    BY <1>3 DEF RecoverDone, Acked, InHand
  <1> QED
    BY <1>1, <1>2, <1>3 DEF Recover

\* A pass visits only an occurrence that is linked and returned.
LEMMA PassInHand ==
    ASSUME TypeInv, InHand, BeginPass \/ (\E a \in Activations : TakeRow(a)) \/ EndPass
    PROVE  InHand'
  <1> USE DEF Settling, Dispatching, Reconciling
  <1>1. CASE BeginPass \/ EndPass
    BY <1>1 DEF BeginPass, EndPass, Acked, InHand
  <1>2. ASSUME NEW a \in Activations, TakeRow(a) PROVE InHand'
    <2>1. UNCHANGED <<state, workVars>>
      BY <1>2 DEF TakeRow, outboxVars, occurrenceVars
    <2> DEFINE o == snap[a].active
    <2>2. CASE Releasable(o)
      <3>1. slot' = o /\ pc' = Process(a, o)
        BY <1>2, <2>2 DEF TakeRow
      <3>2. pc' \in {"file", "mark", "reject", "post"}
        BY <3>1 DEF Process
      <3>3. state'[slot'] = "linked" /\ request'[slot'] = "submitted" /\ returned'[slot'] = "done"
        BY <2>1, <2>2, <3>1 DEF Releasable, Settled, workVars
      <3> QED
        BY <3>2, <3>3 DEF InHand, Settled
    <2>3. CASE ~Releasable(o)
      <3>1. pc' = "claim"
        BY <1>2, <2>3 DEF TakeRow
      <3> QED
        BY <3>1 DEF InHand
    <2> QED
      BY <2>2, <2>3
  <1> QED
    BY <1>1, <1>2

\* A failed call leaves to its handler what it had itself.
LEMMA FailuresInHand ==
    ASSUME TypeInv, InHand, Fault \/ AbandonRequest \/ FailStart \/ Crash \/ Stop
    PROVE  InHand'
  <1> USE DEF Settling, Dispatching, Reconciling
  <1>1. CASE Crash \/ Stop
    BY <1>1 DEF Crash, Stop, InHand
  <1>2. CASE Fault \/ AbandonRequest \/ FailStart
    <2>1. UNCHANGED <<state, slot, uncertain, announced, posted>>
      BY <1>2 DEF Fault, AbandonRequest, FailStart, serviceVars, outboxVars, occurrenceVars
    <2>2. [Next]_vars
      BY <1>2 DEF Next, Failures
    <2>3. \A o \in Oids : Settled(o) => Settled(o)'
      BY <2>2, StepJournal, JournalStable DEF TypeInv, TypeOK
    <2>4. pc' = Handler(pc) /\ pc # "recover"
      BY <1>2 DEF Fault, AbandonRequest, FailStart, Thrown
    <2>5. pc' \in Settling => pc \in Processing /\ pc' = "post" /\ slot \in Oids
      BY <2>4 DEF Handler, Processing, RowWide, TypeInv, Located, SlotPcs, RowPcs
    <2>6. /\ pc' \notin Dispatching
          /\ pc' = "caught" => pc \in Dispatching
          /\ pc' \in Reconciling => pc' = "recover-caught" /\ pc = "recover-block"
      BY <2>4 DEF Handler, Processing, RowWide
    <2> QED
      BY <2>1, <2>3, <2>5, <2>6 DEF InHand, Processing
  <1> QED
    BY <1>1, <1>2

\* What the worker relies on is inductive.
LEMMA InHandStep == TypeInv /\ InHand /\ [Next]_vars => InHand'
  <1> SUFFICES ASSUME TypeInv, InHand, [Next]_vars PROVE InHand'
    OBVIOUS
  <1>0. WorkTypeOK /\ OutboxTypeOK
    BY DEF TypeInv, TypeOK
  <1>1. CASE UNCHANGED vars
    BY <1>1, OthersInHand DEF vars, serviceVars, outboxVars, occurrenceVars
  <1>2. CASE Worker
    BY <1>2, RecoverInHand, PassInHand, ReleaseInHand, DispatchInHand DEF Worker
  <1>3. CASE Failures
    BY <1>3, RecoverInHand, FailuresInHand DEF Failures
  <1>4. ASSUME NEW a \in Activations, Pause(a) PROVE InHand'
    <2>1. UNCHANGED <<pc, slot, uncertain, posted, announced>>
      BY <1>4 DEF Pause, PauseTx, serviceVars
    <2>2. \A o \in Oids : state[o] # "pending" => state'[o] = state[o]
      BY <1>0, <1>4 DEF Pause, PauseTx, OutboxTypeOK
    <2> QED
      BY <2>1, <2>2, OthersInHand
  <1>5. CASE \/ \E h \in Humans : Resume(h) \/ RefuseResume(h)
             \/ \E h \in Humans, a \in Activations : Inspect(h, a)
             \/ \E o \in Oids : JobStep(o)
    <2>1. UNCHANGED <<pc, slot, uncertain, posted, announced, state>>
      BY <1>5 DEF Resume, RefuseResume, Answered, Inspect, JobStep, ResumeTx, serviceVars,
                  outboxVars, occurrenceVars
    <2> QED
      BY <2>1, OthersInHand
  <1>6. CASE Boot
    BY <1>6 DEF Boot, InHand, Settling, Dispatching, Reconciling
  <1>7. CASE Start
    <2>1. /\ pc' = "recover" /\ state' = state
          /\ uncertain' = {o \in Oids : state[o] = "admitting"}
      BY <1>7 DEF Start, outboxVars, occurrenceVars
    <2> QED
      BY <2>1 DEF InHand, Settling, Dispatching, Reconciling
  <1> QED
    BY <1>1, <1>2, <1>3, <1>4, <1>5, <1>6, <1>7 DEF Next, Controls

-----------------------------------------------------------------------------
\* The initial stores hold no work and the stopped worker nothing in hand.
LEMMA InitKept ==
    Init => OneRun /\ Untouched /\ BeforeClaim /\ Kept /\ InHand /\ Returning
  BY DEF Init, WorkInit, OutboxInit, OneRun, Untouched, BeforeClaim, Kept, NoLostWork,
         Settled, InHand, Returning, Settling, Dispatching, Reconciling

\* A wallet is out only for a request that exists: inductive.
LEMMA ReturningStep == TypeInv /\ Returning /\ [Next]_vars => Returning'
  BY StepJournal, JournalStable DEF TypeInv, TypeOK

\* What is queued, admitted or interrupted keeps its slot, and submitted work
\* gives it up only returned and announced, however passes, failed calls,
\* restarts, recovery and human controls interleave.
THEOREM NoWorkLost == Spec => []NoLostWork
  <1>1. Kept => NoLostWork
    BY DEF Kept
  <1>2. Spec => [](TypeInv /\ OneRun /\ Untouched /\ BeforeClaim /\ Kept /\ InHand)
    BY InitTyped, InitKept, TypeStep, OneRunStep, UntouchedStep, BeforeClaimStep, KeptStep,
       InHandStep, PTL DEF Spec
  <1> QED
    BY <1>1, <1>2, PTL

\* A schedule never has two wallets out: work that has not returned still
\* occupies the one slot of its activation.
THEOREM OneAtATime == Spec => []SingleFlight
  <1>1. ASSUME TypeInv, Untouched, Kept, Returning PROVE SingleFlight
    <2>1. ASSUME NEW a \in Activations, NEW o \in Of(a), returned[o] = "pending"
          PROVE  active[a] = o
      <3>1. o \in Oids /\ o[1] = a
        BY DEF Of
      <3>2. request[o] # "none"
        BY <2>1, <3>1, <1>1 DEF Returning
      <3>3. state[o] \in {"admitting", "linked", "interrupted"}
        BY <3>1, <3>2, <1>1 DEF Untouched, TypeInv, TypeOK, OutboxTypeOK, OccurrenceStates
      <3>4. ~Settled(o)
        BY <2>1 DEF Settled
      <3> QED
        BY <3>1, <3>3, <3>4, <1>1 DEF Kept, NoLostWork
    <2> QED
      BY <2>1 DEF SingleFlight
  <1>2. Spec => [](TypeInv /\ OneRun /\ Untouched /\ BeforeClaim /\ Kept /\ InHand /\ Returning)
    BY InitTyped, InitKept, TypeStep, OneRunStep, UntouchedStep, BeforeClaimStep, KeptStep,
       InHandStep, ReturningStep, PTL DEF Spec
  <1> QED
    BY <1>1, <1>2, PTL
=============================================================================
