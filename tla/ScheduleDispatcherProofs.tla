---------------------- MODULE ScheduleDispatcherProofs ----------------------
(***************************************************************************)
(* Safety of the dispatcher for every number of schedules, humans, slots,  *)
(* failures and control operations.                                        *)
(***************************************************************************)
EXTENDS ScheduleDispatcher, TLAPS

-----------------------------------------------------------------------------
\* The interval arithmetic of due-slot, for every interval, cursor and time.

\* What \div means, with the interval as a variable: the facts
\* everything below rests on.
LEMMA QuotientBounds ==
    ASSUME NEW n \in Nat, NEW d \in Nat, d > 0
    PROVE  /\ n \div d \in Nat
           /\ (n \div d) * d <= n
           /\ n < (n \div d) * d + d
  OBVIOUS

\* due-slot claims the latest slot not after now: it lies in the window
\* [first, now], the next one lies after now, and exactly the slots between
\* first and it are counted as coalesced.
THEOREM IntervalSlotLatest ==
    ASSUME NEW interval \in Nat, interval > 0,
           NEW first \in Nat, NEW time \in Nat, Due(first, time)
    PROVE  LET due == IntervalSlot(interval, first, time)
           IN  /\ due.intended \in Nat /\ due.next \in Nat /\ due.coalesced \in Nat
               /\ first <= due.intended /\ due.intended <= time
               /\ time < due.next
               /\ due.next = due.intended + interval
               /\ due.intended = first + due.coalesced * interval
  <1> DEFINE n == time - first
             q == n \div interval
  <1>1. n \in Nat
    BY DEF Due
  <1>2. q \in Nat /\ q * interval <= n /\ n < q * interval + interval
    BY <1>1, QuotientBounds
  <1>3. Elapsed(interval, first, time) = q
    BY DEF Elapsed
  <1>4. q * interval \in Nat
    BY <1>2
  <1> HIDE DEF q
  <1>5. IntendedSlot(interval, first, time) = first + q * interval
    BY <1>3 DEF IntendedSlot
  <1> QED
    BY <1>1, <1>2, <1>3, <1>4, <1>5 DEF IntervalSlot

\* A second pass at a time before the new cursor claims nothing: no slot is
\* claimed twice, however often or late passes run.
THEOREM SlotClaimedOnce ==
    ASSUME NEW interval \in Nat, interval > 0,
           NEW first \in Nat, NEW time \in Nat, NEW later \in Nat,
           Due(first, time),
           Due(IntervalSlot(interval, first, time).next, later)
    PROVE  IntendedSlot(interval, IntervalSlot(interval, first, time).next, later)
             > IntendedSlot(interval, first, time)
  <1> DEFINE next == IntervalSlot(interval, first, time).next
  <1>1. next \in Nat /\ next > IntendedSlot(interval, first, time)
    BY IntervalSlotLatest DEF IntervalSlot
  <1>2. next <= IntendedSlot(interval, next, later)
    BY <1>1, IntervalSlotLatest DEF IntervalSlot
  <1>3. /\ IntendedSlot(interval, first, time) \in Nat
        /\ IntendedSlot(interval, next, later) \in Nat
    BY <1>1, IntervalSlotLatest DEF IntervalSlot
  <1> HIDE DEF next
  <1>4. IntendedSlot(interval, next, later) > IntendedSlot(interval, first, time)
    BY <1>1, <1>2, <1>3
  <1> QED
    BY <1>4 DEF next

-----------------------------------------------------------------------------
\* Every transaction of the outbox and of the work journal keeps the store
\* well typed.

\* A row read from the outbox is a row.
LEMMA RowTyped ==
    ASSUME OutboxTypeOK, NEW a \in Activations
    PROVE  Row(a) \in Rows
  BY DEF OutboxTypeOK, Row, Rows

-----------------------------------------------------------------------------
\* The work journal.

\* The journal's transactions and the Jobs' ends keep its domains.
LEMMA WorkTyped ==
    ASSUME WorkTypeOK, NEW o,
           \/ ClaimRequestTx(o) \/ RecordJobTx(o) \/ InterruptRequestTx(o)
           \/ FileOutputTx(o) \/ FinishJob(o) \/ ReturnJob(o) \/ BootRecovery
    PROVE  WorkTypeOK'
  <1> USE DEF WorkTypeOK, RequestStates, JobStates, Terminal
  <1>1. CASE ClaimRequestTx(o) \/ InterruptRequestTx(o)
    BY <1>1 DEF ClaimRequestTx, InterruptRequestTx
  <1>2. CASE RecordJobTx(o)
    BY <1>2 DEF RecordJobTx
  <1>3. CASE FileOutputTx(o) \/ ReturnJob(o)
    BY <1>3 DEF FileOutputTx, ReturnJob
  <1>4. CASE FinishJob(o)
    BY <1>4 DEF FinishJob
  <1>5. CASE BootRecovery
    BY <1>5 DEF BootRecovery
  <1>6. QED
    BY <1>1, <1>2, <1>3, <1>4, <1>5

\* Starting a Job, or failing to, keeps the journal's domains.
LEMMA StartTyped ==
    ASSUME WorkTypeOK, NEW o, StartEvaluation(o) \/ FailConstruction(o)
    PROVE  WorkTypeOK'
  BY DEF WorkTypeOK, JobStates, StartEvaluation, FailConstruction

-----------------------------------------------------------------------------
\* Human controls and admission.

\* enabled-tx keeps the outbox's domains.
LEMMA PauseTyped ==
    ASSUME OutboxTypeOK, NEW a, PauseTx(a)
    PROVE  OutboxTypeOK'
  BY DEF OutboxTypeOK, PauseTx, OccurrenceStates, SkipReasons

\* resume-managed-tx keeps the outbox's domains.
LEMMA ResumeTyped ==
    ASSUME OutboxTypeOK, NEW a, NEW row, ResumeTx(a, row)
    PROVE  OutboxTypeOK'
  BY DEF OutboxTypeOK, ResumeTx, HoldReasons, occurrenceVars

\* admit-tx keeps the outbox's domains.
LEMMA AdmitTyped ==
    ASSUME OutboxTypeOK, NEW a, NEW o, AdmitTx(a, o)
    PROVE  OutboxTypeOK'
  BY DEF OutboxTypeOK, AdmitTx, OccurrenceStates, activationVars

\* select-input-tx keeps the outbox's domains.
LEMMA SelectTyped ==
    ASSUME OutboxTypeOK, NEW a, NEW o, NEW i \in Inputs, SelectInputTx(a, o, i)
    PROVE  OutboxTypeOK'
  BY DEF OutboxTypeOK, SelectInputTx, SelectReason, OccurrenceStates, SkipReasons

\* retain-owned-input-tx keeps the outbox's domains.
LEMMA RetainTyped ==
    ASSUME OutboxTypeOK, NEW a, NEW o, RetainInputTx(a, o)
    PROVE  OutboxTypeOK'
  BY DEF OutboxTypeOK, RetainInputTx, activationVars

\* finish-admission! keeps the outbox's domains.
LEMMA FinishTyped ==
    ASSUME OutboxTypeOK, NEW o, NEW outcome \in {"linked", "interrupted"},
           FinishAdmissionTx(o, outcome)
    PROVE  OutboxTypeOK'
  BY DEF OutboxTypeOK, FinishAdmissionTx, OccurrenceStates, SkipReasons, activationVars

\* interrupt-owned-tx keeps the outbox's domains.
LEMMA InterruptTyped ==
    ASSUME OutboxTypeOK, NEW a, NEW o,
           NEW r \in {"interrupted", "restart", "owned-dispatch-unavailable"},
           InterruptOwnedTx(a, o, r)
    PROVE  OutboxTypeOK'
  <1>1. CASE Owns(a, o) /\ ~pointer[o] /\ request[o] = "none"
    <2>1. enabled' \in [Activations -> BOOLEAN]
      BY <1>1 DEF OutboxTypeOK, InterruptOwnedTx
    <2>2. reason' \in [Activations -> HoldReasons]
      <3>1. (IF r = "restart" THEN "interrupted" ELSE r) \in HoldReasons
        BY DEF HoldReasons
      <3> QED
        BY <1>1, <3>1 DEF OutboxTypeOK, InterruptOwnedTx
    <2>3. state' \in [Oids -> OccurrenceStates]
      BY <1>1 DEF OutboxTypeOK, InterruptOwnedTx, OccurrenceStates
    <2>4. why' \in [Oids -> SkipReasons]
      <3>1. r \in SkipReasons
        BY DEF SkipReasons
      <3> QED
        BY <1>1, <3>1 DEF OutboxTypeOK, InterruptOwnedTx
    <2> QED
      BY <1>1, <2>1, <2>2, <2>3, <2>4 DEF OutboxTypeOK, InterruptOwnedTx
  <1>2. CASE ~(Owns(a, o) /\ ~pointer[o] /\ request[o] = "none")
    BY <1>2 DEF OutboxTypeOK, InterruptOwnedTx, HoldReasons, occurrenceVars
  <1> QED
    BY <1>1, <1>2

\* block! keeps the outbox's domains.
LEMMA BlockTyped ==
    ASSUME OutboxTypeOK, NEW a,
           NEW r \in {"execution-failed", "interrupted", "owned-dispatch-unavailable"},
           BlockTx(a, r)
    PROVE  OutboxTypeOK'
  BY DEF OutboxTypeOK, BlockTx, HoldReasons, occurrenceVars

\* block-owned-tx keeps the outbox's domains.
LEMMA BlockOwnedTyped ==
    ASSUME OutboxTypeOK, NEW a, NEW row,
           BlockOwnedTx(a, row, "owned-dispatch-unavailable")
    PROVE  OutboxTypeOK'
  BY BlockTyped DEF BlockOwnedTx, OutboxTypeOK, outboxVars, activationVars, occurrenceVars

-----------------------------------------------------------------------------
\* Completion.

\* mark-announced! keeps the outbox's domains.
LEMMA AnnouncedTyped ==
    ASSUME OutboxTypeOK, NEW o, MarkAnnouncedTx(o)
    PROVE  OutboxTypeOK'
  BY DEF OutboxTypeOK, MarkAnnouncedTx, activationVars

\* processed-input-tx keeps the outbox's domains.
LEMMA ProcessedTyped ==
    ASSUME OutboxTypeOK, NEW a, NEW o \in Oids, ProcessedInputTx(a, o)
    PROVE  OutboxTypeOK'
  BY DEF OutboxTypeOK, ProcessedInputTx, occurrenceVars

\* fail-terminal-tx keeps the outbox's domains.
LEMMA FailTyped ==
    ASSUME OutboxTypeOK, NEW a, NEW o \in Oids, NEW row,
           NEW marker \in {"candidate", "job"}, FailTerminalTx(a, o, row, marker)
    PROVE  OutboxTypeOK'
  BY DEF OutboxTypeOK, FailTerminalTx, HoldReasons

\* clear-active-tx keeps the outbox's domains.
LEMMA ClearTyped ==
    ASSUME OutboxTypeOK, NEW a, NEW o, ClearActiveTx(a, o)
    PROVE  OutboxTypeOK'
  BY DEF OutboxTypeOK, ClearActiveTx, occurrenceVars

-----------------------------------------------------------------------------
\* due-tx.

\* The slot claimed lies between the cursor and the time of the pass.
LEMMA DueSlotTyped ==
    ASSUME OutboxTypeOK, NEW a \in Activations, NEW time \in Slots, IsDue(a, time)
    PROVE  LET due == IntervalSlot(Interval, nextFire[a], time)
           IN  /\ due.next \in Nat /\ due.coalesced \in Nat
               /\ DueOid(a, time) \in Oids
               /\ DueOid(a, time) = <<a, due.intended>>
               /\ nextFire[a] <= due.intended /\ due.intended < due.next
  <1>1. /\ Interval \in Nat /\ Interval > 0
        /\ nextFire[a] \in Nat /\ time \in Nat /\ time <= MaxTime
        /\ MaxTime \in Nat
    BY OutboxAssumption, IdsAssumption DEF OutboxTypeOK, Slots
  <1>2. Due(nextFire[a], time)
    BY DEF IsDue
  <1> DEFINE due == IntervalSlot(Interval, nextFire[a], time)
  <1>3. /\ due.intended \in Nat /\ due.next \in Nat /\ due.coalesced \in Nat
        /\ nextFire[a] <= due.intended /\ due.intended <= time /\ time < due.next
    BY <1>1, <1>2, IntervalSlotLatest
  <1>4. due.intended = IntendedSlot(Interval, nextFire[a], time)
    BY DEF IntervalSlot
  <1>5. due.intended \in Slots
    BY <1>1, <1>3 DEF Slots
  <1>6. DueOid(a, time) \in Oids /\ DueOid(a, time) = <<a, due.intended>>
    BY <1>4, <1>5 DEF DueOid, Oids
  <1> HIDE DEF due
  <1>7. due.intended < due.next
    BY <1>1, <1>3
  <1> QED
    BY <1>3, <1>6, <1>7 DEF due

\* The cursor moves to a time and the new occurrence is one of the slots.
LEMMA CursorTyped ==
    ASSUME OutboxTypeOK, NEW a \in Activations, NEW time \in Slots, IsDue(a, time),
           NEW folded \in {0, 1}, AdvanceCursor(a, time, folded)
    PROVE  /\ nextFire' \in [Activations -> Nat]
           /\ lastOccurrence' \in [Activations -> Oids \cup {None}]
           /\ coalesced' \in [Oids -> Nat]
  BY DueSlotTyped DEF OutboxTypeOK, AdvanceCursor

\* due-tx keeps the outbox's domains.
LEMMA DueTyped ==
    ASSUME OutboxTypeOK, NEW a \in Activations, NEW time \in Slots, DueTx(a, time)
    PROVE  OutboxTypeOK'
  <1>1. CASE ~IsDue(a, time)
    BY <1>1 DEF DueTx, OutboxTypeOK, outboxVars, activationVars, occurrenceVars
  <1>2. CASE IsDue(a, time)
    <2>1. DueOid(a, time) \in Oids
      BY <1>2, DueSlotTyped
    <2>2. CASE QueueDue(a, time)
      <3>1. AdvanceCursor(a, time, 0)
        BY <2>2 DEF QueueDue
      <3> QED
        BY <1>2, <2>1, <2>2, <3>1, CursorTyped
        DEF OutboxTypeOK, QueueDue, AdvanceCursor, OccurrenceStates
    <2>3. CASE SupersedeDue(a, time)
      <3>1. AdvanceCursor(a, time, 1)
        BY <2>3 DEF SupersedeDue
      <3> QED
        BY <1>2, <2>1, <2>3, <3>1, CursorTyped
        DEF OutboxTypeOK, SupersedeDue, AdvanceCursor, OccurrenceStates, SkipReasons
    <2>4. CASE OverlapDue(a, time)
      <3>1. AdvanceCursor(a, time, 0)
        BY <2>4 DEF OverlapDue
      <3> QED
        BY <1>2, <2>4, <3>1, CursorTyped
        DEF OutboxTypeOK, OverlapDue, AdvanceCursor, OccurrenceStates, SkipReasons
    <2> QED
      BY <1>2, <2>2, <2>3, <2>4 DEF DueTx
  <1> QED
    BY <1>1, <1>2

-----------------------------------------------------------------------------
\* The dispatcher's own state.

\* Positions of the worker with an activation, and with an occurrence, in
\* hand.
RowPcs == {"file", "mark", "reject", "post", "announce", "settle", "claim",
           "look", "admit", "select", "retain", "submit", "job", "start",
           "reread", "caught", "block", "hold"}
SlotPcs == (RowPcs \ {"claim", "look", "hold"}) \cup {"recover-caught", "recover-block"}

\* Wherever the code uses the row, the occurrence or the pass's snapshot,
\* there is one.
Located ==
    /\ pc \in RowPcs \cup SlotPcs => at \in Activations
    /\ pc \in SlotPcs => slot \in Oids
    /\ pc \in RowPcs \cup {"row"} => snap \in [Activations -> Rows]

TypeInv == TypeOK /\ Located

\* The initial stores and the stopped worker are well typed.
LEMMA InitTyped == Init => TypeInv
  <1> SUFFICES ASSUME Init PROVE TypeInv
    OBVIOUS
  <1>1. WorkTypeOK
    BY DEF Init, WorkInit, WorkTypeOK, RequestStates, JobStates
  <1>2. OutboxTypeOK
    BY DEF Init, OutboxInit, OutboxTypeOK, HoldReasons, OccurrenceStates, SkipReasons
  <1>3. now \in Slots
    BY IdsAssumption DEF Init, Slots
  <1> QED
    BY <1>1, <1>2, <1>3 DEF Init, TypeInv, TypeOK, Located, NoRows, Up, RowPcs, SlotPcs

-----------------------------------------------------------------------------
\* Steps of the worker within one row of a pass.

\* The handler of a failed call stays within the row, and needs no more in
\* hand than the call did; only a failing hold stops the service.
LEMMA RowHandler ==
    ASSUME pc \in RowPcs
    PROVE  /\ Handler(pc) \in {"post", "caught", "hold", "stopped"}
           /\ Handler(pc) \in {"post", "caught"} => pc \in SlotPcs
  BY DEF RowPcs, SlotPcs, Handler, Processing, Dispatching, RowWide

\* A step inside one row of a pass: the worker moves to a position whose row
\* and occurrence are in hand.
LEMMA RowStepTyped ==
    ASSUME TypeInv, pc \in RowPcs, WorkTypeOK', OutboxTypeOK',
           NEW next \in RowPcs \cup {"row"}, next \in SlotPcs => pc \in SlotPcs,
           Reply(next),
           UNCHANGED <<serviceVars, inspected, controls, resumedInPass>>,
           overtaken' \in SUBSET Humans, posted' \in [Oids -> BOOLEAN]
    PROVE  TypeInv'
  <1>1. /\ pc' \in RowPcs \cup {"row", "stopped"}
        /\ pc' \in SlotPcs => pc \in SlotPcs
        /\ failing' \in BOOLEAN /\ faults' \in Nat
    <2>1. CASE Acked(next)
      BY <2>1 DEF Acked, TypeInv, TypeOK
    <2>2. CASE Thrown
      BY <2>2, RowHandler DEF Thrown, TypeInv, TypeOK, RowPcs, SlotPcs
    <2> QED
      BY <2>1, <2>2 DEF Reply
  <1>2. pc' \in Up
    BY <1>1 DEF RowPcs, Up
  <1>3. UNCHANGED <<now, todo, uncertain, at, slot, snap>>
    BY DEF serviceVars
  <1>4. Located'
    BY <1>1, <1>3 DEF TypeInv, Located, RowPcs, SlotPcs
  <1> QED
    BY <1>1, <1>2, <1>3, <1>4 DEF TypeInv, TypeOK

\* The common case: nothing but the two stores and the worker moves.
LEMMA StoreStepTyped ==
    ASSUME TypeInv, pc \in RowPcs, WorkTypeOK', OutboxTypeOK',
           NEW next \in RowPcs \cup {"row"}, next \in SlotPcs => pc \in SlotPcs,
           Reply(next), UNCHANGED <<serviceVars, controlVars, posted>>
    PROVE  TypeInv'
  BY RowStepTyped DEF TypeInv, TypeOK, controlVars

\* A step that leaves the request journal alone keeps its domains.
LEMMA WorkUnchanged ==
    ASSUME WorkTypeOK, UNCHANGED workVars PROVE WorkTypeOK'
  BY DEF WorkTypeOK, workVars

\* A step that leaves the outbox alone keeps its domains.
LEMMA OutboxUnchanged ==
    ASSUME OutboxTypeOK, UNCHANGED outboxVars PROVE OutboxTypeOK'
  BY DEF OutboxTypeOK, outboxVars, activationVars, occurrenceVars

\* release-owned-settled! keeps every domain.
LEMMA ReleaseTyped ==
    ASSUME TypeInv, Release PROVE TypeInv'
  <1> USE DEF RowPcs, SlotPcs
  <1>0. WorkTypeOK /\ OutboxTypeOK /\ posted \in [Oids -> BOOLEAN] /\ overtaken \in SUBSET Humans
    BY DEF TypeInv, TypeOK
  <1>1. CASE FileOutput
    <2>1. WorkTypeOK' /\ OutboxTypeOK'
      BY <1>0, <1>1, WorkTyped, OutboxUnchanged DEF FileOutput
    <2> QED
      BY <1>1, <2>1, StoreStepTyped DEF FileOutput
  <1>2. CASE MarkProcessed
    <2>1. slot \in Oids
      BY <1>2 DEF MarkProcessed, TypeInv, Located
    <2>2. WorkTypeOK' /\ OutboxTypeOK'
      BY <1>0, <1>2, <2>1, ProcessedTyped, WorkUnchanged DEF MarkProcessed
    <2> QED
      BY <1>2, <2>2, StoreStepTyped DEF MarkProcessed
  <1>3. CASE RejectFrozen
    <2>1. WorkTypeOK' /\ OutboxTypeOK'
      BY <1>0, <1>3, BlockTyped, WorkUnchanged DEF RejectFrozen
    <2> QED
      BY <1>3, <2>1, StoreStepTyped DEF RejectFrozen
  <1>4. CASE PostResult
    <2>1. WorkTypeOK' /\ OutboxTypeOK'
      BY <1>0, <1>4, OutboxUnchanged, WorkUnchanged DEF PostResult
    <2>2. posted' \in [Oids -> BOOLEAN] /\ overtaken' \in SUBSET Humans
      BY <1>0, <1>4 DEF PostResult, controlVars
    <2> QED
      BY <1>4, <2>1, <2>2, RowStepTyped DEF PostResult, controlVars
  <1>5. CASE SkipPost
    <2>1. WorkTypeOK' /\ OutboxTypeOK'
      BY <1>0, <1>5, OutboxUnchanged, WorkUnchanged DEF SkipPost
    <2> QED
      BY <1>5, <2>1, StoreStepTyped DEF SkipPost, Reply
  <1>6. CASE MarkAnnounced
    <2>1. WorkTypeOK' /\ OutboxTypeOK'
      BY <1>0, <1>6, AnnouncedTyped, WorkUnchanged DEF MarkAnnounced
    <2> QED
      BY <1>6, <2>1, StoreStepTyped DEF MarkAnnounced
  <1>7. CASE Rethrow \/ RefuseFailure
    <2>1. WorkTypeOK' /\ OutboxTypeOK'
      BY <1>0, <1>7, OutboxUnchanged, WorkUnchanged DEF Rethrow, RefuseFailure
    <2>2. pc = "settle" /\ Acked("hold")
      BY <1>7 DEF Rethrow, RefuseFailure, Acked
    <2> QED
      BY <1>7, <2>1, <2>2, StoreStepTyped DEF Rethrow, RefuseFailure, Reply
  <1>8. CASE RecordFailure
    <2>1. slot \in Oids
      BY <1>8 DEF RecordFailure, TypeInv, Located
    <2>2. WorkTypeOK' /\ OutboxTypeOK'
      BY <1>0, <1>8, <2>1, FailTyped, WorkUnchanged DEF RecordFailure
    <2>3. overtaken' \in SUBSET Humans /\ posted' \in [Oids -> BOOLEAN]
      BY <1>0, <1>8 DEF RecordFailure, Overtaken
    <2> QED
      BY <1>8, <2>2, <2>3, RowStepTyped DEF RecordFailure
  <1>9. CASE ReleaseSlot
    <2>1. WorkTypeOK' /\ OutboxTypeOK'
      BY <1>0, <1>9, ClearTyped, WorkUnchanged DEF ReleaseSlot
    <2> QED
      BY <1>9, <2>1, StoreStepTyped DEF ReleaseSlot
  <1> QED
    BY <1>1, <1>2, <1>3, <1>4, <1>5, <1>6, <1>7, <1>8, <1>9 DEF Release

\* owned-dispatch!.
LEMMA DispatchTyped ==
    ASSUME TypeInv, Dispatch PROVE TypeInv'
  <1> USE DEF RowPcs, SlotPcs
  <1>0. WorkTypeOK /\ OutboxTypeOK /\ now \in Slots
    BY DEF TypeInv, TypeOK
  <1>1. CASE ClaimDue
    <2>1. at \in Activations
      BY <1>1 DEF ClaimDue, TypeInv, Located
    <2>2. WorkTypeOK' /\ OutboxTypeOK'
      BY <1>0, <1>1, <2>1, DueTyped, WorkUnchanged DEF ClaimDue
    <2> QED
      BY <1>1, <2>2, StoreStepTyped DEF ClaimDue
  <1>2. CASE Look
    <2>1. at \in Activations
      BY <1>2 DEF Look, TypeInv, Located
    <2>2. WorkTypeOK' /\ OutboxTypeOK'
      BY <1>0, <1>2, OutboxUnchanged, WorkUnchanged DEF Look
    <2>3. /\ slot' \in Oids \cup {None}
          /\ pc' \in {"admit", "row"}
          /\ pc' = "admit" => slot' \in Oids
      BY <1>0, <1>2, <2>1 DEF Look, Acked, OutboxTypeOK
    <2> QED
      BY <1>2, <2>1, <2>2, <2>3 DEF Look, Acked, TypeInv, TypeOK, Located, Up, controlVars
  <1>3. CASE Admit
    <2>1. WorkTypeOK' /\ OutboxTypeOK'
      BY <1>0, <1>3, AdmitTyped, WorkUnchanged DEF Admit
    <2> DEFINE next == IF ~Admissible(at, slot) THEN "row"
                       ELSE IF Selects(at) THEN "select" ELSE "submit"
    <2>2. next \in {"row", "select", "submit"}
      OBVIOUS
    <2>3. pc = "admit" /\ Reply(next) /\ UNCHANGED <<serviceVars, controlVars, posted>>
      BY <1>3 DEF Admit
    <2> HIDE DEF next
    <2> QED
      BY <2>1, <2>2, <2>3, StoreStepTyped
  <1>4. CASE SelectInput
    <2>1. PICK i \in Inputs :
            /\ SelectInputTx(at, slot, i)
            /\ Reply(IF SelectReason(at, i) = None THEN "retain" ELSE "row")
      BY <1>4 DEF SelectInput
    <2>2. WorkTypeOK' /\ OutboxTypeOK'
      BY <1>0, <1>4, <2>1, SelectTyped, WorkUnchanged DEF SelectInput
    <2> DEFINE next == IF SelectReason(at, i) = None THEN "retain" ELSE "row"
    <2>3. next \in {"row", "retain"}
      OBVIOUS
    <2>4. pc = "select" /\ Reply(next) /\ UNCHANGED <<serviceVars, controlVars, posted>>
      BY <1>4, <2>1 DEF SelectInput
    <2> HIDE DEF next
    <2> QED
      BY <2>2, <2>3, <2>4, StoreStepTyped
  <1>5. CASE RetainInput
    <2>1. WorkTypeOK' /\ OutboxTypeOK'
      BY <1>0, <1>5, RetainTyped, WorkUnchanged DEF RetainInput
    <2> QED
      BY <1>5, <2>1, StoreStepTyped DEF RetainInput
  <1>6. CASE ClaimRequest
    <2>1. WorkTypeOK' /\ OutboxTypeOK'
      BY <1>0, <1>6, WorkTyped, OutboxUnchanged DEF ClaimRequest
    <2> QED
      BY <1>6, <2>1, StoreStepTyped DEF ClaimRequest
  <1>7. CASE RecordJob
    <2>1. WorkTypeOK' /\ OutboxTypeOK'
      BY <1>0, <1>7, WorkTyped, OutboxUnchanged DEF RecordJob
    <2> QED
      BY <1>7, <2>1, StoreStepTyped DEF RecordJob, Reply
  <1>8. CASE StartWork
    <2>1. WorkTypeOK' /\ OutboxTypeOK'
      BY <1>0, <1>8, StartTyped, OutboxUnchanged DEF StartWork
    <2> QED
      BY <1>8, <2>1, StoreStepTyped DEF StartWork
  <1>9. CASE LinkSubmitted
    <2>1. WorkTypeOK' /\ OutboxTypeOK'
      BY <1>0, <1>9, FinishTyped, WorkUnchanged DEF LinkSubmitted
    <2> QED
      BY <1>9, <2>1, StoreStepTyped DEF LinkSubmitted
  <1>10. CASE LinkInterrupted
    <2>1. WorkTypeOK' /\ OutboxTypeOK'
      BY <1>0, <1>10, FinishTyped, WorkUnchanged DEF LinkInterrupted
    <2> QED
      BY <1>10, <2>1, StoreStepTyped DEF LinkInterrupted
  <1>11. CASE BlockInterrupted
    <2>1. WorkTypeOK' /\ OutboxTypeOK'
      BY <1>0, <1>11, BlockTyped, WorkUnchanged DEF BlockInterrupted
    <2> QED
      BY <1>11, <2>1, StoreStepTyped DEF BlockInterrupted
  <1>12. CASE InterruptUnclaimed
    <2>1. WorkTypeOK' /\ OutboxTypeOK'
      BY <1>0, <1>12, InterruptTyped, WorkUnchanged DEF InterruptUnclaimed
    <2> QED
      BY <1>12, <2>1, StoreStepTyped DEF InterruptUnclaimed
  <1>13. CASE AlreadySkipped
    <2>1. WorkTypeOK' /\ OutboxTypeOK'
      BY <1>0, <1>13, OutboxUnchanged, WorkUnchanged DEF AlreadySkipped
    <2> QED
      BY <1>13, <2>1, StoreStepTyped DEF AlreadySkipped, Reply
  <1>14. CASE Hold
    <2>1. WorkTypeOK' /\ OutboxTypeOK'
      BY <1>0, <1>14, BlockOwnedTyped, WorkUnchanged DEF Hold
    <2> QED
      BY <1>14, <2>1, StoreStepTyped DEF Hold
  <1> QED
    BY <1>1, <1>2, <1>3, <1>4, <1>5, <1>6, <1>7, <1>8, <1>9, <1>10, <1>11,
       <1>12, <1>13, <1>14 DEF Dispatch

-----------------------------------------------------------------------------
\* Recovery.

\* One call of recover-owned-in! keeps every domain.
LEMMA RecoverStepTyped ==
    ASSUME TypeInv, pc \in {"recover", "recover-block", "recover-caught"},
           OutboxTypeOK', UNCHANGED <<workVars, controlVars, now, todo, snap, posted>>,
           NEW next \in {"recover", "recover-block"}, Reply(next),
           at' \in Activations, slot' \in Oids, uncertain' \in SUBSET Oids
    PROVE  TypeInv'
  <1>1. WorkTypeOK'
    BY WorkUnchanged DEF TypeInv, TypeOK
  <1>2. /\ pc' \in {"recover", "recover-block", "recover-caught", "stopped"}
        /\ failing' \in BOOLEAN /\ faults' \in Nat
    BY DEF Reply, Acked, Thrown, Handler, Processing, Dispatching, RowWide, TypeInv, TypeOK
  <1>3. Located'
    BY <1>2 DEF Located, RowPcs, SlotPcs
  <1> QED
    BY <1>1, <1>2, <1>3 DEF TypeInv, TypeOK, Up, controlVars

\* Recovery always has an existing occurrence in hand.
LEMMA RecoveringTyped ==
    ASSUME TypeInv, NEW o \in Oids, Recovering(o)
    PROVE  /\ pc = "recover"
           /\ at' \in Activations /\ slot' \in Oids /\ uncertain' \in SUBSET Oids
           /\ UNCHANGED <<controlVars, now, todo, snap, posted>>
  BY DEF Recovering, TypeInv, TypeOK, Oids

\* recover-owned-in! keeps every domain.
LEMMA RecoverTyped ==
    ASSUME TypeInv, Recover \/ (\E o \in Oids : RecoverFault(o))
    PROVE  TypeInv'
  <1>0. WorkTypeOK /\ OutboxTypeOK
    BY DEF TypeInv, TypeOK
  <1>1. ASSUME NEW o \in Oids, RecoverLinked(o) PROVE TypeInv'
    <2>1. OutboxTypeOK'
      BY <1>0, <1>1, FinishTyped DEF RecoverLinked
    <2> QED
      BY <1>1, <2>1, RecoveringTyped, RecoverStepTyped DEF RecoverLinked
  <1>2. ASSUME NEW o \in Oids, RecoverInterrupted(o) PROVE TypeInv'
    <2>1. OutboxTypeOK'
      BY <1>0, <1>2, FinishTyped DEF RecoverInterrupted
    <2> QED
      BY <1>2, <2>1, RecoveringTyped, RecoverStepTyped DEF RecoverInterrupted
  <1>3. ASSUME NEW o \in Oids, RecoverUnclaimed(o) PROVE TypeInv'
    <2>1. OutboxTypeOK'
      BY <1>0, <1>3, InterruptTyped DEF RecoverUnclaimed
    <2> QED
      BY <1>3, <2>1, RecoveringTyped, RecoverStepTyped DEF RecoverUnclaimed
  <1>4. ASSUME NEW o \in Oids, RecoverFault(o) PROVE TypeInv'
    <2>1. OutboxTypeOK'
      BY <1>0, <1>4, OutboxUnchanged DEF RecoverFault
    <2>2. Reply("recover")
      BY <1>4 DEF RecoverFault, Reply
    <2> QED
      BY <1>4, <2>1, <2>2, RecoveringTyped, RecoverStepTyped DEF RecoverFault
  <1>5. CASE RecoverBlock
    <2>1. OutboxTypeOK'
      BY <1>0, <1>5, BlockTyped DEF RecoverBlock
    <2>2. at' \in Activations /\ slot' \in Oids /\ uncertain' \in SUBSET Oids
      BY <1>5 DEF RecoverBlock, serviceVars, TypeInv, TypeOK, Located, SlotPcs
    <2> QED
      BY <1>5, <2>1, <2>2, RecoverStepTyped DEF RecoverBlock, serviceVars
  <1>6. CASE RecoverCaught
    <2>1. OutboxTypeOK'
      BY <1>0, <1>6, InterruptTyped DEF RecoverCaught
    <2>2. at' \in Activations /\ slot' \in Oids /\ uncertain' \in SUBSET Oids
      BY <1>6 DEF RecoverCaught, serviceVars, TypeInv, TypeOK, Located, SlotPcs
    <2> QED
      BY <1>6, <2>1, <2>2, RecoverStepTyped DEF RecoverCaught, serviceVars
  <1>7. CASE RecoverDone
    <2>1. WorkTypeOK' /\ OutboxTypeOK'
      BY <1>0, <1>7, OutboxUnchanged, WorkUnchanged DEF RecoverDone
    <2> QED
      BY <1>7, <2>1 DEF RecoverDone, Acked, TypeInv, TypeOK, Located, Up, RowPcs, SlotPcs,
                        controlVars
  <1> QED
    BY <1>1, <1>2, <1>3, <1>4, <1>5, <1>6, <1>7 DEF Recover

-----------------------------------------------------------------------------
\* Passes, failures, controls and Jobs.

\* tick-owned-in! takes only rows it has read at its start.
LEMMA PassTyped ==
    ASSUME TypeInv, BeginPass \/ (\E a \in Activations : TakeRow(a)) \/ EndPass
    PROVE  TypeInv'
  <1>0. WorkTypeOK /\ OutboxTypeOK /\ now \in Slots
    BY DEF TypeInv, TypeOK
  <1>1. CASE BeginPass
    <2>1. WorkTypeOK' /\ OutboxTypeOK'
      BY <1>0, <1>1, OutboxUnchanged, WorkUnchanged DEF BeginPass
    <2>2. now' \in Slots
      BY <1>0, <1>1, IdsAssumption DEF BeginPass, Slots
    <2>3. snap' \in [Activations -> Rows]
      BY <1>0, <1>1, RowTyped DEF BeginPass
    <2> QED
      BY <1>1, <2>1, <2>2, <2>3
      DEF BeginPass, Acked, TypeInv, TypeOK, Located, Up, RowPcs, SlotPcs
  <1>2. ASSUME NEW a \in Activations, TakeRow(a) PROVE TypeInv'
    <2>1. WorkTypeOK' /\ OutboxTypeOK'
      BY <1>0, <1>2, OutboxUnchanged, WorkUnchanged DEF TakeRow
    <2>2. snap \in [Activations -> Rows]
      BY <1>2 DEF TakeRow, TypeInv, Located
    <2>3. snap[a].active \in Oids \cup {None}
      BY <2>2 DEF Rows
    <2>4. /\ pc' \in {"file", "mark", "reject", "post", "claim"}
          /\ pc' # "claim" => slot' \in Oids
          /\ slot' \in Oids \cup {None}
      BY <1>2, <2>3 DEF TakeRow, Process, Releasable
    <2>5. at' = a /\ snap' = snap /\ todo' \in SUBSET Activations /\ failing' \in BOOLEAN
      BY <1>2 DEF TakeRow, TypeInv, TypeOK
    <2>6. UNCHANGED <<now, uncertain, inspected, controls, resumedInPass, overtaken,
                      posted, faults>>
      BY <1>2 DEF TakeRow, controlVars
    <2> QED
      BY <2>1, <2>2, <2>4, <2>5, <2>6 DEF TypeInv, TypeOK, Located, Up, RowPcs, SlotPcs
  <1>3. CASE EndPass
    <2>1. WorkTypeOK' /\ OutboxTypeOK'
      BY <1>0, <1>3, OutboxUnchanged, WorkUnchanged DEF EndPass
    <2> QED
      BY <1>3, <2>1 DEF EndPass, Forget, NoRows, TypeInv, TypeOK, Located, Up, RowPcs,
                        SlotPcs, controlVars
  <1> QED
    BY <1>1, <1>2, <1>3

\* The volatile state of the worker after a stop or crash.
Forgotten ==
    /\ todo' \in SUBSET Activations /\ uncertain' \in SUBSET Oids
    /\ at' \in Activations \cup {None} /\ slot' \in Oids \cup {None}
    /\ snap' \in [Activations -> Rows \cup {None}] /\ failing' \in BOOLEAN

\* A worker that ends leaves nothing in hand.
LEMMA ForgetTyped == Forget => Forgotten
  BY DEF Forget, Forgotten, NoRows

\* Failed calls, crashes and stops keep every domain.
LEMMA FailuresTyped ==
    ASSUME TypeInv, Fault \/ AbandonRequest \/ FailStart \/ Crash \/ Stop
    PROVE  TypeInv'
  <1>0. WorkTypeOK /\ OutboxTypeOK /\ now \in Slots
    BY DEF TypeInv, TypeOK
  <1>1. CASE Fault
    <2>1. WorkTypeOK' /\ OutboxTypeOK'
      BY <1>0, <1>1, OutboxUnchanged, WorkUnchanged DEF Fault
    <2>2. CASE pc \in RowPcs
      BY <1>1, <2>1, <2>2, StoreStepTyped DEF Fault, Reply, RowPcs
    <2>3. CASE pc \in {"recover-block", "recover-caught"}
      <3>1. at \in Activations /\ slot \in Oids /\ uncertain \in SUBSET Oids
        BY <2>3 DEF TypeInv, TypeOK, Located, SlotPcs
      <3> QED
        BY <1>1, <2>1, <2>3, <3>1, RecoverStepTyped DEF Fault, Reply, serviceVars
    <2>4. CASE pc = "row"
      <3>1. pc' = "stopped" /\ failing' \in BOOLEAN /\ faults' \in Nat
        BY <1>1, <2>4 DEF Fault, Thrown, Handler, Processing, Dispatching, RowWide,
                          TypeInv, TypeOK
      <3> QED
        BY <1>1, <2>1, <3>1 DEF Fault, TypeInv, TypeOK, Located, Up, RowPcs, SlotPcs,
                                serviceVars, controlVars
    <2>5. pc \in RowPcs \cup {"recover-block", "recover-caught", "row"}
      BY <1>1 DEF Fault, TypeInv, TypeOK, Up, RowPcs
    <2> QED
      BY <2>2, <2>3, <2>4, <2>5
  <1>2. CASE AbandonRequest \/ FailStart
    <2>1. WorkTypeOK' /\ OutboxTypeOK'
      BY <1>0, <1>2, WorkTyped, StartTyped, OutboxUnchanged DEF AbandonRequest, FailStart
    <2>2. pc \in {"job", "start"} /\ Thrown /\ UNCHANGED <<serviceVars, controlVars, posted>>
      BY <1>2 DEF AbandonRequest, FailStart
    <2> QED
      BY <2>1, <2>2, StoreStepTyped DEF Reply, RowPcs, SlotPcs
  <1>3. CASE Crash
    <2>1. WorkTypeOK' /\ OutboxTypeOK'
      BY <1>0, <1>3, OutboxUnchanged, WorkUnchanged DEF Crash
    <2>2. /\ pc' = "down" /\ now' = now /\ posted' = posted /\ controls' = controls
          /\ faults' \in Nat
          /\ inspected' \in [Humans -> Inspections \cup {None}]
          /\ resumedInPass' = {} /\ overtaken' = {}
      BY <1>3 DEF Crash, TypeInv, TypeOK
    <2>3. Forgotten
      BY <1>3, ForgetTyped DEF Crash
    <2> QED
      BY <2>1, <2>2, <2>3 DEF Forgotten, TypeInv, TypeOK, Located, RowPcs, SlotPcs
  <1>4. CASE Stop
    <2>1. WorkTypeOK' /\ OutboxTypeOK'
      BY <1>0, <1>4, WorkTyped, StartTyped, WorkUnchanged, OutboxUnchanged DEF Stop
    <2>2. /\ pc' = "stopped" /\ faults' \in Nat
          /\ UNCHANGED <<now, posted, inspected, controls, resumedInPass, overtaken>>
      BY <1>4 DEF Stop, TypeInv, TypeOK, controlVars
    <2>3. Forgotten
      BY <1>4, ForgetTyped DEF Stop
    <2> QED
      BY <2>1, <2>2, <2>3 DEF Forgotten, TypeInv, TypeOK, Located, Up, RowPcs, SlotPcs
  <1> QED
    BY <1>1, <1>2, <1>3, <1>4

\* Boot, start and the Jobs' own steps keep every domain.
LEMMA LifecycleTyped ==
    ASSUME TypeInv, Boot \/ Start \/ (\E o \in Oids : JobStep(o))
    PROVE  TypeInv'
  <1>0. WorkTypeOK /\ OutboxTypeOK
    BY DEF TypeInv, TypeOK
  <1>1. CASE Boot
    <2>1. WorkTypeOK' /\ OutboxTypeOK'
      BY <1>0, <1>1, WorkTyped, OutboxUnchanged DEF Boot
    <2> QED
      BY <1>1, <2>1 DEF Boot, TypeInv, TypeOK, Located, Up, RowPcs, SlotPcs, serviceVars,
                        controlVars
  <1>2. CASE Start
    <2>1. WorkTypeOK' /\ OutboxTypeOK'
      BY <1>0, <1>2, WorkUnchanged, OutboxUnchanged DEF Start
    <2> QED
      BY <1>2, <2>1 DEF Start, NoRows, TypeInv, TypeOK, Located, Up, RowPcs, SlotPcs,
                        controlVars
  <1>3. ASSUME NEW o \in Oids, JobStep(o) PROVE TypeInv'
    <2>1. WorkTypeOK' /\ OutboxTypeOK'
      BY <1>0, <1>3, WorkTyped, OutboxUnchanged DEF JobStep
    <2> QED
      BY <1>3, <2>1 DEF JobStep, TypeInv, TypeOK, Located, serviceVars, controlVars
  <1> QED
    BY <1>1, <1>2, <1>3

\* set-enabled-owned! keeps every domain.
LEMMA ControlsTyped ==
    ASSUME TypeInv, Controls PROVE TypeInv'
  <1>0. WorkTypeOK /\ OutboxTypeOK
    BY DEF TypeInv, TypeOK
  <1>1. ASSUME NEW a \in Activations, Pause(a) PROVE TypeInv'
    <2>1. WorkTypeOK' /\ OutboxTypeOK'
      BY <1>0, <1>1, WorkUnchanged, PauseTyped DEF Pause
    <2> QED
      BY <1>1, <2>1 DEF Pause, TypeInv, TypeOK, Located, serviceVars
  <1>2. ASSUME NEW a \in Activations, NEW h \in Humans, Inspect(h, a) PROVE TypeInv'
    <2>1. WorkTypeOK' /\ OutboxTypeOK'
      BY <1>0, <1>2, WorkUnchanged, OutboxUnchanged DEF Inspect
    <2>2. [activation |-> a, row |-> Row(a)] \in Inspections
      BY <1>0, RowTyped DEF Inspections
    <2>3. inspected' \in [Humans -> Inspections \cup {None}]
      BY <1>2, <2>2 DEF Inspect, TypeInv, TypeOK
    <2> QED
      BY <1>2, <2>1, <2>3 DEF Inspect, TypeInv, TypeOK, Located, serviceVars
  <1>3. ASSUME NEW h \in Humans, Resume(h) \/ RefuseResume(h) PROVE TypeInv'
    <2>1. WorkTypeOK' /\ OutboxTypeOK'
      BY <1>0, <1>3, WorkUnchanged, OutboxUnchanged, ResumeTyped
      DEF Resume, RefuseResume, Answered
    <2>2. inspected[h].activation \in Activations
      BY <1>3 DEF Resume, RefuseResume, Answered, TypeInv, TypeOK, Inspections
    <2>3. /\ controls' \in Nat
          /\ inspected' \in [Humans -> Inspections \cup {None}]
          /\ overtaken' \in SUBSET Humans
          /\ UNCHANGED <<serviceVars, pc, failing, posted, faults>>
      BY <1>3 DEF Resume, RefuseResume, Answered, TypeInv, TypeOK
    <2>4. resumedInPass' \in SUBSET Activations
      BY <1>3, <2>2 DEF Resume, RefuseResume, TypeInv, TypeOK
    <2> QED
      BY <2>1, <2>3, <2>4 DEF TypeInv, TypeOK, Located, serviceVars
  <1> QED
    BY <1>1, <1>2, <1>3 DEF Controls

\* The type invariant is inductive.
LEMMA TypeStep == TypeInv /\ [Next]_vars => TypeInv'
  <1> SUFFICES ASSUME TypeInv, [Next]_vars PROVE TypeInv'
    OBVIOUS
  <1>1. CASE UNCHANGED vars
    <2>1. WorkTypeOK' /\ OutboxTypeOK'
      BY <1>1, WorkUnchanged, OutboxUnchanged DEF vars, TypeInv, TypeOK
    <2> QED
      BY <1>1, <2>1 DEF vars, TypeInv, TypeOK, Located, serviceVars, controlVars
  <1>2. CASE Worker
    BY <1>2, RecoverTyped, PassTyped, ReleaseTyped, DispatchTyped DEF Worker
  <1>3. CASE Failures
    BY <1>3, FailuresTyped, RecoverTyped DEF Failures
  <1>4. CASE Controls
    BY <1>4, ControlsTyped
  <1>5. CASE Boot \/ Start \/ \E o \in Oids : JobStep(o)
    BY <1>5, LifecycleTyped
  <1> QED
    BY <1>1, <1>2, <1>3, <1>4, <1>5 DEF Next

\* The stores stay well typed and the worker never acts without the row,
\* occurrence and snapshot its position calls for.
THEOREM TypesHold == Spec => []TypeOK
  <1>1. Spec => []TypeInv
    BY InitTyped, TypeStep, PTL DEF Spec
  <1>2. TypeInv => TypeOK
    BY DEF TypeInv
  <1> QED
    BY <1>1, <1>2, PTL

-----------------------------------------------------------------------------
\* No occurrence is evaluated twice.

\* An evaluation is started from a Job that has just been recorded, and a
\* Job that is not yet started has none behind it.
OneRun ==
    /\ pc = "start" => job[slot] = "created"
    /\ \A o \in Oids : job[o] \in {"none", "created"} => runs[o] = 0
    /\ \A o \in Oids : runs[o] <= 1

\* Steps that neither touch Jobs nor reach the start of one.
LEMMA RunsUntouched ==
    ASSUME OneRun, UNCHANGED <<job, runs>>,
           pc' # "start" \/ (pc' = pc /\ slot' = slot)
    PROVE  OneRun'
  BY DEF OneRun

\* No answer, lost or not, leads to the start of a Job unless it was asked to.
LEMMA NotToStart ==
    ASSUME pc \in RowPcs \cup {"row", "recover", "recover-block", "recover-caught"},
           NEW next, next # "start", Reply(next)
    PROVE  pc' # "start"
  BY DEF Reply, Acked, Thrown, Handler, Processing, Dispatching, RowWide, RowPcs

\* release-owned-settled! starts nothing.
LEMMA ReleaseRuns ==
    ASSUME OneRun, Release PROVE OneRun'
  <1>1. UNCHANGED <<job, runs>>
    BY DEF Release, FileOutput, FileOutputTx, MarkProcessed, RejectFrozen, PostResult,
           SkipPost, MarkAnnounced, Rethrow, RecordFailure, RefuseFailure, ReleaseSlot,
           workVars
  <1>2. pc' # "start"
    BY NotToStart DEF Release, FileOutput, MarkProcessed, RejectFrozen, PostResult,
           SkipPost, MarkAnnounced, Rethrow, RecordFailure, RefuseFailure, ReleaseSlot,
           RowPcs, Acked
  <1> QED
    BY <1>1, <1>2, RunsUntouched

\* owned-dispatch! starts only the Job it has just recorded.
LEMMA DispatchRuns ==
    ASSUME TypeInv, OneRun, Dispatch PROVE OneRun'
  <1>0. WorkTypeOK
    BY DEF TypeInv, TypeOK
  <1>1. CASE RecordJob
    <2>1. slot \in Oids /\ slot' = slot
      BY <1>1 DEF RecordJob, TypeInv, Located, SlotPcs, RowPcs, serviceVars
    <2>2. /\ job[slot] = "none" /\ job' = [job EXCEPT ![slot] = "created"]
          /\ runs' = runs
      BY <1>1 DEF RecordJob, RecordJobTx
    <2> QED
      BY <1>0, <2>1, <2>2 DEF OneRun, WorkTypeOK
  <1>2. CASE StartWork
    <2>1. slot \in Oids /\ job[slot] = "created" /\ runs[slot] = 0
      BY <1>2 DEF StartWork, OneRun, TypeInv, Located, SlotPcs, RowPcs
    <2>2. /\ job' = [job EXCEPT ![slot] = "running"]
          /\ runs' = [runs EXCEPT ![slot] = @ + 1]
      BY <1>2 DEF StartWork, StartEvaluation
    <2>3. pc' # "start"
      BY <1>2, NotToStart DEF StartWork, RowPcs
    <2> QED
      BY <1>0, <2>1, <2>2, <2>3 DEF OneRun, WorkTypeOK
  <1>3. CASE ClaimRequest
    BY <1>3, RunsUntouched, NotToStart DEF ClaimRequest, ClaimRequestTx, RowPcs
  <1>4. CASE Look \/ AlreadySkipped
    BY <1>4, RunsUntouched DEF Look, AlreadySkipped, Acked, workVars
  <1>5. CASE ClaimDue \/ RetainInput \/ LinkSubmitted \/ LinkInterrupted
             \/ BlockInterrupted \/ InterruptUnclaimed \/ Hold
    BY <1>5, RunsUntouched, NotToStart
    DEF ClaimDue, RetainInput, LinkSubmitted, LinkInterrupted, BlockInterrupted,
        InterruptUnclaimed, Hold, workVars, RowPcs
  <1>6. CASE Admit
    <2>1. pc' # "start"
      <3> DEFINE next == IF ~Admissible(at, slot) THEN "row"
                         ELSE IF Selects(at) THEN "select" ELSE "submit"
      <3>1. next # "start" /\ pc = "admit" /\ Reply(next)
        BY <1>6 DEF Admit
      <3> HIDE DEF next
      <3> QED
        BY <3>1, NotToStart DEF RowPcs
    <2> QED
      BY <1>6, <2>1, RunsUntouched DEF Admit, workVars
  <1>7. CASE SelectInput
    <2>1. pc' # "start"
      <3>1. PICK i \in Inputs : Reply(IF SelectReason(at, i) = None THEN "retain" ELSE "row")
        BY <1>7 DEF SelectInput
      <3> DEFINE next == IF SelectReason(at, i) = None THEN "retain" ELSE "row"
      <3>2. next # "start" /\ pc = "select" /\ Reply(next)
        BY <1>7, <3>1 DEF SelectInput
      <3> HIDE DEF next
      <3> QED
        BY <3>2, NotToStart DEF RowPcs
    <2> QED
      BY <1>7, <2>1, RunsUntouched DEF SelectInput, workVars
  <1> QED
    BY <1>1, <1>2, <1>3, <1>4, <1>5, <1>6, <1>7 DEF Dispatch

\* recover-owned-in! starts nothing.
LEMMA RecoverRuns ==
    ASSUME OneRun, Recover \/ (\E o \in Oids : RecoverFault(o)) PROVE OneRun'
  <1>1. UNCHANGED <<job, runs>>
    BY DEF Recover, RecoverLinked, RecoverInterrupted, RecoverUnclaimed, RecoverFault,
           RecoverBlock, RecoverCaught, RecoverDone, workVars
  <1>2. pc' # "start"
    BY NotToStart DEF Recover, RecoverLinked, RecoverInterrupted, RecoverUnclaimed,
           RecoverFault, RecoverBlock, RecoverCaught, RecoverDone, Recovering, Reply, Acked
  <1> QED
    BY <1>1, <1>2, RunsUntouched

\* A failure starts at most the Job under construction, and ends it.
LEMMA FailuresRuns ==
    ASSUME TypeInv, OneRun, Fault \/ AbandonRequest \/ FailStart \/ Crash \/ Stop
    PROVE  OneRun'
  <1>0. WorkTypeOK
    BY DEF TypeInv, TypeOK
  <1> DEFINE Failed == pc = "start" /\ FailConstruction(slot) /\ pc' # "start"
  <1>1. CASE Failed
    <2>1. slot \in Oids /\ job[slot] = "created" /\ runs[slot] = 0
      BY <1>1 DEF OneRun, TypeInv, Located, SlotPcs, RowPcs
    <2>2. PICK started \in {0, 1} : runs' = [runs EXCEPT ![slot] = @ + started]
      BY <1>1 DEF FailConstruction
    <2>3. job' = [job EXCEPT ![slot] = "failed"]
      BY <1>1 DEF FailConstruction
    <2> QED
      BY <1>0, <1>1, <2>1, <2>2, <2>3 DEF OneRun, WorkTypeOK
  <1>2. CASE Fault
    <2>1. pc' # "start"
      BY <1>2 DEF Fault, Thrown, Handler, Processing, Dispatching, RowWide
    <2> QED
      BY <1>2, <2>1, RunsUntouched DEF Fault, workVars
  <1>3. CASE AbandonRequest
    <2>1. pc' # "start"
      BY <1>3 DEF AbandonRequest, Thrown, Handler, Processing, Dispatching, RowWide
    <2> QED
      BY <1>3, <2>1, RunsUntouched DEF AbandonRequest, InterruptRequestTx
  <1>4. CASE FailStart
    <2>1. Failed
      BY <1>4 DEF FailStart, Thrown, Handler, Processing, Dispatching, RowWide
    <2> QED
      BY <1>1, <2>1
  <1>5. CASE Crash
    BY <1>5, RunsUntouched DEF Crash, workVars
  <1>6. CASE Stop
    <2>1. pc' = "stopped"
      BY <1>6 DEF Stop
    <2>2. CASE pc = "start"
      BY <1>1, <1>6, <2>1, <2>2 DEF Stop
    <2>3. CASE pc # "start"
      BY <1>6, <2>1, <2>3, RunsUntouched DEF Stop, InterruptRequestTx, workVars
    <2> QED
      BY <2>2, <2>3
  <1> QED
    BY <1>2, <1>3, <1>4, <1>5, <1>6

\* A reboot, a restart and the end of a Job start no evaluation.
LEMMA LifecycleRuns ==
    ASSUME TypeInv, OneRun, Boot \/ Start \/ (\E o \in Oids : JobStep(o))
    PROVE  OneRun'
  <1>0. WorkTypeOK
    BY DEF TypeInv, TypeOK
  <1>1. CASE Boot
    BY <1>0, <1>1 DEF Boot, BootRecovery, OneRun, WorkTypeOK, JobStates
  <1>2. CASE Start
    BY <1>2, RunsUntouched DEF Start, workVars
  <1>3. ASSUME NEW o \in Oids, JobStep(o) PROVE OneRun'
    <2>1. UNCHANGED <<pc, slot, runs>>
      BY <1>3 DEF JobStep, FinishJob, ReturnJob, serviceVars
    <2>2. CASE ReturnJob(o)
      BY <2>1, <2>2, RunsUntouched DEF ReturnJob
    <2>3. CASE FinishJob(o)
      <3>1. PICK status \in Terminal : job' = [job EXCEPT ![o] = status]
        BY <2>3 DEF FinishJob
      <3>2. pc = "start" => slot \in Oids /\ slot # o
        BY <2>3 DEF FinishJob, OneRun, TypeInv, Located, SlotPcs, RowPcs
      <3> QED
        BY <1>0, <2>1, <3>1, <3>2 DEF OneRun, WorkTypeOK, Terminal
    <2> QED
      BY <1>3, <2>2, <2>3 DEF JobStep
  <1> QED
    BY <1>1, <1>2, <1>3

\* At most one evaluation per occurrence is inductive.
LEMMA OneRunStep == TypeInv /\ OneRun /\ [Next]_vars => OneRun'
  <1> SUFFICES ASSUME TypeInv, OneRun, [Next]_vars PROVE OneRun'
    OBVIOUS
  <1>1. CASE UNCHANGED vars
    BY <1>1, RunsUntouched DEF vars, workVars, serviceVars
  <1>2. CASE BeginPass \/ (\E a \in Activations : TakeRow(a)) \/ EndPass
    BY <1>2, RunsUntouched DEF BeginPass, TakeRow, Process, EndPass, Acked, workVars
  <1>3. CASE Controls
    BY <1>3, RunsUntouched DEF Controls, Pause, Inspect, Resume, RefuseResume, Answered,
                               workVars, serviceVars
  <1>4. CASE Worker
    BY <1>2, <1>4, RecoverRuns, ReleaseRuns, DispatchRuns DEF Worker
  <1>5. CASE Failures
    BY <1>5, FailuresRuns, RecoverRuns DEF Failures
  <1>6. CASE Boot \/ Start \/ \E o \in Oids : JobStep(o)
    BY <1>6, LifecycleRuns
  <1> QED
    BY <1>1, <1>3, <1>4, <1>5, <1>6 DEF Next

\* Whatever is lost, retried, crashed or recovered, an occurrence's work is
\* started at most once: submit-prepared! starts only behind record-job!, and
\* nothing admits an occurrence again.
THEOREM NeverRunTwice == Spec => []AtMostOneRun
  <1>1. Init => OneRun
    BY DEF Init, WorkInit, OneRun
  <1>2. TypeInv /\ OneRun => AtMostOneRun
    BY DEF OneRun, AtMostOneRun
  <1>3. Spec => [](TypeInv /\ OneRun)
    BY InitTyped, TypeStep, <1>1, OneRunStep, PTL DEF Spec
  <1> QED
    BY <1>2, <1>3, PTL

-----------------------------------------------------------------------------
\* A withdrawn occurrence never runs.

\* An occurrence has a request only once it was admitted, a Job only once it
\* has a request, and lies before the cursor as soon as it exists.
Untouched ==
    /\ \A o \in Oids : state[o] \in {"absent", "pending", "skipped"} => request[o] = "none"
    /\ \A o \in Oids : request[o] = "none" => job[o] = "none"
    /\ \A o \in Oids : state[o] # "absent" => o[2] < nextFire[o[1]]

\* Between admission and the claim of the request there is no request: the
\* evidence is selected, and may withdraw the occurrence, only then.
BeforeClaim == pc \in {"select", "retain", "submit"} => request[slot] = "none"

\* Steps of the journal: a request is claimed only for an admitted occurrence.
LEMMA JournalUntouched ==
    ASSUME WorkTypeOK, Untouched, UNCHANGED <<state, nextFire>>, NEW o \in Oids,
           \/ ClaimRequestTx(o) /\ state[o] = "admitting"
           \/ RecordJobTx(o) \/ InterruptRequestTx(o) \/ FileOutputTx(o)
           \/ FinishJob(o) \/ ReturnJob(o) \/ BootRecovery
           \/ (StartEvaluation(o) \/ FailConstruction(o)) /\ job[o] = "created"
           \/ UNCHANGED workVars
    PROVE  Untouched'
  BY DEF WorkTypeOK, Untouched, ClaimRequestTx, RecordJobTx, InterruptRequestTx, FileOutputTx,
         FinishJob, ReturnJob, BootRecovery, StartEvaluation, FailConstruction, workVars

\* Steps of the outbox other than a new slot: they move an occurrence that
\* exists, and withdraw one only while it has no request.
LEMMA OutboxUntouched ==
    ASSUME OutboxTypeOK, Untouched, UNCHANGED <<request, job, nextFire>>, NEW o \in Oids,
           \/ state' = state
           \/ state[o] # "absent" /\ \E s \in {"admitting", "linked", "interrupted"} :
                 state' = [state EXCEPT ![o] = s]
           \/ state[o] # "absent" /\ request[o] = "none" /\ \E s \in {"pending", "skipped"} :
                 state' = [state EXCEPT ![o] = s]
    PROVE  Untouched'
  BY DEF OutboxTypeOK, Untouched

\* enabled-tx withdraws only work without a request.
LEMMA PauseUntouched ==
    ASSUME OutboxTypeOK, Untouched, UNCHANGED workVars, NEW a \in Activations, PauseTx(a)
    PROVE  Untouched'
  <1>1. CASE state' = state
    BY <1>1 DEF Untouched, PauseTx, workVars
  <1>2. CASE state' # state
    <2>1. /\ active[a] \in Oids /\ state[active[a]] = "pending"
          /\ state' = [state EXCEPT ![active[a]] = "skipped"]
      BY <1>2 DEF PauseTx, OutboxTypeOK
    <2>2. request[active[a]] = "none" /\ UNCHANGED <<request, job, nextFire>>
      BY <2>1 DEF Untouched, PauseTx, workVars
    <2> QED
      BY <2>1, <2>2, OutboxUntouched
  <1> QED
    BY <1>1, <1>2

\* due-tx: the slot claimed lies at or after the cursor, so it is new.
LEMMA DueUntouched ==
    ASSUME OutboxTypeOK, Untouched, UNCHANGED workVars,
           NEW a \in Activations, now \in Slots, DueTx(a, now)
    PROVE  Untouched'
  <1> DEFINE d == DueOid(a, now)
             next == IntervalSlot(Interval, nextFire[a], now).next
  <1>1. CASE ~IsDue(a, now)
    BY <1>1 DEF DueTx, Untouched, outboxVars, activationVars, occurrenceVars, workVars
  <1>2. CASE IsDue(a, now)
    <2>1. /\ d \in Oids /\ d[1] = a /\ nextFire[a] <= d[2] /\ d[2] < next /\ next \in Nat
      BY <1>2, DueSlotTyped
    <2>2. nextFire \in [Activations -> Nat] /\ d[2] \in Nat
      BY <2>1, IdsAssumption DEF OutboxTypeOK, Oids, Slots
    <2>3. state[d] = "absent"
      BY <2>1, <2>2 DEF Untouched
    <2>4. request[d] = "none"
      BY <2>1, <2>3 DEF Untouched
    <2>5. nextFire' = [nextFire EXCEPT ![a] = next]
      BY <1>2 DEF DueTx, QueueDue, SupersedeDue, OverlapDue, AdvanceCursor
    <2>6. \A o \in Oids : o[1] \in Activations /\ o[2] \in Nat
      BY IdsAssumption DEF Oids, Slots
    <2>7. UNCHANGED <<request, job>>
      BY DEF workVars
    <2> HIDE DEF d, next
    <2>8. \A o \in Oids : (o = d \/ o[2] < nextFire[o[1]]) => o[2] < nextFire'[o[1]]
      BY <2>1, <2>2, <2>5, <2>6
    <2>9. CASE SupersedeDue(a, now)
      <3>1. /\ active[a] \in Oids /\ state[active[a]] = "pending"
            /\ state' = [state EXCEPT ![active[a]] = "skipped", ![d] = "pending"]
        BY <2>9 DEF SupersedeDue, OutboxTypeOK, d
      <3>2. request[active[a]] = "none"
        BY <3>1 DEF Untouched
      <3>3. \A o \in Oids : o \notin {d, active[a]} => state'[o] = state[o]
        BY <2>1, <3>1 DEF OutboxTypeOK
      <3> QED
        BY <2>1, <2>4, <2>7, <2>8, <3>1, <3>2, <3>3 DEF Untouched
    <2>10. CASE QueueDue(a, now) \/ OverlapDue(a, now)
      <3>1. \A o \in Oids : o # d => state'[o] = state[o]
        BY <2>1, <2>10 DEF QueueDue, OverlapDue, OutboxTypeOK, d
      <3> QED
        BY <2>1, <2>4, <2>7, <2>8, <3>1 DEF Untouched
    <2> QED
      BY <1>2, <2>9, <2>10 DEF DueTx
  <1> QED
    BY <1>1, <1>2

\* Completing an occurrence changes no admission.
LEMMA ReleaseUntouched ==
    ASSUME TypeInv, Untouched, Release PROVE Untouched'
  <1>0. WorkTypeOK /\ OutboxTypeOK
    BY DEF TypeInv, TypeOK
  <1>1. slot \in Oids
    BY DEF Release, FileOutput, MarkProcessed, RejectFrozen, PostResult, SkipPost,
           MarkAnnounced, Rethrow, RecordFailure, RefuseFailure, ReleaseSlot,
           TypeInv, Located, SlotPcs, RowPcs
  <1>2. UNCHANGED <<state, nextFire>>
    BY DEF Release, FileOutput, MarkProcessed, RejectFrozen, PostResult, SkipPost,
           MarkAnnounced, Rethrow, RecordFailure, RefuseFailure, ReleaseSlot,
           ProcessedInputTx, BlockTx, MarkAnnouncedTx, FailTerminalTx, ClearActiveTx,
           outboxVars, activationVars, occurrenceVars
  <1>3. FileOutputTx(slot) \/ UNCHANGED workVars
    BY DEF Release, FileOutput, MarkProcessed, RejectFrozen, PostResult, SkipPost,
           MarkAnnounced, Rethrow, RecordFailure, RefuseFailure, ReleaseSlot
  <1> QED
    BY <1>0, <1>1, <1>2, <1>3, JournalUntouched

\* finish-admission! is unguarded: what makes it safe is that its callers
\* have just seen the request.
LEMMA FinishUntouched ==
    ASSUME OutboxTypeOK, Untouched, UNCHANGED workVars, NEW o \in Oids, request[o] # "none",
           NEW outcome \in {"linked", "interrupted"}, FinishAdmissionTx(o, outcome)
    PROVE  Untouched'
  <1>1. state[o] # "absent"
    BY DEF Untouched
  <1>2. UNCHANGED <<request, job, nextFire>>
    BY DEF FinishAdmissionTx, workVars, activationVars
  <1> QED
    BY <1>1, <1>2, OutboxUntouched DEF FinishAdmissionTx

\* interrupt-owned-tx writes only admissions without a request.
LEMMA InterruptUntouched ==
    ASSUME OutboxTypeOK, Untouched, UNCHANGED workVars, NEW a, NEW o \in Oids, NEW r,
           InterruptOwnedTx(a, o, r)
    PROVE  Untouched'
  <1>1. UNCHANGED <<request, job, nextFire>>
    BY DEF InterruptOwnedTx, workVars
  <1>2. CASE Owns(a, o) /\ ~pointer[o] /\ request[o] = "none"
    BY <1>1, <1>2, OutboxUntouched DEF InterruptOwnedTx, Owns
  <1>3. CASE ~(Owns(a, o) /\ ~pointer[o] /\ request[o] = "none")
    BY <1>1, <1>3, OutboxUntouched DEF InterruptOwnedTx, occurrenceVars
  <1> QED
    BY <1>2, <1>3

\* Steps that leave state and request alone.
LEMMA SameRows ==
    ASSUME OutboxTypeOK, Untouched, UNCHANGED <<workVars, state, nextFire>> PROVE Untouched'
  BY DEF Untouched, workVars

\* owned-dispatch! withdraws an occurrence only before its request exists.
LEMMA DispatchUntouched ==
    ASSUME TypeInv, OneRun, Untouched, BeforeClaim, Dispatch PROVE Untouched'
  <1> USE DEF RowPcs, SlotPcs
  <1>0. WorkTypeOK /\ OutboxTypeOK /\ now \in Slots
    BY DEF TypeInv, TypeOK
  <1>1. CASE ClaimDue
    BY <1>0, <1>1, DueUntouched DEF ClaimDue, TypeInv, Located
  <1>2. CASE Look \/ AlreadySkipped \/ BlockInterrupted \/ Hold \/ RetainInput
    BY <1>0, <1>2, SameRows
    DEF Look, AlreadySkipped, BlockInterrupted, Hold, RetainInput, BlockOwnedTx, BlockTx,
        RetainInputTx, outboxVars, activationVars, occurrenceVars
  <1>3. CASE Admit
    <2>1. slot \in Oids /\ UNCHANGED <<request, job, nextFire>>
      BY <1>3 DEF Admit, AdmitTx, TypeInv, Located, workVars, activationVars
    <2>2. state' = state \/ (state[slot] # "absent"
                              /\ state' = [state EXCEPT ![slot] = "admitting"])
      BY <1>3 DEF Admit, AdmitTx, Admissible
    <2> QED
      BY <1>0, <2>1, <2>2, OutboxUntouched
  <1>4. CASE SelectInput
    <2>1. PICK i \in Inputs : SelectInputTx(at, slot, i)
      BY <1>4 DEF SelectInput
    <2>2. slot \in Oids /\ request[slot] = "none" /\ UNCHANGED <<request, job, nextFire>>
      BY <1>4, <2>1 DEF SelectInput, SelectInputTx, BeforeClaim, TypeInv, Located, workVars
    <2>3. state' = state \/ (state[slot] # "absent"
                              /\ state' = [state EXCEPT ![slot] = "skipped"])
      BY <2>1 DEF SelectInputTx, Owns
    <2> QED
      BY <1>0, <2>2, <2>3, OutboxUntouched
  <1>5. CASE ClaimRequest
    BY <1>0, <1>5, JournalUntouched
    DEF ClaimRequest, Owns, TypeInv, Located, outboxVars, activationVars, occurrenceVars
  <1>6. CASE RecordJob
    BY <1>0, <1>6, JournalUntouched
    DEF RecordJob, TypeInv, Located, outboxVars, activationVars, occurrenceVars
  <1>7. CASE StartWork
    BY <1>0, <1>7, JournalUntouched
    DEF StartWork, OneRun, TypeInv, Located, outboxVars, activationVars, occurrenceVars
  <1>8. CASE LinkSubmitted
    BY <1>0, <1>8, FinishUntouched DEF LinkSubmitted, TypeInv, Located
  <1>9. CASE LinkInterrupted
    BY <1>0, <1>9, FinishUntouched DEF LinkInterrupted, TypeInv, Located
  <1>10. CASE InterruptUnclaimed
    BY <1>0, <1>10, InterruptUntouched DEF InterruptUnclaimed, TypeInv, Located
  <1> QED
    BY <1>1, <1>2, <1>3, <1>4, <1>5, <1>6, <1>7, <1>8, <1>9, <1>10 DEF Dispatch

\* recover-owned-in! withdraws nothing.
LEMMA RecoverUntouched ==
    ASSUME TypeInv, Untouched, Recover \/ (\E o \in Oids : RecoverFault(o))
    PROVE  Untouched'
  <1>0. OutboxTypeOK
    BY DEF TypeInv, TypeOK
  <1>1. ASSUME NEW o \in Oids, RecoverLinked(o) \/ RecoverInterrupted(o) PROVE Untouched'
    BY <1>0, <1>1, FinishUntouched DEF RecoverLinked, RecoverInterrupted
  <1>2. ASSUME NEW o \in Oids, RecoverUnclaimed(o) PROVE Untouched'
    BY <1>0, <1>2, InterruptUntouched DEF RecoverUnclaimed
  <1>3. CASE RecoverCaught
    BY <1>0, <1>3, InterruptUntouched DEF RecoverCaught, TypeInv, Located, SlotPcs
  <1>4. CASE RecoverBlock \/ RecoverDone \/ \E o \in Oids : RecoverFault(o)
    BY <1>0, <1>4, SameRows
    DEF RecoverBlock, RecoverDone, RecoverFault, BlockTx, outboxVars, activationVars,
        occurrenceVars
  <1> QED
    BY <1>1, <1>2, <1>3, <1>4 DEF Recover

\* A failure creates no request for withdrawn work.
LEMMA FailuresUntouched ==
    ASSUME TypeInv, OneRun, Untouched,
           Fault \/ AbandonRequest \/ FailStart \/ Crash \/ Stop
    PROVE  Untouched'
  <1>0. WorkTypeOK /\ OutboxTypeOK
    BY DEF TypeInv, TypeOK
  <1>1. UNCHANGED <<state, nextFire>>
    BY DEF Fault, AbandonRequest, FailStart, Crash, Stop, outboxVars, activationVars,
           occurrenceVars
  <1>2. CASE UNCHANGED workVars
    BY <1>0, <1>1, <1>2, SameRows
  <1>3. CASE ~UNCHANGED workVars
    <2>1. pc \in {"job", "start"} /\ slot \in Oids
      BY <1>3 DEF Fault, AbandonRequest, FailStart, Crash, Stop, TypeInv, Located, SlotPcs,
                  RowPcs
    <2>2. \/ InterruptRequestTx(slot)
          \/ FailConstruction(slot) /\ job[slot] = "created"
      BY <1>3 DEF Fault, AbandonRequest, FailStart, Crash, Stop, OneRun
    <2> QED
      BY <1>0, <1>1, <2>1, <2>2, JournalUntouched
  <1> QED
    BY <1>2, <1>3

\* Work without a request stays untouched: inductive.
LEMMA UntouchedStep ==
    TypeInv /\ OneRun /\ Untouched /\ BeforeClaim /\ [Next]_vars => Untouched'
  <1> SUFFICES ASSUME TypeInv, OneRun, Untouched, BeforeClaim, [Next]_vars PROVE Untouched'
    OBVIOUS
  <1>0. WorkTypeOK /\ OutboxTypeOK
    BY DEF TypeInv, TypeOK
  <1>1. CASE UNCHANGED vars
    BY <1>0, <1>1, SameRows DEF vars, outboxVars, activationVars, occurrenceVars
  <1>2. CASE BeginPass \/ (\E a \in Activations : TakeRow(a)) \/ EndPass \/ Start
    BY <1>0, <1>2, SameRows
    DEF BeginPass, TakeRow, EndPass, Start, outboxVars, activationVars, occurrenceVars
  <1>3. CASE Controls
    <2>1. ASSUME NEW a \in Activations, Pause(a) PROVE Untouched'
      BY <1>0, <2>1, PauseUntouched DEF Pause
    <2>2. CASE \/ \E h \in Humans, a \in Activations : Inspect(h, a)
               \/ \E h \in Humans : Resume(h) \/ RefuseResume(h)
      BY <1>0, <2>2, SameRows
      DEF Inspect, Resume, RefuseResume, Answered, ResumeTx, outboxVars, activationVars,
          occurrenceVars
    <2> QED
      BY <1>3, <2>1, <2>2 DEF Controls
  <1>4. CASE Worker
    BY <1>2, <1>4, RecoverUntouched, ReleaseUntouched, DispatchUntouched DEF Worker
  <1>5. CASE Failures
    BY <1>5, FailuresUntouched, RecoverUntouched DEF Failures
  <1>6. CASE Boot
    <2>1. UNCHANGED <<state, nextFire>> /\ BootRecovery
      BY <1>6 DEF Boot, outboxVars, activationVars, occurrenceVars
    <2> QED
      BY <1>0, <2>1 DEF BootRecovery, Untouched, WorkTypeOK
  <1>7. ASSUME NEW o \in Oids, JobStep(o) PROVE Untouched'
    BY <1>0, <1>7, JournalUntouched
    DEF JobStep, outboxVars, activationVars, occurrenceVars
  <1> QED
    BY <1>1, <1>2, <1>3, <1>4, <1>5, <1>6, <1>7 DEF Next

\* Where a call that answers, or is lost, can take the worker.
LEMMA ReplyTarget ==
    ASSUME NEW next, Reply(next)
    PROVE  pc' \in {"select", "retain", "submit"} => pc' = next
  BY DEF Reply, Acked, Thrown, Handler, Processing, Dispatching, RowWide

\* owned-dispatch! reaches the claim only with a fresh admission.
LEMMA DispatchBeforeClaim ==
    ASSUME BeforeClaim, Dispatch PROVE BeforeClaim'
  <1>1. CASE Admit
    BY <1>1 DEF Admit, BeforeClaim, workVars, serviceVars
  <1>2. CASE SelectInput \/ RetainInput
    BY <1>2 DEF SelectInput, RetainInput, BeforeClaim, workVars, serviceVars
  <1>3. CASE ClaimDue \/ StartWork \/ LinkSubmitted \/ LinkInterrupted
             \/ BlockInterrupted \/ InterruptUnclaimed \/ Hold \/ ClaimRequest
    BY <1>3, ReplyTarget
    DEF ClaimDue, StartWork, LinkSubmitted, LinkInterrupted, BlockInterrupted,
        InterruptUnclaimed, Hold, ClaimRequest, BeforeClaim
  <1>4. CASE Look \/ RecordJob \/ AlreadySkipped
    BY <1>4 DEF Look, RecordJob, AlreadySkipped, Acked, BeforeClaim
  <1> QED
    BY <1>1, <1>2, <1>3, <1>4 DEF Dispatch

\* release-owned-settled! never continues inside owned-dispatch!.
LEMMA ReleaseBeforeClaim ==
    ASSUME Release PROVE BeforeClaim'
  <1>1. CASE FileOutput \/ MarkProcessed \/ RejectFrozen \/ PostResult \/ MarkAnnounced
             \/ RecordFailure \/ ReleaseSlot
    BY <1>1, ReplyTarget
    DEF FileOutput, MarkProcessed, RejectFrozen, PostResult, MarkAnnounced, RecordFailure,
        ReleaseSlot, BeforeClaim
  <1>2. CASE SkipPost \/ Rethrow \/ RefuseFailure
    BY <1>2 DEF SkipPost, Rethrow, RefuseFailure, Acked, BeforeClaim
  <1> QED
    BY <1>1, <1>2 DEF Release

\* recover-owned-in! never continues inside owned-dispatch!.
LEMMA RecoverBeforeClaim ==
    ASSUME Recover \/ (\E o \in Oids : RecoverFault(o)) PROVE BeforeClaim'
  <1>1. CASE RecoverDone
    BY <1>1 DEF RecoverDone, Acked, BeforeClaim
  <1>2. CASE ~RecoverDone
    <2>1. PICK next \in {"recover", "recover-block"} : Reply(next)
      BY <1>2 DEF Recover, RecoverLinked, RecoverInterrupted, RecoverUnclaimed, RecoverFault,
                  RecoverBlock, RecoverCaught, Reply
    <2> QED
      BY <2>1, ReplyTarget DEF BeforeClaim
  <1> QED
    BY <1>1, <1>2

\* Before its claim, the occurrence in hand has no request: inductive.
LEMMA BeforeClaimStep == TypeInv /\ BeforeClaim /\ [Next]_vars => BeforeClaim'
  <1> SUFFICES ASSUME TypeInv, BeforeClaim, [Next]_vars PROVE BeforeClaim'
    OBVIOUS
  <1>1. CASE UNCHANGED vars
    BY <1>1 DEF vars, workVars, serviceVars, BeforeClaim
  <1>2. CASE Worker
    <2>1. CASE BeginPass \/ (\E a \in Activations : TakeRow(a)) \/ EndPass
      BY <2>1 DEF BeginPass, TakeRow, Process, EndPass, Acked, BeforeClaim
    <2> QED
      BY <1>2, <2>1, RecoverBeforeClaim, ReleaseBeforeClaim, DispatchBeforeClaim DEF Worker
  <1>3. CASE Failures
    <2>1. CASE Fault \/ AbandonRequest \/ FailStart
      <3>1. Reply("stopped")
        BY <2>1 DEF Fault, AbandonRequest, FailStart, Reply
      <3> QED
        BY <3>1, ReplyTarget DEF BeforeClaim
    <2>2. CASE Crash \/ Stop
      BY <2>2 DEF Crash, Stop, BeforeClaim
    <2> QED
      BY <1>3, <2>1, <2>2, RecoverBeforeClaim DEF Failures
  <1>4. CASE Controls
    BY <1>4 DEF Controls, Pause, Inspect, Resume, RefuseResume, Answered, workVars,
                serviceVars, BeforeClaim
  <1>5. CASE Boot \/ Start
    BY <1>5 DEF Boot, Start, BeforeClaim
  <1>6. ASSUME NEW o \in Oids, JobStep(o) PROVE BeforeClaim'
    BY <1>6 DEF JobStep, FinishJob, ReturnJob, serviceVars, BeforeClaim
  <1> QED
    BY <1>1, <1>2, <1>3, <1>4, <1>5, <1>6 DEF Next

\* What due-tx, enabled-tx or select-input-tx withdrew has no request and
\* never ran, in whatever order controls, failures and passes interleave.
THEOREM SkippedStaysUnrun == Spec => []WithdrawnNeverRuns
  <1>1. Init => OneRun /\ Untouched /\ BeforeClaim
    BY DEF Init, WorkInit, OutboxInit, OneRun, Untouched, BeforeClaim
  <1>2. TypeInv /\ OneRun /\ Untouched => WithdrawnNeverRuns
    BY DEF OneRun, Untouched, WithdrawnNeverRuns
  <1>3. Spec => [](TypeInv /\ OneRun /\ Untouched /\ BeforeClaim)
    BY InitTyped, TypeStep, <1>1, OneRunStep, UntouchedStep, BeforeClaimStep, PTL DEF Spec
  <1> QED
    BY <1>2, <1>3, PTL
=============================================================================
