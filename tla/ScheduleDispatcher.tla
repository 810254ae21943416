------------------------- MODULE ScheduleDispatcher -------------------------
(***************************************************************************)
(* The owned dispatcher: one worker that recovers the outbox, then runs    *)
(* passes over the activations (ops/workflow_schedules.clj, tick-owned-in! *)
(* and recover-owned-in!; runtimes/workflow_schedules.clj).  Every store   *)
(* call is a step of its own.  A call may fail before or after its effect  *)
(* (a lost acknowledgement): the step then continues in the handler the    *)
(* code has for it.  Humans and Jobs act between any two steps.            *)
(***************************************************************************)
EXTENDS ScheduleOutbox, FiniteSets

CONSTANTS
    Humans,         \* People at the pause and resume controls.
    MaxFaults,      \* Bound on failed calls, crashes and stops.
    MaxControls     \* Bound on human pauses and resumes.

ASSUME DispatcherAssumption ==
    /\ None \notin Activations
    /\ MaxFaults \in Nat
    /\ MaxControls \in Nat

VARIABLES
    pc,             \* What the worker does next.
    now,            \* The time of the current or last pass.
    todo,           \* Activations the pass has yet to visit.
    uncertain,      \* Occurrences recovery has yet to visit.
    at, slot,       \* Activation and occurrence in hand.
    snap,           \* The rows as the pass read them at its start.
    failing,        \* Processing the completion failed; rethrown later.
    posted,         \* Room log: the occurrence's completion message.
    inspected,      \* Per human: the row a pending resume was decided on.
    faults, controls,
    resumedInPass,  \* History: activations resumed since the pass began.
    overtaken       \* History: humans whose inspection a failure overtook.

serviceVars == <<now, todo, uncertain, at, slot, snap>>
controlVars == <<inspected, controls, resumedInPass, overtaken>>
vars == <<workVars, outboxVars, serviceVars, controlVars, pc, failing, posted, faults>>

Up == {"stopped", "recover", "recover-caught", "recover-block", "idle", "row",
       "file", "mark", "reject", "post", "announce", "settle", "claim", "look",
       "admit", "select", "retain", "submit", "job", "start", "reread",
       "caught", "block", "hold"}

Inspections == [activation : Activations, row : Rows]

\* Every variable keeps its domain: the store's attributes, the worker's
\* position in recover-owned-in! or tick-owned-in!, and the human controls.
TypeOK ==
    /\ WorkTypeOK /\ OutboxTypeOK
    /\ pc \in Up \cup {"down"}
    /\ now \in Slots
    /\ todo \in SUBSET Activations
    /\ uncertain \in SUBSET Oids
    /\ at \in Activations \cup {None}
    /\ slot \in Oids \cup {None}
    /\ snap \in [Activations -> Rows \cup {None}]
    /\ failing \in BOOLEAN
    /\ posted \in [Oids -> BOOLEAN]
    /\ inspected \in [Humans -> Inspections \cup {None}]
    /\ faults \in Nat /\ controls \in Nat
    /\ resumedInPass \in SUBSET Activations
    /\ overtaken \in SUBSET Humans

NoRows == [a \in Activations |-> None]

Init ==
    /\ WorkInit /\ OutboxInit
    /\ pc = "stopped" /\ now = 0
    /\ todo = {} /\ uncertain = {}
    /\ at = None /\ slot = None /\ snap = NoRows
    /\ failing = FALSE
    /\ posted = [o \in Oids |-> FALSE]
    /\ inspected = [h \in Humans |-> None]
    /\ faults = 0 /\ controls = 0
    /\ resumedInPass = {} /\ overtaken = {}

-----------------------------------------------------------------------------
\* Control flow: where an exception takes the worker.

\* process-input!, whose error is kept until the result is announced.
Processing == {"file", "mark", "reject"}

\* The try of owned-dispatch!, entered by a positive admission.
Dispatching == {"select", "retain", "submit", "job", "start", "reread"}

\* Everything else a pass does for one row is under tick-owned-in!'s catch.
RowWide == {"post", "announce", "settle", "claim", "look", "admit", "caught", "block"}

\* Mutant: starting the work is retried when its answer is lost.
HandlerRetries(here) ==
    CASE here \in Processing  -> "post"
      [] here = "start"       -> "start"
      [] here \in Dispatching -> "caught"
      [] here \in RowWide     -> "hold"
      [] here \in {"recover", "recover-block"} -> "recover-caught"
      [] OTHER                -> "stopped"

Handler(here) ==
    CASE here \in Processing  -> "post"
      [] here \in Dispatching -> "caught"
      [] here \in RowWide     -> "hold"
      [] here \in {"recover", "recover-block"} -> "recover-caught"
      [] OTHER                -> "stopped"

Acked(next) ==
    /\ pc' = next
    /\ UNCHANGED <<failing, faults>>

Thrown ==
    /\ faults < MaxFaults
    /\ faults' = faults + 1
    /\ pc' = Handler(pc)
    /\ failing' = (failing \/ pc \in Processing)

\* A call whose effect is committed: its answer arrives, or is lost.
Reply(next) == Acked(next) \/ Thrown

\* A call, or any check before it, fails without effect.  A failure at
\* "start" is FailStart, one at "recover" needs an occurrence.
Fault ==
    /\ pc \notin {"down", "stopped", "idle", "start", "recover"}
    /\ Thrown
    /\ UNCHANGED <<workVars, outboxVars, serviceVars, controlVars, posted>>

-----------------------------------------------------------------------------
\* Process and service lifecycle.

Forget ==
    /\ todo' = {} /\ uncertain' = {}
    /\ at' = None /\ slot' = None /\ snap' = NoRows
    /\ failing' = FALSE

Crash ==
    /\ pc # "down" /\ faults < MaxFaults
    /\ faults' = faults + 1
    /\ pc' = "down"
    /\ Forget
    /\ inspected' = [h \in Humans |-> None]
    /\ resumedInPass' = {} /\ overtaken' = {}
    /\ UNCHANGED <<workVars, outboxVars, now, posted, controls>>

\* Canonical orphan and request recovery precede the scheduler.
Boot ==
    /\ pc = "down"
    /\ BootRecovery
    /\ pc' = "stopped"
    /\ UNCHANGED <<outboxVars, serviceVars, controlVars, failing, posted, faults>>

\* stop!: interrupt and join the worker.  An interruption is never handled
\* as a failed call; only an open admission still interrupts its request or
\* fails its half-constructed Job.
Stop ==
    /\ pc \notin {"down", "stopped"} /\ faults < MaxFaults
    /\ faults' = faults + 1
    /\ pc' = "stopped"
    /\ CASE pc = "job"   -> InterruptRequestTx(slot) \/ UNCHANGED workVars
         [] pc = "start" -> FailConstruction(slot)
         [] OTHER        -> UNCHANGED workVars
    /\ Forget
    /\ UNCHANGED <<outboxVars, now, controlVars, posted>>

\* start-owned!: the worker begins with recovery.
Start ==
    /\ pc = "stopped"
    /\ pc' = "recover"
    /\ uncertain' = {o \in Oids : state[o] = "admitting"}
    /\ todo' = {} /\ at' = None /\ slot' = None /\ snap' = NoRows
    /\ failing' = FALSE
    /\ UNCHANGED <<workVars, outboxVars, now, controlVars, posted, faults>>

-----------------------------------------------------------------------------
\* recover-owned-in!: an admission of the previous dispatcher is linked to
\* the request it left, or interrupted.  It is never admitted again.

Recovering(o) ==
    /\ pc = "recover" /\ o \in uncertain
    /\ uncertain' = uncertain \ {o}
    /\ at' = o[1] /\ slot' = o
    /\ UNCHANGED <<now, todo, snap, controlVars, posted>>

RecoverLinked(o) ==
    /\ Recovering(o)
    /\ request[o] = "submitted"
    /\ FinishAdmissionTx(o, "linked")
    /\ Reply("recover")
    /\ UNCHANGED workVars

RecoverInterrupted(o) ==
    /\ Recovering(o)
    /\ request[o] \in {"admitting", "interrupted"}
    /\ FinishAdmissionTx(o, "interrupted")
    /\ Reply("recover-block")
    /\ UNCHANGED workVars

RecoverUnclaimed(o) ==
    /\ Recovering(o)
    /\ request[o] = "none"
    /\ InterruptOwnedTx(o[1], o, "restart")
    /\ Reply("recover")
    /\ UNCHANGED workVars

RecoverFault(o) ==
    /\ Recovering(o)
    /\ Thrown
    /\ UNCHANGED <<workVars, outboxVars>>

RecoverBlock ==
    /\ pc = "recover-block"
    /\ BlockTx(at, "interrupted")
    /\ Reply("recover")
    /\ UNCHANGED <<workVars, serviceVars, controlVars, posted>>

RecoverCaught ==
    /\ pc = "recover-caught"
    /\ InterruptOwnedTx(at, slot, "owned-dispatch-unavailable")
    /\ Reply("recover")
    /\ UNCHANGED <<workVars, serviceVars, controlVars, posted>>

RecoverDone ==
    /\ pc = "recover" /\ uncertain = {}
    /\ at' = None /\ slot' = None
    /\ Acked("idle")
    /\ UNCHANGED <<workVars, outboxVars, now, todo, uncertain, snap, controlVars, posted>>

-----------------------------------------------------------------------------
\* tick-owned-in!: one pass.

BeginPass ==
    /\ pc = "idle"
    /\ \E t \in now..MaxTime : now' = t
    /\ todo' = Activations
    /\ snap' = [a \in Activations |-> Row(a)]
    /\ resumedInPass' = {}
    /\ Acked("row")
    /\ UNCHANGED <<workVars, outboxVars, uncertain, at, slot, inspected, controls,
                   overtaken, posted>>

\* Mutant: a paused schedule is not visited at all.
ReleasableEnabled(o) ==
    o # None /\ state[o] = "linked" /\ Settled(o) /\ enabled[o[1]]

\* release-owned-work-settled!: the row's occurrence is linked and its
\* request returned.
Releasable(o) == o # None /\ state[o] = "linked" /\ Settled(o)

\* Mutant: a returned Job counts as a passed candidate.
ProcessUncertified(a, o) ==
    CASE Kind[a] = "live"   /\ job[o] \in {"completed", "rejected"} -> "file"
      [] Kind[a] = "frozen" /\ job[o] \in {"completed", "rejected"} -> "mark"
      [] OTHER -> "post"

\* process-input!: what a settled Job asks for before it is announced.
\* Failures of the Job or of live evidence wait until after.
Process(a, o) ==
    CASE Kind[a] = "live"   /\ job[o] = "completed" -> "file"
      [] Kind[a] = "frozen" /\ job[o] = "completed" -> "mark"
      [] Kind[a] = "frozen" /\ job[o] = "rejected"  -> "reject"
      [] OTHER -> "post"

TakeRow(a) ==
    /\ pc = "row" /\ a \in todo
    /\ todo' = todo \ {a}
    /\ at' = a
    /\ failing' = FALSE
    /\ LET o == snap[a].active
       IN  IF Releasable(o)
           THEN slot' = o /\ pc' = Process(a, o)
           ELSE slot' = None /\ pc' = "claim"
    /\ UNCHANGED <<workVars, outboxVars, now, uncertain, snap, controlVars, posted, faults>>

EndPass ==
    /\ pc = "row" /\ todo = {}
    /\ pc' = "idle"
    /\ Forget
    /\ UNCHANGED <<workVars, outboxVars, now, controlVars, posted, faults>>

\* file-input!, first half: the request's filing receipt.
FileOutput ==
    /\ pc = "file"
    /\ FileOutputTx(slot)
    /\ Reply("mark")
    /\ UNCHANGED <<outboxVars, serviceVars, controlVars, posted>>

MarkProcessed ==
    /\ pc = "mark"
    /\ ProcessedInputTx(at, slot)
    /\ Reply("post")
    /\ UNCHANGED <<workVars, serviceVars, controlVars, posted>>

\* A frozen candidate without a passing certificate only holds the schedule.
RejectFrozen ==
    /\ pc = "reject"
    /\ BlockTx(at, "execution-failed")
    /\ Reply("post")
    /\ UNCHANGED <<workVars, serviceVars, controlVars, posted>>

\* publish-completion-target!: post under a reserved id, then remember it.
PostResult ==
    /\ pc = "post" /\ ~announced[slot]
    /\ posted' = [posted EXCEPT ![slot] = TRUE]
    /\ Reply("announce")
    /\ UNCHANGED <<workVars, outboxVars, serviceVars, controlVars>>

SkipPost ==
    /\ pc = "post" /\ announced[slot]
    /\ Acked("settle")
    /\ UNCHANGED <<workVars, outboxVars, serviceVars, controlVars, posted>>

MarkAnnounced ==
    /\ pc = "announce"
    /\ MarkAnnouncedTx(slot)
    /\ Reply("settle")
    /\ UNCHANGED <<workVars, serviceVars, controlVars, posted>>

\* After the announcement: rethrow a processing error, record a terminal
\* failure, or release the slot.
TerminalFailure(a, o) ==
    /\ Selects(a)
    /\ job[o] = "failed" \/ (job[o] = "rejected" /\ Kind[a] = "live")

Rethrow ==
    /\ pc = "settle" /\ failing
    /\ pc' = "hold"
    /\ UNCHANGED <<workVars, outboxVars, serviceVars, controlVars, failing, posted, faults>>

Overtaken(a) == {h \in Humans : inspected[h] # None /\ inspected[h].activation = a}

RecordFailure ==
    /\ pc = "settle" /\ ~failing /\ TerminalFailure(at, slot)
    /\ FailTerminalTx(at, slot, snap[at],
                      IF job[slot] = "failed" THEN "job" ELSE "candidate")
    /\ overtaken' = overtaken \cup Overtaken(at)
    /\ Reply("claim")
    /\ UNCHANGED <<workVars, serviceVars, inspected, controls, resumedInPass, posted>>

\* A human changed the row since the pass read it: the writer refuses.
RefuseFailure ==
    /\ pc = "settle" /\ ~failing /\ TerminalFailure(at, slot)
    /\ ~FailureCurrent(at, slot, snap[at])
    /\ pc' = "hold"
    /\ UNCHANGED <<workVars, outboxVars, serviceVars, controlVars, failing, posted, faults>>

ReleaseSlot ==
    /\ pc = "settle" /\ ~failing /\ ~TerminalFailure(at, slot)
    /\ ClearActiveTx(at, slot)
    /\ Reply("claim")
    /\ UNCHANGED <<workVars, serviceVars, controlVars, posted>>

-----------------------------------------------------------------------------
\* claim-due!, then owned-dispatch! of a pending occurrence.

\* Mutant: only a slot claimed in this very pass is dispatched.
ClaimDueOnlyNew ==
    /\ pc = "claim"
    /\ DueTx(at, now)
    /\ Reply(IF IsDue(at, now) THEN "look" ELSE "row")
    /\ UNCHANGED <<workVars, serviceVars, controlVars, posted>>

ClaimDue ==
    /\ pc = "claim"
    /\ DueTx(at, now)
    /\ Reply("look")
    /\ UNCHANGED <<workVars, serviceVars, controlVars, posted>>

Look ==
    /\ pc = "look"
    /\ slot' = active[at]
    /\ IF active[at] # None /\ state[active[at]] = "pending"
       THEN Acked("admit")
       ELSE Acked("row")
    /\ UNCHANGED <<workVars, outboxVars, now, todo, uncertain, at, snap, controlVars, posted>>

\* owned-dispatch!: pause may have withdrawn the slot since it was read.
Admit ==
    /\ pc = "admit"
    /\ request[slot] = "none" /\ ~retained[slot]
    /\ AdmitTx(at, slot)
    /\ Reply(IF ~Admissible(at, slot) THEN "row"
             ELSE IF Selects(at) THEN "select" ELSE "submit")
    /\ UNCHANGED <<workVars, serviceVars, controlVars, posted>>

SelectInput ==
    /\ pc = "select"
    /\ \E i \in Inputs :
          /\ SelectInputTx(at, slot, i)
          /\ Reply(IF SelectReason(at, i) = None THEN "retain" ELSE "row")
    /\ UNCHANGED <<workVars, serviceVars, controlVars, posted>>

RetainInput ==
    /\ pc = "retain"
    /\ RetainInputTx(at, slot)
    /\ Reply("submit")
    /\ UNCHANGED <<workVars, serviceVars, controlVars, posted>>

\* owned-submit!: the claim must still hold; then the request is claimed,
\* its Job recorded and only then the evaluation started.
ClaimRequest ==
    /\ pc = "submit"
    /\ Owns(at, slot)
    /\ ClaimRequestTx(slot)
    /\ Reply("job")
    /\ UNCHANGED <<outboxVars, serviceVars, controlVars, posted>>

RecordJob ==
    /\ pc = "job"
    /\ RecordJobTx(slot)
    /\ Acked("start")
    /\ UNCHANGED <<outboxVars, serviceVars, controlVars, posted>>

AbandonRequest ==
    /\ pc = "job"
    /\ InterruptRequestTx(slot)
    /\ Thrown
    /\ UNCHANGED <<outboxVars, serviceVars, controlVars, posted>>

StartWork ==
    /\ pc = "start"
    /\ StartEvaluation(slot)
    /\ Reply("reread")
    /\ UNCHANGED <<outboxVars, serviceVars, controlVars, posted>>

FailStart ==
    /\ pc = "start"
    /\ FailConstruction(slot)
    /\ Thrown
    /\ UNCHANGED <<outboxVars, serviceVars, controlVars, posted>>

\* owned-link!, after submission or in the handler of a failed one: the
\* request, not the answer of submit-prepared!, decides.
LinkSubmitted ==
    /\ pc \in {"reread", "caught"} /\ state[slot] # "skipped"
    /\ request[slot] = "submitted"
    /\ FinishAdmissionTx(slot, "linked")
    /\ Reply("row")
    /\ UNCHANGED <<workVars, serviceVars, controlVars, posted>>

\* Mutant: the handler takes a lost answer for a failed submission.
LinkInterruptedBlindly ==
    /\ pc = "caught" /\ state[slot] # "skipped"
    /\ request[slot] # "none"
    /\ FinishAdmissionTx(slot, "interrupted")
    /\ Reply("block")
    /\ UNCHANGED <<workVars, serviceVars, controlVars, posted>>

LinkInterrupted ==
    /\ pc = "caught" /\ state[slot] # "skipped"
    /\ request[slot] \in {"admitting", "interrupted"}
    /\ FinishAdmissionTx(slot, "interrupted")
    /\ Reply("block")
    /\ UNCHANGED <<workVars, serviceVars, controlVars, posted>>

BlockInterrupted ==
    /\ pc = "block"
    /\ BlockTx(at, "interrupted")
    /\ Reply("row")
    /\ UNCHANGED <<workVars, serviceVars, controlVars, posted>>

InterruptUnclaimed ==
    /\ pc = "caught" /\ state[slot] # "skipped"
    /\ request[slot] = "none"
    /\ InterruptOwnedTx(at, slot, "interrupted")
    /\ Reply("row")
    /\ UNCHANGED <<workVars, serviceVars, controlVars, posted>>

\* The selection had released the slot before its answer was lost.
AlreadySkipped ==
    /\ pc = "caught" /\ state[slot] = "skipped"
    /\ Acked("row")
    /\ UNCHANGED <<workVars, outboxVars, serviceVars, controlVars, posted>>

\* The pass failed for this row: hold the activation it had read.
Hold ==
    /\ pc = "hold"
    /\ BlockOwnedTx(at, snap[at], "owned-dispatch-unavailable")
    /\ Reply("row")
    /\ UNCHANGED <<workVars, serviceVars, controlVars, posted>>

-----------------------------------------------------------------------------
\* set-enabled-owned!: a human pauses at once; a resume is decided on an
\* inspected row and applied later.

Pause(a) ==
    /\ pc # "down" /\ controls < MaxControls
    /\ controls' = controls + 1
    /\ PauseTx(a)
    /\ UNCHANGED <<workVars, serviceVars, pc, failing, posted, faults, inspected,
                   resumedInPass, overtaken>>

Inspect(h, a) ==
    /\ pc # "down" /\ controls < MaxControls
    /\ inspected[h] = None
    /\ ResumableActive(a)
    /\ inspected' = [inspected EXCEPT ![h] = [activation |-> a, row |-> Row(a)]]
    /\ UNCHANGED <<workVars, outboxVars, serviceVars, pc, failing, posted, faults,
                   controls, resumedInPass, overtaken>>

Answered(h) ==
    /\ pc # "down" /\ controls < MaxControls
    /\ controls' = controls + 1
    /\ inspected[h] # None
    /\ inspected' = [inspected EXCEPT ![h] = None]
    /\ overtaken' = overtaken \ {h}
    /\ UNCHANGED <<workVars, serviceVars, pc, failing, posted, faults>>

SwitchedOn == {a \in Activations : enabled[a]}

Resume(h) ==
    /\ Answered(h)
    /\ ResumeTx(inspected[h].activation, inspected[h].row)
    /\ resumedInPass' = resumedInPass \cup ({inspected[h].activation} \ SwitchedOn)

RefuseResume(h) ==
    /\ Answered(h)
    /\ ~Resumable(inspected[h].activation, inspected[h].row)
    /\ UNCHANGED <<outboxVars, resumedInPass>>

-----------------------------------------------------------------------------
\* Jobs run in the server process on their own threads; return of an
\* orphan's wallet happens during boot.
JobStep(o) ==
    /\ pc # "down"
    /\ FinishJob(o) \/ ReturnJob(o)
    /\ UNCHANGED <<outboxVars, serviceVars, controlVars, pc, failing, posted, faults>>

Recover ==
    \/ \E o \in Oids : RecoverLinked(o) \/ RecoverInterrupted(o) \/ RecoverUnclaimed(o)
    \/ RecoverBlock \/ RecoverCaught \/ RecoverDone

Release ==
    \/ FileOutput \/ MarkProcessed \/ RejectFrozen
    \/ PostResult \/ SkipPost \/ MarkAnnounced
    \/ Rethrow \/ RecordFailure \/ RefuseFailure \/ ReleaseSlot

Dispatch ==
    \/ ClaimDue \/ Look \/ Admit \/ SelectInput \/ RetainInput
    \/ ClaimRequest \/ RecordJob \/ StartWork
    \/ LinkSubmitted \/ LinkInterrupted \/ BlockInterrupted
    \/ InterruptUnclaimed \/ AlreadySkipped \/ Hold

Worker ==
    \/ Recover
    \/ BeginPass \/ (\E a \in Activations : TakeRow(a)) \/ EndPass
    \/ Release \/ Dispatch

Failures ==
    \/ Fault \/ (\E o \in Oids : RecoverFault(o))
    \/ AbandonRequest \/ FailStart
    \/ Crash \/ Stop

Controls ==
    \/ \E a \in Activations : Pause(a) \/ (\E h \in Humans : Inspect(h, a))
    \/ \E h \in Humans : Resume(h) \/ RefuseResume(h)

Next ==
    \/ Worker \/ Failures \/ Controls
    \/ Boot \/ Start
    \/ \E o \in Oids : JobStep(o)

\* The worker is a live thread on the root clock's notifications, the host
\* reboots and restarts it, and Jobs end and return.  Nothing makes a human
\* act or a call fail.
Fairness ==
    /\ WF_vars(Worker) /\ WF_vars(Boot) /\ WF_vars(Start)
    /\ \A o \in Oids : WF_vars(JobStep(o))

Spec == Init /\ [][Next]_vars /\ Fairness

-----------------------------------------------------------------------------
Of(a) == {o \in Oids : o[1] = a}

\* submit-prepared! schedules only for the durable insert winner: whatever is
\* lost, retried or recovered, no occurrence is ever evaluated twice.
AtMostOneRun == \A o \in Oids : runs[o] <= 1

\* The scheduler keeps its slot until the Job's return is acknowledged, so a
\* schedule never has two executions (or unreturned wallets) at once, also
\* when passes fail between submission and link.
SingleFlight ==
    \A a \in Activations : \A o, p \in Of(a) :
        (returned[o] = "pending" /\ returned[p] = "pending") => o = p

\* due-tx, enabled-tx and select-input-tx withdraw an occurrence only while
\* no request exists: what is reported as skipped never runs afterwards.
WithdrawnNeverRuns ==
    \A o \in Oids : state[o] = "skipped" => request[o] = "none" /\ runs[o] = 0

\* An occurrence that is queued, being admitted or interrupted is still the
\* one its activation points at; a linked one is let go only after its Job
\* returned and its result is in the room and marked so.
NoLostWork ==
    \A o \in Oids :
        /\ state[o] \in {"pending", "admitting", "interrupted"} => active[o[1]] = o
        /\ (state[o] = "linked" /\ active[o[1]] # o) =>
               Settled(o) /\ posted[o] /\ announced[o]

\* processed-input-tx: the evidence cursor always names the evidence of an
\* occurrence that completed and, for live evidence, was durably filed.  A
\* failed candidate never makes evidence count as processed.
ProcessedIsReal ==
    \A a \in Activations :
        lastProcessedInput[a] # None =>
            \E o \in Of(a) :
                /\ input[o] = lastProcessedInput[a]
                /\ job[o] = "completed" /\ Settled(o)
                /\ Kind[a] = "live" => filed[o]

\* due-tx: every slot before the cursor has an occurrence or was folded into
\* the next one recorded, and nothing else is counted as folded.  Missed,
\* superseded and overlapping slots neither vanish nor count twice.
SlotsAccounted ==
    \A a \in Activations :
        LET recorded == {s \in Slots : state[<<a, s>>] # "absent"}
            folds(t) == {s \in Slots : s < t /\ s >= t - coalesced[<<a, t>>] * Interval
                                       /\ s % Interval = 0}
        IN  /\ \A s \in Slots :
                  (s < nextFire[a] /\ s % Interval = 0 /\ s \notin recorded) =>
                      \E t \in recorded : s \in folds(t)
            /\ \A t \in recorded :
                  /\ t < nextFire[a]
                  /\ \A s \in folds(t) : s \in recorded => why[<<a, s>>] = "coalesced"

\* fail-terminal-tx: the failure a schedule is held for can always be audited
\* by resume-blocked-reason, so a recorded failure never locks a human out.
FailureAuditable ==
    \A a \in Activations :
        lastTerminalFailure[a] # None =>
            /\ FailureRecorded(lastTerminalFailure[a])
            /\ announced[lastTerminalFailure[a]]
            /\ active[a] # lastTerminalFailure[a]

\* select-input-tx before submission: no allowance is spent on evidence that
\* was already processed, and none without retained evidence.
FreshInputOnly ==
    \A o \in Oids :
        (job[o] \in {"created", "running"} /\ Selects(o[1])) =>
            /\ input[o] # None /\ retained[o]
            /\ input[o] # lastProcessedInput[o[1]]
            /\ input[o] = EmptyInput => lastProcessedInput[o[1]] # None

\* resume-managed-tx: a schedule is switched on only by a human whose
\* inspection no terminal failure has overtaken, not even when another human
\* resumed it and it failed again in between.
ResumeFencesFailure ==
    [][\A a \in Activations :
          (~enabled[a] /\ enabled'[a]) =>
              \E h \in Humans :
                  /\ inspected[h] # None /\ inspected'[h] = None
                  /\ inspected[h].activation = a
                  /\ h \notin overtaken]_vars

\* finish-admission! writes without a guard, and handlers and recovery run it
\* after answers were lost: still no outcome, result, marker, evidence or
\* return that was once recorded is ever taken back.
ReceiptsFinal ==
    [][\A o \in Oids :
          /\ state[o] \in {"linked", "skipped"} => state'[o] = state[o]
          /\ announced[o] => announced'[o]
          /\ failure[o] # "none" => failure'[o] # "none"
          /\ input[o] # None => input'[o] = input[o]
          /\ job[o] \in Terminal => job'[o] = job[o]
          /\ Settled(o) => Settled(o)']_vars

\* release-owned-settled!: a submitted occurrence eventually leaves its slot,
\* whatever calls fail meanwhile and however the schedule is paused.
Released ==
    \A o \in Oids : (state[o] = "linked") ~> (active[o[1]] # o)

\* A queued occurrence of an enabled schedule is eventually dispatched,
\* withdrawn or superseded, or the schedule is visibly held.
Dispatched ==
    \A o \in Oids : (state[o] = "pending") ~> (state[o] # "pending" \/ ~enabled[o[1]])


-----------------------------------------------------------------------------
\* The work done for an occurrence, as ScheduleContract sees it.
WorkOf(o) ==
    CASE state[o] = "absent"  -> "none"
      [] state[o] = "pending" -> "queued"
      [] state[o] = "skipped" -> "dropped"
      [] OTHER ->
           CASE job[o] \in Terminal  -> "ended"
             [] job[o] = "running"    -> "running"
             [] OTHER                 -> "owned"

Contract == INSTANCE ScheduleContract WITH
    cursor <- nextFire, holder <- active, work <- [o \in Oids |-> WorkOf(o)]

\* The dispatcher, with every failure, restart and human control, implements
\* the contract: slots in order, one held at a time, each worked on at most
\* once, and only while held.
KeepsContract == Contract!Spec
=============================================================================
