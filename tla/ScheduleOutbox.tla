-------------------------- MODULE ScheduleOutbox ---------------------------
(***************************************************************************)
(* The durable occurrence outbox of model/workflow_schedules.clj.  An      *)
(* operator ending in Tx is the outbox part of one transaction, evaluated  *)
(* by the single writer of the control database against its own snapshot.  *)
(* Random claim tokens are left out: an occurrence is admitted at most     *)
(* once and one dispatcher exists at a time, so state "admitting" alone    *)
(* names the owner.                                                        *)
(***************************************************************************)
EXTENDS WorkAdmission, Cadence

CONSTANTS
    Interval,       \* The cadence's interval, in clock units.
    Inputs,         \* Evidence identities a selection can name.
    EmptyInput,     \* The identity of an empty selection.
    Kind            \* Per activation: "plain", "frozen" or "live" evidence.

ASSUME OutboxAssumption ==
    /\ Interval \in Nat \ {0}
    /\ EmptyInput \in Inputs
    /\ None \notin Inputs
    /\ None \notin {"unchanged", "no-inputs", "coalesced"}
    /\ Kind \in [Activations -> {"plain", "frozen", "live"}]

VARIABLES
    enabled, reason,        \* Activation: switch and why it is held.
    active,                 \* Activation: the unresolved occurrence.
    lastOccurrence, lastTerminalFailure, lastProcessedInput, nextFire,
    state,                  \* Occurrence: "absent" or its durable state.
    why,                    \* Occurrence: its reason.
    input, retained,        \* Occurrence: selected and retained evidence.
    pointer,                \* Occurrence: carries its request id.
    announced, failure,     \* Occurrence: announced?, failed-* marker.
    coalesced               \* Occurrence: slots folded into this one.

activationVars == <<enabled, reason, active, lastOccurrence,
                    lastTerminalFailure, lastProcessedInput, nextFire>>
occurrenceVars == <<state, why, input, retained, pointer, announced, failure,
                    coalesced>>
outboxVars == <<activationVars, occurrenceVars>>

OccurrenceStates ==
    {"absent", "pending", "admitting", "linked", "skipped", "interrupted"}
HoldReasons == {None, "execution-failed", "interrupted", "owned-dispatch-unavailable"}
SkipReasons == {None, "overlap", "coalesced", "paused", "unchanged", "no-inputs",
                "interrupted", "restart", "owned-dispatch-unavailable"}

\* Every attribute of the outbox keeps its domain.
OutboxTypeOK ==
    /\ enabled \in [Activations -> BOOLEAN]
    /\ reason \in [Activations -> HoldReasons]
    /\ active \in [Activations -> Oids \cup {None}]
    /\ lastOccurrence \in [Activations -> Oids \cup {None}]
    /\ lastTerminalFailure \in [Activations -> Oids \cup {None}]
    /\ lastProcessedInput \in [Activations -> Inputs \cup {None}]
    /\ nextFire \in [Activations -> Nat]
    /\ state \in [Oids -> OccurrenceStates]
    /\ why \in [Oids -> SkipReasons]
    /\ input \in [Oids -> Inputs \cup {None}]
    /\ retained \in [Oids -> BOOLEAN]
    /\ pointer \in [Oids -> BOOLEAN]
    /\ announced \in [Oids -> BOOLEAN]
    /\ failure \in [Oids -> {"none", "candidate", "job"}]
    /\ coalesced \in [Oids -> Nat]

\* create!: activations exist from the start, created enabled or paused.
OutboxInit ==
    /\ enabled \in [Activations -> BOOLEAN]
    /\ reason = [a \in Activations |-> None]
    /\ active = [a \in Activations |-> None]
    /\ lastOccurrence = [a \in Activations |-> None]
    /\ lastTerminalFailure = [a \in Activations |-> None]
    /\ lastProcessedInput = [a \in Activations |-> None]
    /\ nextFire = [a \in Activations |-> 0]
    /\ state = [o \in Oids |-> "absent"]
    /\ why = [o \in Oids |-> None]
    /\ input = [o \in Oids |-> None]
    /\ retained = [o \in Oids |-> FALSE]
    /\ pointer = [o \in Oids |-> FALSE]
    /\ announced = [o \in Oids |-> FALSE]
    /\ failure = [o \in Oids |-> "none"]
    /\ coalesced = [o \in Oids |-> 0]

Selects(a) == Kind[a] # "plain"

-----------------------------------------------------------------------------
\* Snapshots of an activation row and the fields two writers compare.
Row(a) ==
    [enabled |-> enabled[a], reason |-> reason[a], active |-> active[a],
     last |-> lastOccurrence[a], failed |-> lastTerminalFailure[a]]

Rows ==
    [enabled : BOOLEAN, reason : HoldReasons, active : Oids \cup {None},
     last : Oids \cup {None}, failed : Oids \cup {None}]

\* Mutant: the identity forgets the last terminal failure.
ResumeIdentityABA(row) == <<row.enabled, row.reason, row.active>>

\* resume-identity-fields.
ResumeIdentity(row) == <<row.enabled, row.reason, row.active, row.failed>>

\* owned-block-fields.
BlockSnapshot(row) == <<row.enabled, row.active, row.last, row.failed>>

\* resumable-active?: no slot in use, or one that needs no reconciliation.
ResumableActive(a) ==
    active[a] # None => state[active[a]] \in {"pending", "linked"}

\* The receipts resume-blocked-reason demands of the last terminal failure.
FailureRecorded(o) ==
    state[o] = "linked" /\ request[o] = "submitted" /\ failure[o] # "none"

ResumeBlocked(a) ==
    lastTerminalFailure[a] # None /\ ~FailureRecorded(lastTerminalFailure[a])

-----------------------------------------------------------------------------
\* Human controls.

\* Mutant: pause withdraws admitted work as well.
PauseTxGreedy(a) ==
    LET o == active[a]
        queued == o # None /\ state[o] \in {"pending", "admitting"}
    IN  /\ enabled' = [enabled EXCEPT ![a] = FALSE]
        /\ state' = IF queued THEN [state EXCEPT ![o] = "skipped"] ELSE state
        /\ why' = IF queued THEN [why EXCEPT ![o] = "paused"] ELSE why
        /\ active' = IF queued THEN [active EXCEPT ![a] = None] ELSE active
        /\ UNCHANGED <<reason, lastOccurrence, lastTerminalFailure,
                       lastProcessedInput, nextFire, input, retained, pointer,
                       announced, failure, coalesced>>

\* enabled-tx with false: withdraw queued work in the same transaction.
PauseTx(a) ==
    LET o == active[a]
        queued == o # None /\ state[o] = "pending"
    IN  /\ enabled' = [enabled EXCEPT ![a] = FALSE]
        /\ state' = IF queued THEN [state EXCEPT ![o] = "skipped"] ELSE state
        /\ why' = IF queued THEN [why EXCEPT ![o] = "paused"] ELSE why
        /\ active' = IF queued THEN [active EXCEPT ![a] = None] ELSE active
        /\ UNCHANGED <<reason, lastOccurrence, lastTerminalFailure,
                       lastProcessedInput, nextFire, input, retained, pointer,
                       announced, failure, coalesced>>

\* resume-managed-tx against the inspected row, else a conflict.
Resumable(a, inspectedRow) ==
    /\ ResumeIdentity(inspectedRow) = ResumeIdentity(Row(a))
    /\ ResumableActive(a)
    /\ ~ResumeBlocked(a)

ResumeTx(a, inspectedRow) ==
    /\ Resumable(a, inspectedRow)
    /\ enabled' = [enabled EXCEPT ![a] = TRUE]
    /\ reason' = [reason EXCEPT ![a] = None]
    /\ UNCHANGED <<active, lastOccurrence, lastTerminalFailure,
                   lastProcessedInput, nextFire, occurrenceVars>>

-----------------------------------------------------------------------------
\* due-tx: claim the latest due slot, one of three ways.

IsDue(a, now) == enabled[a] /\ Due(nextFire[a], now)

DueOid(a, now) == <<a, IntendedSlot(Interval, nextFire[a], now)>>

\* Mutant: slots missed while the dispatcher was away are not counted.
AdvanceCursorUncounted(a, now, folded) ==
    LET slot == IntervalSlot(Interval, nextFire[a], now)
    IN  /\ nextFire' = [nextFire EXCEPT ![a] = slot.next]
        /\ lastOccurrence' = [lastOccurrence EXCEPT ![a] = DueOid(a, now)]
        /\ coalesced' = [coalesced EXCEPT ![DueOid(a, now)] = folded]
        /\ UNCHANGED <<enabled, reason, lastTerminalFailure, lastProcessedInput,
                       input, retained, pointer, announced, failure>>

\* The cursor moves past every slot the new occurrence accounts for.
AdvanceCursor(a, now, folded) ==
    LET slot == IntervalSlot(Interval, nextFire[a], now)
    IN  /\ nextFire' = [nextFire EXCEPT ![a] = slot.next]
        /\ lastOccurrence' = [lastOccurrence EXCEPT ![a] = DueOid(a, now)]
        /\ coalesced' = [coalesced EXCEPT ![DueOid(a, now)] = slot.coalesced + folded]
        /\ UNCHANGED <<enabled, reason, lastTerminalFailure, lastProcessedInput,
                       input, retained, pointer, announced, failure>>

QueueDue(a, now) ==
    /\ active[a] = None
    /\ state' = [state EXCEPT ![DueOid(a, now)] = "pending"]
    /\ active' = [active EXCEPT ![a] = DueOid(a, now)]
    /\ AdvanceCursor(a, now, 0)
    /\ UNCHANGED why

\* A queued occurrence nobody admitted yet is folded into the newer slot.
SupersedeDue(a, now) ==
    /\ active[a] # None /\ state[active[a]] = "pending"
    /\ state' = [state EXCEPT ![active[a]] = "skipped", ![DueOid(a, now)] = "pending"]
    /\ why' = [why EXCEPT ![active[a]] = "coalesced"]
    /\ active' = [active EXCEPT ![a] = DueOid(a, now)]
    /\ AdvanceCursor(a, now, 1)

\* Mutant: an overlapping slot takes over the active pointer.
OverlapDueSteals(a, now) ==
    /\ active[a] # None /\ state[active[a]] # "pending"
    /\ state' = [state EXCEPT ![DueOid(a, now)] = "skipped"]
    /\ why' = [why EXCEPT ![DueOid(a, now)] = "overlap"]
    /\ active' = [active EXCEPT ![a] = DueOid(a, now)]
    /\ AdvanceCursor(a, now, 0)

\* The previous occurrence is still in use: record the overlap, start nothing.
OverlapDue(a, now) ==
    /\ active[a] # None /\ state[active[a]] # "pending"
    /\ state' = [state EXCEPT ![DueOid(a, now)] = "skipped"]
    /\ why' = [why EXCEPT ![DueOid(a, now)] = "overlap"]
    /\ AdvanceCursor(a, now, 0)
    /\ UNCHANGED active

DueTx(a, now) ==
    IF IsDue(a, now)
    THEN QueueDue(a, now) \/ SupersedeDue(a, now) \/ OverlapDue(a, now)
    ELSE UNCHANGED outboxVars

-----------------------------------------------------------------------------
\* Admission of the active occurrence.

Admissible(a, o) == state[o] = "pending" /\ enabled[a] /\ active[a] = o

\* admit-tx: the claim, or nothing when the slot was withdrawn meanwhile.
AdmitTx(a, o) ==
    /\ state' = IF Admissible(a, o) THEN [state EXCEPT ![o] = "admitting"] ELSE state
    /\ UNCHANGED <<activationVars, why, input, retained, pointer, announced,
                   failure, coalesced>>

\* claimed-occurrence!: the admission still owns its slot.
Owns(a, o) == state[o] = "admitting" /\ active[a] = o

\* Mutant: processed evidence is not recognised.
SelectReasonForgetful(a, i) ==
    IF i = EmptyInput /\ lastProcessedInput[a] = None THEN "no-inputs" ELSE None

\* select-input-tx: bind the evidence, and release the slot at once when the
\* evidence was already processed or there never was any.
SelectReason(a, i) ==
    IF i = lastProcessedInput[a] THEN "unchanged"
    ELSE IF i = EmptyInput /\ lastProcessedInput[a] = None THEN "no-inputs"
    ELSE None

SelectInputTx(a, o, i) ==
    LET skip == SelectReason(a, i) # None
    IN  /\ Owns(a, o) /\ input[o] \in {None, i}
        /\ input' = [input EXCEPT ![o] = i]
        /\ state' = IF skip THEN [state EXCEPT ![o] = "skipped"] ELSE state
        /\ why' = IF skip THEN [why EXCEPT ![o] = SelectReason(a, i)] ELSE why
        /\ active' = IF skip THEN [active EXCEPT ![a] = None] ELSE active
        /\ UNCHANGED <<enabled, reason, lastOccurrence, lastTerminalFailure,
                       lastProcessedInput, nextFire, retained, pointer,
                       announced, failure, coalesced>>

\* retain-owned-input-tx: the first install only.
RetainInputTx(a, o) ==
    /\ Owns(a, o) /\ input[o] # None /\ ~retained[o]
    /\ retained' = [retained EXCEPT ![o] = TRUE]
    /\ UNCHANGED <<activationVars, state, why, input, pointer, announced,
                   failure, coalesced>>

\* finish-admission!: an unguarded write of the outcome and the request id.
FinishAdmissionTx(o, outcome) ==
    /\ state' = [state EXCEPT ![o] = outcome]
    /\ why' = IF outcome = "interrupted" THEN [why EXCEPT ![o] = "interrupted"] ELSE why
    /\ pointer' = [pointer EXCEPT ![o] = TRUE]
    /\ UNCHANGED <<activationVars, input, retained, announced, failure, coalesced>>

\* Mutant: the activation is held for the occurrence's own reason.
InterruptOwnedTxRaw(a, o, r) ==
    /\ Owns(a, o) /\ ~pointer[o] /\ request[o] = "none"
    /\ state' = [state EXCEPT ![o] = "interrupted"]
    /\ why' = [why EXCEPT ![o] = r]
    /\ enabled' = [enabled EXCEPT ![a] = FALSE]
    /\ reason' = [reason EXCEPT ![a] = r]
    /\ UNCHANGED <<active, lastOccurrence, lastTerminalFailure,
                   lastProcessedInput, nextFire, input, retained, pointer,
                   announced, failure, coalesced>>

\* interrupt-owned-tx: only the admission that still owns the slot, and only
\* while no request exists, is marked interrupted and holds its schedule.
InterruptOwnedTx(a, o, r) ==
    IF Owns(a, o) /\ ~pointer[o] /\ request[o] = "none"
    THEN /\ state' = [state EXCEPT ![o] = "interrupted"]
         /\ why' = [why EXCEPT ![o] = r]
         /\ enabled' = [enabled EXCEPT ![a] = FALSE]
         /\ reason' = [reason EXCEPT ![a] = IF r = "restart" THEN "interrupted" ELSE r]
         /\ UNCHANGED <<active, lastOccurrence, lastTerminalFailure,
                        lastProcessedInput, nextFire, input, retained, pointer,
                        announced, failure, coalesced>>
    ELSE /\ enabled' = IF Owns(a, o) /\ r = "owned-dispatch-unavailable"
                       THEN [enabled EXCEPT ![a] = FALSE] ELSE enabled
         /\ reason' = IF Owns(a, o) /\ r = "owned-dispatch-unavailable"
                      THEN [reason EXCEPT ![a] = r] ELSE reason
         /\ UNCHANGED <<active, lastOccurrence, lastTerminalFailure,
                        lastProcessedInput, nextFire, occurrenceVars>>

-----------------------------------------------------------------------------
\* Holding a schedule.

\* block!: an unguarded disable.
BlockTx(a, r) ==
    /\ enabled' = [enabled EXCEPT ![a] = FALSE]
    /\ reason' = [reason EXCEPT ![a] = r]
    /\ UNCHANGED <<active, lastOccurrence, lastTerminalFailure,
                   lastProcessedInput, nextFire, occurrenceVars>>

\* block-owned-tx: disable only the row the failed pass had read.
BlockOwnedTx(a, row, r) ==
    IF BlockSnapshot(row) = BlockSnapshot(Row(a))
    THEN BlockTx(a, r)
    ELSE UNCHANGED outboxVars

-----------------------------------------------------------------------------
\* Completion of a settled occurrence.

\* mark-announced!
MarkAnnouncedTx(o) ==
    /\ announced' = [announced EXCEPT ![o] = TRUE]
    /\ UNCHANGED <<activationVars, state, why, input, retained, pointer,
                   failure, coalesced>>

\* processed-input-tx: the cursor over evidence, from settled work only;
\* live evidence also needs its durable filing.
Processable(a, o) ==
    /\ state[o] = "linked" /\ active[a] = o /\ pointer[o]
    /\ retained[o] /\ input[o] # None
    /\ Settled(o)
    /\ Kind[a] = "live" => filed[o]

ProcessedInputTx(a, o) ==
    /\ Processable(a, o)
    /\ lastProcessedInput' = [lastProcessedInput EXCEPT ![a] = input[o]]
    /\ UNCHANGED <<enabled, reason, active, lastOccurrence, lastTerminalFailure,
                   nextFire, occurrenceVars>>

\* fail-terminal-tx: disable, release and mark in one transaction, provided
\* nothing changed since the pass read its row.
FailureCurrent(a, o, row) ==
    /\ state[o] = "linked" /\ announced[o] /\ ~filed[o]
    /\ ResumeIdentity(row) = ResumeIdentity(Row(a))
    /\ active[a] = o /\ failure[o] = "none"

\* Mutant: the occurrence does not get its failed-* marker.
FailTerminalTxUnmarked(a, o, row, marker) ==
    /\ FailureCurrent(a, o, row)
    /\ enabled' = [enabled EXCEPT ![a] = FALSE]
    /\ reason' = [reason EXCEPT ![a] = "execution-failed"]
    /\ lastTerminalFailure' = [lastTerminalFailure EXCEPT ![a] = o]
    /\ active' = [active EXCEPT ![a] = None]
    /\ UNCHANGED <<lastOccurrence, lastProcessedInput, nextFire, occurrenceVars>>

FailTerminalTx(a, o, row, marker) ==
    /\ FailureCurrent(a, o, row)
    /\ enabled' = [enabled EXCEPT ![a] = FALSE]
    /\ reason' = [reason EXCEPT ![a] = "execution-failed"]
    /\ lastTerminalFailure' = [lastTerminalFailure EXCEPT ![a] = o]
    /\ active' = [active EXCEPT ![a] = None]
    /\ failure' = [failure EXCEPT ![o] = marker]
    /\ UNCHANGED <<lastOccurrence, lastProcessedInput, nextFire, state, why,
                   input, retained, pointer, announced, coalesced>>

\* clear-active-tx: release the slot if it is still this occurrence's.
ClearActiveTx(a, o) ==
    /\ active' = IF active[a] = o THEN [active EXCEPT ![a] = None] ELSE active
    /\ UNCHANGED <<enabled, reason, lastOccurrence, lastTerminalFailure,
                   lastProcessedInput, nextFire, occurrenceVars>>
=============================================================================
