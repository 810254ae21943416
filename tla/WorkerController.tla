-------------------------- MODULE WorkerController --------------------------
(***************************************************************************)
(* One enrolled worker's host: worker_controller.Controller over the       *)
(* server's leases, the private journal and the systemd units.  At most    *)
(* one session (a call of run or reconcile) exists: it holds the worker's  *)
(* lock.  A session that ended with retained references keeps its process, *)
(* so its references, until ProcessExit.                                   *)
(*                                                                         *)
(* Every step can be followed by a kill or a power loss.  A network call   *)
(* that raises may still be delivered at any later time, or never.  A      *)
(* publication that raises may have made its record visible.  MaxFaults    *)
(* bounds how often, all together.                                         *)
(***************************************************************************)
EXTENDS WorkerLease, WorkerJournal, WorkerUnit

CONSTANT MaxFaults      \* Kills, power losses, failed calls of a behaviour.

ASSUME FaultAssumption == MaxFaults \in Nat

VARIABLES
    pc,             \* The session's next step, or "idle".
    mode,           \* "run", its exception path "abort", or "reconcile".
    cur,            \* The session's Run.
    alloc,          \* What the session's observer holds of the Run's unit.
    transport,      \* The lease's MCP helper is alive.
    bus,            \* The observer knows who owns the manager.
    frame,          \* The guard's complete frame is in the pipe.
    leftover,       \* Runs an ended session's process still references.
    late,           \* Requests still to be delivered.
    faults

sessionVars == <<pc, mode, cur, alloc, transport, bus, frame, leftover>>
vars == <<leaseVars, journalVars, unitVars, sessionVars, late, faults>>

\* Fetch and start, up to the record of the claim.
RunSteps == {"ticket", "claim", "lease", "fetch", "tick", "prepare", "launch",
             "ready", "capture", "admit", "permit", "go", "wait"}
\* Sealing, which run, its exception path and reconcile share.
SealSteps == {"seal", "record", "release"}
PublishSteps == {"renew", "complete", "ackCompleted"}
AbortSteps == {"abort", "readmit", "notify", "ackStopped"}
ReconcileSteps == {"retain", "status"}
Steps == {"idle"} \cup RunSteps \cup SealSteps \cup PublishSteps \cup AbortSteps
         \cup ReconcileSteps

\* "ambiguous": referenced, launch's reply lost; "launched": fresh, without an
\* identity; "captured": the identity is known, the reference held.
Allocations == {"none", "ambiguous", "launched", "captured", "released"}
Referenced == alloc \in {"ambiguous", "launched", "captured"}

\* Calls that matter when they are delivered late.  A late heartbeat could
\* only quarantine a lapsed lease, which is not Live as it is.
Requests == {"claim", "complete", "stop"}

TypeOK ==
    /\ LeaseTypeOK
    /\ JournalTypeOK
    /\ unit \in [Runs -> UnitStates]
    /\ executions \in [Runs -> Nat]
    /\ pc \in Steps
    /\ mode \in {"run", "abort", "reconcile"}
    /\ cur \in Runs \cup {None}
    /\ alloc \in Allocations
    /\ transport \in BOOLEAN /\ bus \in BOOLEAN /\ frame \in BOOLEAN
    /\ leftover \subseteq Runs
    /\ late \subseteq Requests \X Runs
    /\ faults \in 0 .. MaxFaults

Init ==
    /\ LeaseInit /\ JournalInit /\ UnitInit
    /\ pc = "idle" /\ mode = "run" /\ cur = None /\ alloc = "none"
    /\ transport = TRUE /\ bus = TRUE /\ frame = FALSE
    /\ leftover = {} /\ late = {} /\ faults = 0

Fault == faults < MaxFaults /\ faults' = faults + 1

-----------------------------------------------------------------------------
\* Ends and branches of a session.

\* The session is in run's try, before its publication was attempted.
InTry == mode = "run" /\ pc \notin {"ticket", "claim", "lease", "complete", "ackCompleted"}

Idle ==
    /\ pc' = "idle" /\ mode' = "run" /\ alloc' = "none"
    /\ transport' = TRUE /\ bus' = TRUE /\ frame' = FALSE /\ cur' = None

\* The call returns or raises: frames are closed, the lock is released; what
\* is referenced stays so while the process lives.
Exit ==
    /\ Idle
    /\ leftover' = IF Referenced /\ bus THEN leftover \cup {cur} ELSE leftover

\* An exception; in run's try it starts _abort.
Raise(helper) ==
    IF InTry
    THEN /\ pc' = "abort" /\ mode' = "abort" /\ transport' = helper
         /\ UNCHANGED <<cur, alloc, bus, frame, leftover>>
    ELSE Exit

\* The session goes on.
Goto(step) == pc' = step /\ UNCHANGED <<mode, cur, transport, bus, frame, leftover>>

At(step) == pc = step

\* run's and reconcile's Frames: closed with the session.
PipeOpen(r) == cur = r /\ ~At("idle") /\ mode # "reconcile"

\* A connection keeps the unit's metadata loaded.
Held(r) == r \in leftover \/ (cur = r /\ ~At("idle") /\ Referenced /\ bus)

\* _request_stop, before the failed helper is joined.
RequestStop ==
    IF alloc \in {"launched", "captured"} /\ bus /\ unit[cur] \in Loaded
    THEN StopUnit(cur)
    ELSE UNCHANGED unitVars

-----------------------------------------------------------------------------
\* Calls of the server.

\* The call is processed and its reply arrives.
Answered(tx) == tx /\ UNCHANGED <<journalVars, unitVars, late, faults>>

\* The call raises: refused, or lost, or delivered, now or later, without its
\* reply; the helper is terminated.
CallRaises(kind, refused) ==
    /\ \/ refused /\ UNCHANGED <<late, faults>>
       \/ /\ Fault
          /\ late' = IF kind \in Requests THEN late \cup {<<kind, cur>>} ELSE late
    /\ RequestStop
    /\ Raise(FALSE)
    /\ UNCHANGED <<leaseVars, journalVars>>

\* A late request reaches the server.
Deliver ==
    \E m \in late :
        /\ late' = late \ {m}
        /\ \/ m[1] = "claim" /\ ClaimTx(m[2])
           \/ m[1] = "complete" /\ CompleteTx(m[2])
           \/ m[1] = "stop" /\ StopTx(m[2])
        /\ UNCHANGED <<journalVars, unitVars, sessionVars, faults>>

\* A session's step that touches only the session.
Local == UNCHANGED <<leaseVars, journalVars, unitVars, late, faults>>

\* The record a step publishes.
Publication ==
    [prepare |-> Launched, admit |-> Admitted, readmit |-> Admitted,
     record |-> Stopped, ackCompleted |-> Acknowledged, ackStopped |-> Acknowledged]

\* Only run's own path records an output.
Sealed == mode = "run"
Verdict == IF At("ackCompleted") THEN "completed" ELSE "stopped"

\* The step's publication returns.
Publish(p) ==
    /\ Publishes(cur, p, Sealed, Verdict)
    /\ UNCHANGED <<leaseVars, unitVars, late, faults>>

\* Any publication raises.
PublishFails ==
    /\ pc \in DOMAIN Publication
    /\ Fault
    /\ PublishRaises(cur, Publication[pc], Sealed, Verdict)
    /\ Raise(transport)
    /\ UNCHANGED <<leaseVars, unitVars, late>>

-----------------------------------------------------------------------------
\* run: lock, ticket, claim.

\* The lock, unresolved, the observer; the Run's directory must be new.
StartRun(r) ==
    /\ At("idle")
    /\ \A other \in Runs : ~Unresolved(other)
    /\ height[r] = Absent
    /\ AdoptsAll
    /\ pc' = "ticket" /\ cur' = r
    /\ UNCHANGED <<mode, alloc, transport, bus, frame, leftover>>
    /\ UNCHANGED <<leaseVars, unitVars, late, faults>>

\* unresolved finds a Run to reconcile first, and has synced what it read.
StartRefused ==
    /\ At("idle")
    /\ \E r \in Runs : Unresolved(r)
    /\ AdoptsAll
    /\ UNCHANGED <<sessionVars, leaseVars, unitVars, late, faults>>

\* _child_directory and claim.prepare.
PrepareTicket ==
    /\ At("ticket")
    /\ height' = [height EXCEPT ![cur] = Ticket]
    /\ durable' = [durable EXCEPT ![cur] = Ticket]
    /\ Goto("claim")
    /\ UNCHANGED <<output, outcome, alloc, leaseVars, unitVars, late, faults>>

PrepareTicketRaises ==
    /\ At("ticket")
    /\ Fault
    /\ \E h \in {Absent, Directory, Ticket}, d \in {Absent, Directory} :
        /\ d <= h
        /\ height' = [height EXCEPT ![cur] = h]
        /\ durable' = [durable EXCEPT ![cur] = d]
    /\ Raise(TRUE)
    /\ UNCHANGED <<output, outcome, leaseVars, unitVars, late>>

\* simmis_worker-claim, on the enrollment's own transport.
Claim ==
    /\ At("claim")
    /\ Answered(ClaimTx(cur))
    /\ Goto("lease")
    /\ UNCHANGED alloc

ClaimRaises == At("claim") /\ CallRaises("claim", ~MayClaim(cur))

-----------------------------------------------------------------------------
\* Lease.tick: at every forced tick, and while a pipe or the unit is awaited.

ForcedTicks == {"lease", "tick", "permit", "renew"}
Ticking == pc \in ForcedTicks \cup {"fetch", "ready", "go", "wait"}
           \/ (At("seal") /\ mode = "run")

AfterTick == [lease |-> "fetch", tick |-> "prepare", permit |-> "go", renew |-> "complete"]

\* Mutant: GO follows the admission without asking the server again.
TickNotBeforeGo ==
    /\ pc \in ForcedTicks
    /\ Live(cur) \/ At("permit")
    /\ Answered(HeartbeatTx(cur))
    /\ Goto(AfterTick[pc])
    /\ UNCHANGED alloc

\* A live receipt.
Tick ==
    /\ pc \in ForcedTicks
    /\ Live(cur)
    /\ Answered(HeartbeatTx(cur))
    /\ Goto(AfterTick[pc])
    /\ UNCHANGED alloc

\* require_live: the receipt says cancelled, expired or stopped.
TickCancelled ==
    /\ Ticking
    /\ ~Live(cur)
    /\ Answered(HeartbeatTx(cur))
    /\ Raise(transport)

\* The last receipt is older than its freshness bound; no call is made.
TickStale == Ticking /\ ~At("lease") /\ Raise(transport) /\ Local

TickRaises == Ticking /\ CallRaises("heartbeat", FALSE)

-----------------------------------------------------------------------------
\* run: input, launch, admission, GO.

\* inputs.fetch: every chunk a call under the live lease.
Fetch == At("fetch") /\ Live(cur) /\ Goto("tick") /\ UNCHANGED alloc /\ Local

FetchRaises == At("fetch") /\ CallRaises("input", ~Live(cur))

\* The input, a frame, the ready identity, the captured bounds or the output
\* are not what was agreed; or a pipe ended, or its deadline passed.
CheckFails ==
    /\ pc \in {"fetch", "ready", "capture", "go", "wait"}
    /\ Raise(transport)
    /\ Local

Prepare ==
    /\ At("prepare")
    /\ Publish(Launched)
    /\ Goto("launch")
    /\ UNCHANGED alloc

Launch ==
    /\ At("launch")
    /\ bus
    /\ StartUnit(cur)
    /\ alloc' = "launched"
    /\ Goto("ready")
    /\ UNCHANGED <<leaseVars, journalVars, late, faults>>

\* StartTransientUnit raises: the name stays in references.
LaunchRaises ==
    /\ At("launch")
    /\ bus
    /\ Fault
    /\ StartUnitUnknown(cur)
    /\ pc' = "abort" /\ mode' = "abort" /\ alloc' = "ambiguous"
    /\ UNCHANGED <<cur, transport, bus, frame, leftover>>
    /\ UNCHANGED <<leaseVars, journalVars, late>>

\* The guard's ready frame.
Ready == At("ready") /\ unit[cur] = "waiting" /\ Goto("capture") /\ UNCHANGED alloc /\ Local

Capture ==
    /\ At("capture")
    /\ bus
    /\ unit[cur] = "waiting"
    /\ alloc' = "captured"
    /\ Goto("admit")
    /\ Local

\* Mutant: GO before the admission is published.
AdmitLater ==
    /\ At("admit")
    /\ Goto("permit")
    /\ UNCHANGED alloc
    /\ Local

Admit ==
    /\ At("admit")
    /\ Publish(Admitted)
    /\ Goto("permit")
    /\ UNCHANGED alloc

Go ==
    /\ At("go")
    /\ ReceiveGo(cur)
    /\ Goto("wait")
    /\ UNCHANGED <<alloc, leaseVars, journalVars, late, faults>>

\* The complete frame.
Wait == At("wait") /\ frame /\ Goto("seal") /\ UNCHANGED alloc /\ Local

-----------------------------------------------------------------------------
\* _seal: wait_stopped, the stopped record, release.

\* Mutant: the observation is released before it is recorded.
SealReleases ==
    /\ At("seal")
    /\ bus
    /\ ObservedStopped(cur)
    /\ alloc' = "released"
    /\ Goto("record")
    /\ Local

\* wait_stopped returns.
Seal ==
    /\ At("seal")
    /\ bus
    /\ ObservedStopped(cur)
    /\ Goto("record")
    /\ UNCHANGED alloc
    /\ Local

\* The deadline passes while the unit is still there.
SealTimesOut ==
    /\ At("seal")
    /\ unit[cur] \in Alive
    /\ Fault
    /\ Raise(transport)
    /\ UNCHANGED <<leaseVars, journalVars, unitVars, late>>

Record ==
    /\ At("record")
    /\ Publish(Stopped)
    /\ Goto("release")
    /\ UNCHANGED alloc

\* A failed unit has no successful output.
RecordRefused ==
    /\ At("record")
    /\ mode = "run"
    /\ unit[cur] = "failed"
    /\ Adopts(cur)
    /\ Raise(transport)
    /\ UNCHANGED <<leaseVars, unitVars, late, faults>>

AfterRelease == [run |-> "renew", abort |-> "notify", reconcile |-> "status"]

Release ==
    /\ At("release")
    /\ bus
    /\ ObservedStopped(cur)
    /\ alloc' = "released"
    /\ Goto(AfterRelease[mode])
    /\ Local

ReleaseRaises ==
    /\ At("release")
    /\ Fault
    /\ Raise(transport)
    /\ UNCHANGED <<leaseVars, journalVars, unitVars, late>>

\* Any call of an observer that lost its manager.
ObserverUnknown ==
    /\ ~bus
    /\ pc \in {"launch", "capture", "seal", "release"}
    /\ Raise(transport)
    /\ Local

-----------------------------------------------------------------------------
\* Publication and its acknowledgement.

Complete ==
    /\ At("complete")
    /\ Answered(CompleteTx(cur))
    /\ Goto("ackCompleted")
    /\ UNCHANGED alloc

CompleteRaises == At("complete") /\ CallRaises("complete", ~MayComplete(cur))

Notify ==
    /\ At("notify")
    /\ transport
    /\ Answered(StopTx(cur))
    /\ Goto("ackStopped")
    /\ UNCHANGED alloc

NotifyRaises ==
    /\ At("notify")
    /\ \/ transport /\ CallRaises("stop", FALSE)
       \/ ~transport /\ Raise(FALSE) /\ Local

Acknowledge ==
    /\ pc \in {"ackCompleted", "ackStopped"}
    /\ Publish(Acknowledged)
    /\ Exit

-----------------------------------------------------------------------------
\* _abort.

\* Mutant: the exception path reports the stop it requested.
AbortUnidentifiedNotifies ==
    /\ At("abort")
    /\ alloc \in {"none", "ambiguous", "launched"}
    /\ RequestStop
    /\ Goto("notify")
    /\ UNCHANGED <<alloc, leaseVars, journalVars, late, faults>>

\* Without an identity: stop a fresh launch, send nothing, hold the lease.
AbortUnidentified ==
    /\ At("abort")
    /\ alloc \in {"none", "ambiguous", "launched"}
    /\ RequestStop
    /\ Exit
    /\ UNCHANGED <<leaseVars, journalVars, late, faults>>

\* With one, and no stopped record: stop the unit and retry the admission.
AbortStops ==
    /\ At("abort")
    /\ alloc = "captured"
    /\ height[cur] < Stopped
    /\ Adopts(cur)
    /\ IF bus /\ unit[cur] \in Loaded
       THEN StopUnit(cur) /\ Goto("readmit") /\ UNCHANGED alloc
       ELSE Exit /\ UNCHANGED unitVars
    /\ UNCHANGED <<leaseVars, late, faults>>

\* The stopped record exists.
AbortStopped ==
    /\ At("abort")
    /\ alloc \in {"captured", "released"}
    /\ height[cur] >= Stopped
    /\ Adopts(cur)
    /\ Goto(IF alloc = "captured" THEN "release" ELSE "notify")
    /\ UNCHANGED <<alloc, leaseVars, unitVars, late, faults>>

Readmit ==
    /\ At("readmit")
    /\ Publish(Admitted)
    /\ Goto("seal")
    /\ UNCHANGED alloc

-----------------------------------------------------------------------------
\* reconcile.


\* Its guards: a ticket, a launch and an admission, no acknowledgement.
MayReconcile(r) == height[r] \in Admitted .. Stopped

StartReconcile(r) ==
    /\ At("idle")
    /\ MayReconcile(r)
    /\ Adopts(r)
    /\ pc' = IF height[r] < Stopped THEN "retain" ELSE "status"
    /\ mode' = "reconcile" /\ cur' = r
    /\ UNCHANGED <<alloc, transport, bus, frame, leftover>>
    /\ UNCHANGED <<leaseVars, unitVars, late, faults>>

\* retain and stop of the exact unit.
Retain ==
    /\ At("retain")
    /\ bus
    /\ StopUnit(cur)
    /\ alloc' = "captured"
    /\ Goto("seal")
    /\ UNCHANGED <<leaseVars, journalVars, late, faults>>

\* The unit was unloaded, the machine rebooted, the manager is unknown.
RetainRaises ==
    /\ At("retain")
    /\ ~bus \/ unit[cur] \notin Loaded
    /\ Raise(transport)
    /\ Local

\* Mutant: a server that completed is told of a stop.
StatusStops ==
    /\ At("status")
    /\ Answered(HeartbeatTx(cur))
    /\ Goto(IF output[cur] /\ srv'[cur] = "claimed" THEN "complete" ELSE "notify")
    /\ UNCHANGED alloc

\* The server's view decides; only a live lease gets the recorded output.
Status ==
    /\ At("status")
    /\ Answered(HeartbeatTx(cur))
    /\ Goto(IF srv'[cur] = "completed" THEN "ackCompleted"
            ELSE IF output[cur] /\ srv'[cur] = "claimed" THEN "complete" ELSE "notify")
    /\ UNCHANGED alloc

StatusRaises == At("status") /\ CallRaises("heartbeat", FALSE)

-----------------------------------------------------------------------------
\* The environment.

UnitStep(r) ==
    /\ \/ LateStart(r)
       \/ GuardEof(r) /\ ~PipeOpen(r)
       \/ Collect(r) /\ ~Held(r)
    /\ UNCHANGED <<leaseVars, journalVars, sessionVars, late, faults>>

UnitEnds(r) ==
    /\ Ends(r) \/ Dies(r)
    /\ UNCHANGED <<leaseVars, journalVars, sessionVars, late, faults>>

\* The guard writes its complete frame; nobody reads a closed pipe.
TaskCompletes(r) ==
    /\ Completes(r)
    /\ PipeOpen(r)
    /\ frame' = TRUE
    /\ UNCHANGED <<leaseVars, journalVars, pc, mode, cur, alloc, transport, bus,
                   leftover, late, faults>>

ServerStep(r) ==
    /\ CancelTx(r) \/ Lapse(r)
    /\ UNCHANGED <<journalVars, unitVars, sessionVars, late, faults>>

\* The process of a session that raised ends, and its bus connection with it.
ProcessExit ==
    /\ \E r \in leftover : leftover' = leftover \ {r}
    /\ UNCHANGED <<pc, mode, cur, alloc, transport, bus, frame>>
    /\ Local

BusLost ==
    /\ ~At("idle")
    /\ bus
    /\ Fault
    /\ bus' = FALSE
    /\ UNCHANGED <<pc, mode, cur, alloc, transport, frame, leftover>>
    /\ UNCHANGED <<leaseVars, journalVars, unitVars, late>>

\* The session's process is killed: lock, pipes and references are gone.  A
\* kill within a call is the call that raises, then the kill.
Kill ==
    /\ ~At("idle")
    /\ Fault
    /\ Idle
    /\ UNCHANGED <<leftover, leaseVars, journalVars, unitVars, late>>

PowerLoss ==
    /\ Fault
    /\ PowerLossJournal
    /\ PowerLossUnits
    /\ Idle
    /\ leftover' = {}
    /\ UNCHANGED <<leaseVars, late>>

-----------------------------------------------------------------------------
Session ==
    \/ PrepareTicket \/ PrepareTicketRaises \/ Claim \/ ClaimRaises
    \/ Tick \/ TickCancelled \/ TickStale \/ TickRaises
    \/ PublishFails
    \/ Fetch \/ FetchRaises \/ CheckFails
    \/ Prepare \/ Launch \/ LaunchRaises \/ Ready \/ Capture
    \/ Admit \/ Go \/ Wait
    \/ Seal \/ SealTimesOut \/ Record \/ RecordRefused \/ Release \/ ReleaseRaises
    \/ ObserverUnknown
    \/ Complete \/ CompleteRaises \/ Notify \/ NotifyRaises
    \/ Acknowledge
    \/ AbortUnidentified \/ AbortStops \/ AbortStopped \/ Readmit
    \/ Retain \/ RetainRaises \/ Status \/ StatusRaises

Environment ==
    \/ \E r \in Runs : UnitStep(r) \/ UnitEnds(r) \/ TaskCompletes(r) \/ ServerStep(r)
    \/ Deliver \/ ProcessExit \/ BusLost \/ Kill \/ PowerLoss

Next ==
    \/ \E r \in Runs : StartRun(r) \/ StartReconcile(r)
    \/ StartRefused
    \/ Session
    \/ Environment

Spec == Init /\ [][Next]_vars

\* A session's process runs; a unit ends (its runtime limit is finite); the
\* operator repeats reconcile.  Nothing makes the server deliver what is late.
Fairness ==
    /\ WF_vars(Session)
    /\ \A r \in Runs : WF_vars(UnitEnds(r)) /\ WF_vars(StartReconcile(r))

FairSpec == Spec /\ Fairness

-----------------------------------------------------------------------------
\* The server is never told that a Run stopped while its unit runs, or can
\* still start: neither cancellation, nor a lost launch reply, nor a restart,
\* nor a request delivered late, fabricates the acknowledgement.
NoFalseStop ==
    \A r \in Runs :
        srv[r] \in {"stopped", "completed"} => unit[r] \notin Alive \cup {"late"}

\* A task starts at most once, whatever is killed and retried, and only under
\* a durable admission record.
ExecutedOnce ==
    \A r \in Runs :
        executions[r] > 0 => executions[r] = 1 /\ durable[r] >= Admitted

\* The worker is one physical slot: two units never run side by side.
OnePhysicalUnit ==
    \A r, other \in Runs :
        unit[r] \in Alive /\ unit[other] \in Alive => r = other

\* What a Run's journal says was acknowledged is what the server holds.
JournalAgrees ==
    \A r \in Runs : outcome[r] # None => srv[r] = outcome[r]

\* A result the server accepted is durably recorded here with its output, so
\* that a lost reply can be answered again after a restart.
CompletionSealed ==
    \A r \in Runs : srv[r] = "completed" => durable[r] >= Stopped /\ output[r]

\* A session lets go of a captured unit's metadata only over a durable
\* stopped record; only death of its process or connection loses it earlier.
ReleasedIsSealed ==
    [][alloc = "captured" /\ alloc' = "released" => durable[cur] >= Stopped]_vars

\* A lease that ended (cancelled, expired, revoked) before the confirmation
\* that follows the durable admission never gets its task started.
EndedNeverStarts ==
    \A r \in Runs :
        [](srv[r] # "queued" /\ ~Live(r) /\ executions[r] = 0 /\ ~(cur = r /\ At("go"))
            => [](executions[r] = 0))

=============================================================================
