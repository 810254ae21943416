----------------------- MODULE WorkerControllerProofs -----------------------
(***************************************************************************)
(* For every set of Runs and every number of faults: what the controller   *)
(* tells the server about a stop is true, a task starts at most once and   *)
(* under a durable admission, units never run side by side, and journal    *)
(* and server agree.                                                       *)
(*                                                                         *)
(* None of this is inductive by itself: the controller's calls do not      *)
(* re-check what the calls before them established.  The invariant says    *)
(* what a session may rely on at each of its steps (Located, Recorded),    *)
(* what that means for units and leases (Units, Leases), and why a second  *)
(* Run is never begun beside an open one (OneOpen).                        *)
(***************************************************************************)
EXTENDS WorkerController, TLAPS

-----------------------------------------------------------------------------
\* Which path a session is on at a step, and what its observer holds there.
Located ==
    /\ At("idle") => cur = None /\ alloc = "none" /\ mode = "run"
    /\ ~At("idle") => cur \in Runs
    /\ pc \in RunSteps \cup {"renew"} => mode = "run"
    /\ pc \in {"abort", "readmit"} => mode = "abort"
    /\ pc \in ReconcileSteps => mode = "reconcile"
    /\ pc \in {"complete", "ackCompleted"} => mode # "abort"
    /\ pc \in {"notify", "ackStopped"} => mode # "run"
    /\ pc \in {"ticket", "claim", "lease", "fetch", "tick", "prepare", "launch", "retain"}
         => alloc = "none"
    /\ pc \in {"ready", "capture"} => alloc = "launched"
    /\ pc \in {"admit", "permit", "go", "wait", "readmit"} \cup SealSteps => alloc = "captured"
    /\ pc \in {"renew", "complete", "ackCompleted", "notify", "ackStopped", "status"}
         => alloc \in {"none", "released"}

\* The journal of r ends with record p, durably.
EndsWith(r, p) == height[r] = p /\ durable[r] = p

\* How far the session's journal is at each step.
Recorded ==
    /\ At("ticket") => EndsWith(cur, Absent)
    /\ pc \in {"claim", "lease", "fetch", "tick", "prepare"} => EndsWith(cur, Ticket)
    /\ pc \in {"launch", "ready", "capture", "admit"} => EndsWith(cur, Launched)
    /\ pc \in {"permit", "go", "wait", "seal", "record", "retain"} => EndsWith(cur, Admitted)
    /\ pc \in {"release", "notify", "ackStopped", "status"} \cup {"renew", "complete", "ackCompleted"}
         => EndsWith(cur, Stopped)
    /\ At("readmit") => EndsWith(cur, Launched) \/ EndsWith(cur, Admitted)
    /\ At("abort") => /\ height[cur] \in Ticket .. Stopped
                      /\ alloc = "captured" => durable[cur] >= Launched
                      /\ alloc = "released" => EndsWith(cur, Stopped)

\* The unit ran, if at all, and never will again.
Over == Ended \cup {"gone"}

\* What the journal says of a unit.
Units ==
    /\ \A r \in Runs :
        /\ unit[r] # "none" => durable[r] >= Launched
        /\ unit[r] = "late" => height[r] = Launched
        /\ height[r] >= Stopped => unit[r] \in Over
        /\ executions[r] # 0 => /\ executions[r] = 1
                                /\ durable[r] >= Admitted
                                /\ unit[r] \notin {"none", "late", "waiting"}
    /\ alloc \in {"launched", "captured", "released"} => unit[cur] \notin {"none", "late"}
    /\ At("record") => unit[cur] \in Over

\* No completion of r was sent yet.
Unpublished(r) == srv[r] # "completed" /\ <<"complete", r>> \notin late

\* What the journal says of a lease, and of the requests that may still come.
Leases ==
    /\ \A r \in Runs :
        /\ output[r] => height[r] >= Stopped
        /\ outcome[r] # None => height[r] = Acknowledged /\ srv[r] = outcome[r]
        /\ srv[r] \in {"stopped", "completed"} => durable[r] >= Stopped
        /\ srv[r] = "completed" => output[r]
        /\ <<"stop", r>> \in late => durable[r] >= Stopped
        /\ <<"complete", r>> \in late => durable[r] >= Stopped /\ output[r]
    /\ pc \in {"renew", "complete"} \/ (At("release") /\ mode = "run") => output[cur]
    /\ ~At("idle") /\ ~At("ackCompleted") /\ mode \in {"run", "abort"} => Unpublished(cur)
    /\ At("notify") /\ mode = "reconcile" =>
        /\ srv[cur] \in {"claimed", "quarantined", "stopped"}
        /\ srv[cur] = "claimed" => ~output[cur]
    /\ At("ackCompleted") => srv[cur] = "completed"
    /\ At("ackStopped") => srv[cur] = "stopped"

\* The journal of r was begun and may, after a power loss, be unresolved.
Open(r) == height[r] # Absent /\ durable[r] # Acknowledged

\* One worker, one open Run; a session that begins one found none.
OneOpen ==
    /\ \A r, other \in Runs : Open(r) /\ Open(other) => r = other
    /\ At("ticket") => \A r \in Runs : ~Open(r)

IInv == TypeOK /\ Located /\ Recorded /\ Units /\ Leases /\ OneOpen

-----------------------------------------------------------------------------
\* The start: nothing is on the disk, the bus or the server, no session runs.
LEMMA InitInv == Init => IInv
  <1> SUFFICES ASSUME Init
               PROVE  IInv
    OBVIOUS
  <1> USE WorkerAssumption, FaultAssumption DEF Init, LeaseInit, JournalInit, UnitInit, At
  <1>1. TypeOK
    <2>1. LeaseTypeOK
      BY DEF LeaseTypeOK, Leased, Acked
    <2>2. JournalTypeOK
      BY DEF JournalTypeOK, Absent, Acknowledged
    <2>3. unit \in [Runs -> UnitStates] /\ executions \in [Runs -> Nat]
      BY DEF UnitStates
    <2>4. pc \in Steps /\ alloc \in Allocations
      BY DEF Steps, Allocations
    <2>5. leftover \subseteq Runs /\ late \subseteq Requests \X Runs
      OBVIOUS
    <2>6. faults \in 0 .. MaxFaults
      OBVIOUS
    <2>7. /\ mode \in {"run", "abort", "reconcile"} /\ cur \in Runs \cup {None}
          /\ transport \in BOOLEAN /\ bus \in BOOLEAN /\ frame \in BOOLEAN
      OBVIOUS
    <2>8. QED
      BY <2>1, <2>2, <2>3, <2>4, <2>5, <2>6, <2>7, Zenon DEF TypeOK
  <1>2. Located
    BY DEF Located, RunSteps, SealSteps, ReconcileSteps
  <1>3. Recorded
    BY DEF Recorded
  <1>4. Units
    BY DEF Units, Absent, Stopped
  <1>5. Leases
    BY DEF Leases
  <1>6. OneOpen
    BY DEF OneOpen, Open
  <1>7. QED
    BY <1>1, <1>2, <1>3, <1>4, <1>5, <1>6 DEF IInv

\* The tables that say where a tick, a release and a publication lead.
LEMMA Tables ==
    /\ pc \in ForcedTicks => /\ AfterTick[pc] \in {"fetch", "prepare", "go", "complete"}
                             /\ AfterTick[pc] = CASE pc = "lease" -> "fetch"
                                                  [] pc = "tick" -> "prepare"
                                                  [] pc = "permit" -> "go"
                                                  [] OTHER -> "complete"
    /\ mode \in {"run", "abort", "reconcile"} =>
         AfterRelease[mode] = CASE mode = "run" -> "renew"
                                [] mode = "abort" -> "notify"
                                [] OTHER -> "status"
    /\ DOMAIN Publication = {"prepare", "admit", "readmit", "record", "ackCompleted", "ackStopped"}
    /\ pc \in DOMAIN Publication =>
         Publication[pc] = CASE pc = "prepare" -> Launched
                             [] pc \in {"admit", "readmit"} -> Admitted
                             [] pc = "record" -> Stopped
                             [] OTHER -> Acknowledged
  BY DEF ForcedTicks, AfterTick, AfterRelease, Publication

-----------------------------------------------------------------------------
\* The session alone: its types, its path and its allocation.
SessionTypeOK ==
    /\ pc \in Steps
    /\ mode \in {"run", "abort", "reconcile"}
    /\ cur \in Runs \cup {None}
    /\ alloc \in Allocations
    /\ transport \in BOOLEAN /\ bus \in BOOLEAN /\ frame \in BOOLEAN
    /\ leftover \subseteq Runs

\* An exception leads to _abort, or ends the session.
LEMMA RaiseLocated ==
    ASSUME SessionTypeOK, Located, ~At("idle"), NEW helper \in BOOLEAN, Raise(helper)
    PROVE  SessionTypeOK' /\ Located'
  <1>1. CASE InTry
    BY <1>1 DEF SessionTypeOK, Located, Raise, InTry, At, Steps, AbortSteps, RunSteps,
       SealSteps, ReconcileSteps, PublishSteps, Allocations
  <1>2. CASE ~InTry
    BY <1>2 DEF SessionTypeOK, Located, Raise, Exit, Idle, At, Steps, RunSteps,
       SealSteps, ReconcileSteps, Allocations
  <1>3. QED
    BY <1>1, <1>2

\* A session that ends is idle.
LEMMA ExitLocated ==
    ASSUME SessionTypeOK, Located, ~At("idle"), Exit
    PROVE  SessionTypeOK' /\ Located'
  BY DEF SessionTypeOK, Located, Exit, Idle, At, Steps, RunSteps, SealSteps,
     ReconcileSteps, Allocations

\* Every step of a session leads to a step of its path.
LEMMA SessionLocated ==
    ASSUME SessionTypeOK, Located, Session
    PROVE  SessionTypeOK' /\ Located'
  <1> USE DEF SessionTypeOK, Located, At
  <1> DEFINE Raised == ~At("idle") /\ \E helper \in BOOLEAN : Raise(helper)
             Exited == ~At("idle") /\ Exit
  <1>1. CASE Raised \/ Exited
    BY <1>1, RaiseLocated, ExitLocated
  <1>2. CASE ClaimRaises \/ TickRaises \/ FetchRaises \/ CompleteRaises \/ NotifyRaises \/ StatusRaises
    <2>1. Raised
      BY <1>2 DEF ClaimRaises, TickRaises, FetchRaises, CompleteRaises, NotifyRaises,
         StatusRaises, CallRaises, Ticking, ForcedTicks
    <2>2. QED
      BY <2>1, <1>1
  <1>3. CASE PrepareTicketRaises \/ TickCancelled \/ TickStale \/ CheckFails \/ SealTimesOut
             \/ RecordRefused \/ ReleaseRaises \/ ObserverUnknown \/ RetainRaises
    <2>1. Raised
      BY <1>3 DEF PrepareTicketRaises, TickCancelled, TickStale, CheckFails, SealTimesOut,
         RecordRefused, ReleaseRaises, ObserverUnknown, RetainRaises, Ticking, ForcedTicks
    <2>2. QED
      BY <2>1, <1>1
  <1>4. CASE PublishFails \/ Acknowledge
    <2>1. Raised \/ Exited
      BY <1>4, Tables DEF PublishFails, Acknowledge
    <2>2. QED
      BY <2>1, <1>1
  <1> USE DEF Goto, Steps, RunSteps, SealSteps, PublishSteps, AbortSteps, ReconcileSteps, Allocations
  <1>5. CASE PrepareTicket \/ Claim \/ Fetch \/ Prepare \/ Ready
    BY <1>5 DEF PrepareTicket, Claim, Fetch, Prepare, Ready
  <1>6. CASE Launch \/ LaunchRaises \/ Capture
    BY <1>6 DEF Launch, LaunchRaises, Capture
  <1>7. CASE Admit \/ Go \/ Wait \/ Seal \/ Record
    BY <1>7 DEF Admit, Go, Wait, Seal, Record
  <1>8. CASE Tick
    BY <1>8, Tables DEF Tick, ForcedTicks
  <1>9. CASE Release
    BY <1>9, Tables DEF Release
  <1>10. CASE Complete \/ Notify \/ Status \/ Retain
    BY <1>10 DEF Complete, Notify, Status, Retain
  <1>11. CASE AbortUnidentified
    <2>1. Exited
      BY <1>11 DEF AbortUnidentified
    <2>2. QED
      BY <2>1, <1>1
  <1>12. CASE AbortStops
    <2>1. CASE Goto("readmit") /\ UNCHANGED alloc
      BY <1>12, <2>1 DEF AbortStops
    <2>2. CASE Exit
      <3>1. Exited
        BY <1>12, <2>2 DEF AbortStops
      <3>2. QED
        BY <3>1, <1>1
    <2>3. QED
      BY <1>12, <2>1, <2>2 DEF AbortStops
  <1>13. CASE AbortStopped \/ Readmit
    BY <1>13 DEF AbortStopped, Readmit
  <1>14. QED
    BY <1>1, <1>2, <1>3, <1>4, <1>5, <1>6, <1>7, <1>8, <1>9, <1>10, <1>11, <1>12, <1>13 DEF Session

\* Nor does anything else take a session off its path.
LEMMA LocatedStep ==
    ASSUME SessionTypeOK, Located, [Next]_vars
    PROVE  SessionTypeOK' /\ Located'
  <1> USE DEF SessionTypeOK, Located, At, Steps, RunSteps, SealSteps, ReconcileSteps, Allocations
  <1>1. CASE UNCHANGED vars
    BY <1>1 DEF vars, sessionVars
  <1>2. CASE Session
    BY <1>2, SessionLocated
  <1>3. ASSUME NEW r \in Runs, StartRun(r) \/ StartReconcile(r)
        PROVE  SessionTypeOK' /\ Located'
    BY <1>3 DEF StartRun, StartReconcile
  <1>4. CASE StartRefused
    BY <1>4 DEF StartRefused, sessionVars
  <1>5. ASSUME NEW r \in Runs, UnitStep(r) \/ UnitEnds(r) \/ ServerStep(r)
        PROVE  SessionTypeOK' /\ Located'
    BY <1>5 DEF UnitStep, UnitEnds, ServerStep, sessionVars
  <1>6. ASSUME NEW r \in Runs, TaskCompletes(r)
        PROVE  SessionTypeOK' /\ Located'
    BY <1>6 DEF TaskCompletes
  <1>7. CASE Deliver
    BY <1>7 DEF Deliver, sessionVars
  <1>8. CASE ProcessExit \/ BusLost
    BY <1>8 DEF ProcessExit, BusLost
  <1>9. CASE Kill \/ PowerLoss
    BY <1>9 DEF Kill, PowerLoss, Idle
  <1>10. QED
    BY <1>1, <1>2, <1>3, <1>4, <1>5, <1>6, <1>7, <1>8, <1>9 DEF Next, Environment

-----------------------------------------------------------------------------
\* What any step may do to the leases: the server's own transitions, and a
\* completion or a stop of a Run whose session is at it, or delivered late.
LeaseMove ==
    \/ UNCHANGED leaseVars
    \/ \E r \in Runs : CancelTx(r) \/ Lapse(r) \/ ClaimTx(r) \/ HeartbeatTx(r)
    \/ \E r \in Runs : CompleteTx(r) /\ (\/ <<"complete", r>> \in late
                                          \/ (At("complete") /\ pc' = "ackCompleted" /\ r = cur))
    \/ \E r \in Runs : StopTx(r) /\ (\/ <<"stop", r>> \in late
                                      \/ (At("notify") /\ pc' = "ackStopped" /\ r = cur))

\* Whatever changes a lease is one of the moves of LeaseMove.
LEMMA LeaseMoves ==
    ASSUME SessionTypeOK, Located, late \subseteq Requests \X Runs, [Next]_vars
    PROVE  LeaseMove
  <1> USE DEF LeaseMove
  <1> SUFFICES ASSUME ~UNCHANGED leaseVars
               PROVE  LeaseMove
    OBVIOUS
  <1>1. CASE Claim \/ Tick \/ TickCancelled \/ Complete \/ Notify \/ Status
    <2>1. cur \in Runs
      BY <1>1 DEF Located, At, Claim, Tick, TickCancelled, Complete, Notify, Status, Ticking,
         ForcedTicks
    <2>2. QED
      BY <1>1, <2>1 DEF Claim, Tick, TickCancelled, Complete, Notify, Status, Answered, Goto
  <1>2. CASE Deliver
    <2>1. PICK m \in late : \/ m[1] = "claim" /\ ClaimTx(m[2])
                            \/ m[1] = "complete" /\ CompleteTx(m[2])
                            \/ m[1] = "stop" /\ StopTx(m[2])
      BY <1>2 DEF Deliver
    <2>2. m = <<m[1], m[2]>> /\ m[2] \in Runs
      OBVIOUS
    <2>3. QED
      BY <2>1, <2>2
  <1>3. ASSUME NEW r \in Runs, ServerStep(r)
        PROVE  LeaseMove
    BY <1>3 DEF ServerStep
  <1>4. CASE Session
    <2>1. CASE \/ PrepareTicket \/ PrepareTicketRaises \/ ClaimRaises \/ TickStale \/ TickRaises
               \/ PublishFails \/ Fetch \/ FetchRaises \/ CheckFails \/ Prepare \/ Launch
               \/ LaunchRaises \/ Ready \/ Capture \/ Admit \/ Go \/ Wait
      BY <2>1 DEF PrepareTicket, PrepareTicketRaises, ClaimRaises, TickStale, TickRaises,
         PublishFails, Fetch, FetchRaises, CheckFails, Prepare, Launch, LaunchRaises, Ready,
         Capture, Admit, Go, Wait, CallRaises, Publish, Local
    <2>2. CASE \/ Seal \/ SealTimesOut \/ Record \/ RecordRefused \/ Release \/ ReleaseRaises
               \/ ObserverUnknown \/ CompleteRaises \/ NotifyRaises \/ Acknowledge
               \/ AbortUnidentified \/ AbortStops \/ AbortStopped \/ Readmit
               \/ Retain \/ RetainRaises \/ StatusRaises
      BY <2>2 DEF Seal, SealTimesOut, Record, RecordRefused, Release, ReleaseRaises,
         ObserverUnknown, CompleteRaises, NotifyRaises, Acknowledge, AbortUnidentified,
         AbortStops, AbortStopped, Readmit, Retain, RetainRaises, StatusRaises, CallRaises,
         Publish, Local
    <2>3. QED
      BY <1>1, <1>4, <2>1, <2>2 DEF Session
  <1>5. CASE \/ \E r \in Runs : \/ StartRun(r) \/ StartReconcile(r) \/ UnitStep(r) \/ UnitEnds(r)
                                \/ TaskCompletes(r)
             \/ StartRefused \/ ProcessExit \/ BusLost \/ Kill \/ PowerLoss
    BY <1>5 DEF StartRun, StartReconcile, StartRefused, UnitStep, UnitEnds, TaskCompletes,
       ProcessExit, BusLost, Kill, PowerLoss, Local
  <1>6. QED
    BY <1>2, <1>3, <1>4, <1>5 DEF Next, Environment, vars

\* What any step may do to the units: their own life, stops, a launch and a
\* GO by the session that is at it, and the loss of all at once.
UnitMove ==
    \/ UNCHANGED unitVars
    \/ \E r \in Runs : \/ LateStart(r) \/ GuardEof(r) \/ Collect(r) \/ Ends(r) \/ Dies(r)
                       \/ Completes(r) \/ StopUnit(r)
    \/ At("launch") /\ (StartUnit(cur) \/ StartUnitUnknown(cur))
    \/ At("go") /\ ReceiveGo(cur)
    \/ PowerLossUnits

\* Whatever changes a unit is one of the moves of UnitMove.
LEMMA UnitMoves ==
    ASSUME SessionTypeOK, Located, [Next]_vars
    PROVE  UnitMove
  <1> USE DEF UnitMove
  <1> SUFFICES ASSUME ~UNCHANGED unitVars
               PROVE  UnitMove
    OBVIOUS
  <1>1. CASE ClaimRaises \/ TickRaises \/ FetchRaises \/ CompleteRaises \/ NotifyRaises \/ StatusRaises
             \/ AbortUnidentified
    <2>1. RequestStop
      BY <1>1 DEF ClaimRaises, TickRaises, FetchRaises, CompleteRaises, NotifyRaises,
         StatusRaises, CallRaises, AbortUnidentified, Local
    <2>2. StopUnit(cur)
      BY <2>1 DEF RequestStop
    <2>3. cur \in Runs
      BY <1>1 DEF ClaimRaises, TickRaises, FetchRaises, CompleteRaises, NotifyRaises,
         StatusRaises, AbortUnidentified, Located, At, Ticking, ForcedTicks
    <2>4. QED
      BY <2>2, <2>3
  <1>2. CASE AbortStops \/ Retain
    BY <1>2 DEF AbortStops, Retain, Located, At
  <1>3. CASE Launch \/ LaunchRaises \/ Go
    BY <1>3 DEF Launch, LaunchRaises, Go
  <1>4. CASE Session
    <2>1. CASE \/ PrepareTicket \/ PrepareTicketRaises \/ Claim \/ Tick \/ TickCancelled
               \/ TickStale \/ PublishFails \/ Fetch \/ CheckFails \/ Prepare \/ Ready \/ Capture
               \/ Admit \/ Wait
      BY <2>1 DEF PrepareTicket, PrepareTicketRaises, Claim, Tick, TickCancelled, TickStale,
         PublishFails, Fetch, CheckFails, Prepare, Ready, Capture, Admit, Wait, Publish,
         Answered, Local
    <2>2. CASE \/ Seal \/ SealTimesOut \/ Record \/ RecordRefused \/ Release \/ ReleaseRaises
               \/ ObserverUnknown \/ Complete \/ Notify \/ Acknowledge \/ AbortStopped
               \/ Readmit \/ RetainRaises \/ Status
      BY <2>2 DEF Seal, SealTimesOut, Record, RecordRefused, Release, ReleaseRaises,
         ObserverUnknown, Complete, Notify, Acknowledge, AbortStopped, Readmit, RetainRaises,
         Status, Publish, Answered, Local
    <2>3. QED
      BY <1>1, <1>2, <1>3, <1>4, <2>1, <2>2 DEF Session
  <1>5. CASE \E r \in Runs : UnitStep(r) \/ UnitEnds(r) \/ TaskCompletes(r)
    BY <1>5 DEF UnitStep, UnitEnds, TaskCompletes
  <1>6. CASE PowerLoss
    BY <1>6 DEF PowerLoss
  <1>7. CASE \/ \E r \in Runs : StartRun(r) \/ StartReconcile(r) \/ ServerStep(r)
             \/ StartRefused \/ Deliver \/ ProcessExit \/ BusLost \/ Kill
    BY <1>7 DEF StartRun, StartReconcile, ServerStep, StartRefused, Deliver, ProcessExit,
       BusLost, Kill, Local
  <1>8. QED
    BY <1>4, <1>5, <1>6, <1>7 DEF Next, Environment, vars

-----------------------------------------------------------------------------
\* What any step may do to the journals.
TicketMove ==
    \E h, d \in Absent .. Ticket :
        /\ d <= h
        /\ height' = [height EXCEPT ![cur] = h]
        /\ durable' = [durable EXCEPT ![cur] = d]
        /\ UNCHANGED <<output, outcome>>

PublishMove(p) ==
    Publishes(cur, p, Sealed, Verdict) \/ PublishRaises(cur, p, Sealed, Verdict)

JournalMove ==
    \/ UNCHANGED journalVars
    \/ AdoptsAll
    \/ \E r \in Runs : Adopts(r)
    \/ At("ticket") /\ TicketMove
    \/ At("prepare") /\ PublishMove(Launched)
    \/ pc \in {"admit", "readmit"} /\ PublishMove(Admitted)
    \/ At("record") /\ PublishMove(Stopped)
    \/ pc \in {"ackCompleted", "ackStopped"} /\ PublishMove(Acknowledged)
    \/ PowerLossJournal /\ pc' = "idle"

\* Whatever changes a journal is one of the moves of JournalMove.
LEMMA JournalMoves ==
    ASSUME SessionTypeOK, Located, [Next]_vars
    PROVE  JournalMove
  <1> USE DEF JournalMove
  <1> SUFFICES ASSUME ~UNCHANGED journalVars
               PROVE  JournalMove
    OBVIOUS
  <1>1. CASE PrepareTicket \/ PrepareTicketRaises
    <2>1. CASE PrepareTicket
      <3>1. Ticket \in Absent .. Ticket /\ Ticket <= Ticket
        BY DEF Absent, Ticket
      <3>2. QED
        BY <2>1, <3>1 DEF PrepareTicket, TicketMove, At
    <2>2. CASE PrepareTicketRaises
      <3>1. \A h \in {Absent, Directory, Ticket} : h \in Absent .. Ticket
        BY DEF Absent, Directory, Ticket
      <3>2. QED
        BY <2>2, <3>1 DEF PrepareTicketRaises, TicketMove, At
    <2>3. QED
      BY <1>1, <2>1, <2>2
  <1>2. CASE Prepare \/ Admit \/ Record \/ Acknowledge \/ Readmit
    BY <1>2 DEF Prepare, Admit, Record, Acknowledge, Readmit, Publish, PublishMove, At
  <1>3. CASE PublishFails
    BY <1>3, Tables DEF PublishFails, PublishMove, At
  <1>4. CASE RecordRefused \/ AbortStops \/ AbortStopped
    BY <1>4 DEF RecordRefused, AbortStops, AbortStopped, Located, At
  <1>5. CASE Session
    <2>1. CASE \/ Claim \/ ClaimRaises \/ Tick \/ TickCancelled \/ TickStale \/ TickRaises
               \/ Fetch \/ FetchRaises \/ CheckFails \/ Launch \/ LaunchRaises \/ Ready
               \/ Capture \/ Go \/ Wait
      BY <2>1 DEF Claim, ClaimRaises, Tick, TickCancelled, TickStale, TickRaises, Fetch,
         FetchRaises, CheckFails, Launch, LaunchRaises, Ready, Capture, Go, Wait, CallRaises,
         Answered, Local
    <2>2. CASE \/ Seal \/ SealTimesOut \/ Release \/ ReleaseRaises \/ ObserverUnknown \/ Complete
               \/ CompleteRaises \/ Notify \/ NotifyRaises \/ AbortUnidentified
               \/ Retain \/ RetainRaises \/ Status \/ StatusRaises
      BY <2>2 DEF Seal, SealTimesOut, Release, ReleaseRaises, ObserverUnknown, Complete,
         CompleteRaises, Notify, NotifyRaises, AbortUnidentified, Retain, RetainRaises, Status,
         StatusRaises, CallRaises, Answered, Local
    <2>3. QED
      BY <1>1, <1>2, <1>3, <1>4, <1>5, <2>1, <2>2 DEF Session
  <1>6. CASE StartRefused \/ \E r \in Runs : StartRun(r) \/ StartReconcile(r)
    BY <1>6 DEF StartRefused, StartRun, StartReconcile
  <1>7. CASE PowerLoss
    BY <1>7 DEF PowerLoss, Idle
  <1>8. CASE \/ \E r \in Runs : UnitStep(r) \/ UnitEnds(r) \/ TaskCompletes(r) \/ ServerStep(r)
             \/ Deliver \/ ProcessExit \/ BusLost \/ Kill
    BY <1>8 DEF UnitStep, UnitEnds, TaskCompletes, ServerStep, Deliver, ProcessExit, BusLost,
       Kill, Local
  <1>9. QED
    BY <1>5, <1>6, <1>7, <1>8 DEF Next, Environment, vars

\* The journal's records by number.
Records == Absent .. Acknowledged

\* The records are the numbers 0 to 6.
LEMMA RecordNumbers ==
    /\ Absent = 0 /\ Directory = 1 /\ Ticket = 2 /\ Launched = 3 /\ Admitted = 4
    /\ Stopped = 5 /\ Acknowledged = 6
    /\ Records = 0 .. 6
  BY DEF Absent, Directory, Ticket, Launched, Admitted, Stopped, Acknowledged, Records

\* What one Run's journal may become: the same or a part of it that is at
\* least as durable, or one record more, which the session at that step adds.
Advances(r) ==
    /\ r = cur
    /\ \/ At("ticket") /\ height'[r] \in Absent .. Ticket
       \/ At("prepare") /\ height[r] = Ticket /\ height'[r] = Launched
       \/ pc \in {"admit", "readmit"} /\ height[r] = Launched /\ height'[r] = Admitted
       \/ At("record") /\ height[r] = Admitted /\ height'[r] = Stopped
       \/ pc \in {"ackCompleted", "ackStopped"} /\ height[r] = Stopped /\ height'[r] = Acknowledged

\* A move of the journal changes each Run's part of it as Advances has it.
LEMMA JournalSteps ==
    ASSUME SessionTypeOK, Located, Recorded, JournalTypeOK, JournalMove
    PROVE  /\ JournalTypeOK'
           /\ \A r \in Runs : /\ durable[r] <= durable'[r]
                              /\ height'[r] <= height[r] \/ Advances(r)
  <1> USE RecordNumbers DEF JournalTypeOK
  <1>0. \A r \in Runs : height[r] \in Records /\ durable[r] \in Records /\ durable[r] <= height[r]
    BY DEF Records
  <1>1. CASE UNCHANGED journalVars
    BY <1>1, <1>0 DEF journalVars
  <1>2. CASE AdoptsAll \/ \E r \in Runs : Adopts(r)
    BY <1>2, <1>0 DEF AdoptsAll, Adopts
  <1>3. CASE At("ticket") /\ TicketMove
    <2>1. cur \in Runs /\ durable[cur] = 0
      BY <1>3 DEF Located, Recorded, EndsWith, At
    <2>2. QED
      BY <1>3, <1>0, <2>1 DEF TicketMove, Advances
  <1>4. ASSUME NEW p \in {Launched, Admitted, Stopped, Acknowledged}, cur \in Runs, PublishMove(p),
               p = Launched => At("prepare"), p = Admitted => pc \in {"admit", "readmit"},
               p = Stopped => At("record"), p = Acknowledged => pc \in {"ackCompleted", "ackStopped"}
        PROVE  /\ JournalTypeOK'
               /\ \A r \in Runs : /\ durable[r] <= durable'[r]
                                  /\ height'[r] <= height[r] \/ Advances(r)
    <2>1. height[cur] \in {p - 1, p} /\ p \in Records
      BY <1>4 DEF PublishMove, Publishes, PublishRaises
    <2>2. /\ height' = [height EXCEPT ![cur] = p] \/ height' = height
          /\ \/ durable' = [durable EXCEPT ![cur] = p] /\ height' = [height EXCEPT ![cur] = p]
             \/ durable' = [durable EXCEPT ![cur] = height[cur]]
      BY <1>4 DEF PublishMove, Publishes, PublishRaises, Visible
    <2>3. height' \in [Runs -> Records] /\ durable' \in [Runs -> Records]
      BY <2>1, <2>2, <1>0
    <2>4. \A r \in Runs : durable[r] <= durable'[r] /\ durable'[r] <= height'[r]
      BY <2>1, <2>2, <1>0
    <2>5. \A r \in Runs : height'[r] <= height[r] \/ Advances(r)
      BY <1>4, <2>1, <2>2, <1>0 DEF Advances, At
    <2>6. output' \in [Runs -> BOOLEAN]
      BY <1>4 DEF PublishMove, Publishes, PublishRaises, Visible, Sealed
    <2>7. outcome' \in [Runs -> {None, "completed", "stopped"}]
      BY <1>4 DEF PublishMove, Publishes, PublishRaises, Visible, Verdict
    <2>8. QED
      BY <2>3, <2>4, <2>5, <2>6, <2>7 DEF Records
  <1>5. CASE PowerLossJournal
    <2>1. /\ height' \in [Runs -> Records] /\ durable' = height'
          /\ \A r \in Runs : durable[r] <= height'[r] /\ height'[r] <= height[r]
      BY <1>5, <1>0 DEF PowerLossJournal, Records
    <2>2. output' \in [Runs -> BOOLEAN] /\ outcome' \in [Runs -> {None, "completed", "stopped"}]
      BY <1>5 DEF PowerLossJournal
    <2>3. QED
      BY <2>1, <2>2, <1>0 DEF Records
  <1>6. QED
    BY <1>1, <1>2, <1>3, <1>4, <1>5 DEF JournalMove, Located, At

-----------------------------------------------------------------------------
\* Records of the session's own Run.

\* The exception path finds the Run's journal somewhere after the ticket.
LEMMA RaiseRecorded ==
    ASSUME SessionTypeOK, Located, ~At("idle"), NEW helper \in BOOLEAN, Raise(helper),
           InTry => /\ height'[cur] \in Ticket .. Stopped
                    /\ alloc = "captured" => durable'[cur] >= Launched
                    /\ alloc = "released" => height'[cur] = Stopped /\ durable'[cur] = Stopped
    PROVE  Recorded'
  <1>1. CASE InTry
    BY <1>1 DEF Raise, Recorded, EndsWith, At
  <1>2. CASE ~InTry
    BY <1>2 DEF Raise, Exit, Idle, Recorded, At
  <1>3. QED
    BY <1>1, <1>2

\* In run's try the journal has its ticket; with a captured unit, its launch.
LEMMA TryRecorded ==
    ASSUME SessionTypeOK, Located, Recorded, JournalTypeOK, InTry, ~At("idle")
    PROVE  /\ height[cur] \in Ticket .. Stopped
           /\ alloc = "captured" => durable[cur] >= Launched
           /\ alloc = "released" => EndsWith(cur, Stopped)
  <1>1. pc \in (RunSteps \cup SealSteps \cup {"renew"}) \ {"ticket", "claim", "lease"}
    BY DEF InTry, At, SessionTypeOK, Located, Steps, RunSteps, SealSteps, PublishSteps,
       AbortSteps, ReconcileSteps
  <1>2. QED
    BY <1>1, RecordNumbers DEF Located, Recorded, EndsWith, RunSteps, SealSteps, At

\* A session keeps what its step says of the journal of its Run.
LEMMA SessionRecorded ==
    ASSUME TypeOK, SessionTypeOK, Located, Recorded, Session
    PROVE  Recorded'
  <1> USE RecordNumbers DEF At
  <1>0. /\ JournalTypeOK
        /\ ~At("idle") => cur \in Runs
    BY DEF TypeOK, Located
  <1>a. cur \in Runs => height[cur] \in 0 .. 6 /\ durable[cur] \in 0 .. 6 /\ durable[cur] <= height[cur]
    BY DEF TypeOK, JournalTypeOK
  <1>1. CASE \/ ClaimRaises \/ TickRaises \/ FetchRaises \/ CompleteRaises \/ NotifyRaises
             \/ StatusRaises \/ TickCancelled \/ TickStale \/ CheckFails \/ SealTimesOut
             \/ ReleaseRaises \/ ObserverUnknown \/ RetainRaises
    <2>1. ~At("idle") /\ UNCHANGED journalVars /\ \E helper \in BOOLEAN : Raise(helper)
      BY <1>1 DEF ClaimRaises, TickRaises, FetchRaises, CompleteRaises, NotifyRaises,
         StatusRaises, TickCancelled, TickStale, CheckFails, SealTimesOut, ReleaseRaises,
         ObserverUnknown, RetainRaises, CallRaises, Answered, Local, Ticking, ForcedTicks,
         SessionTypeOK
    <2>2. QED
      BY <2>1, <1>0, TryRecorded, RaiseRecorded DEF journalVars, TypeOK, EndsWith
  <1>2. CASE PrepareTicketRaises
    BY <1>2, RaiseRecorded DEF PrepareTicketRaises, InTry
  <1>3. CASE PublishFails
    <2>1. pc \in {"prepare", "admit", "readmit", "record", "ackCompleted", "ackStopped"} /\ cur \in Runs
      BY <1>3, Tables, <1>0 DEF PublishFails
    <2>2. PublishRaises(cur, Publication[pc], Sealed, Verdict) /\ Raise(transport)
      BY <1>3 DEF PublishFails
    <2>3. ASSUME InTry
          PROVE  /\ height'[cur] \in Ticket .. Stopped
                 /\ alloc = "captured" => durable'[cur] >= Launched
                 /\ alloc # "released"
      <3>1. CASE pc = "prepare"
        BY <3>1, <2>1, <2>2, Tables, <1>a DEF PublishRaises, Visible, Recorded, EndsWith,
           TypeOK, JournalTypeOK, Located
      <3>2. CASE pc = "admit"
        BY <3>2, <2>1, <2>2, Tables, <1>a DEF PublishRaises, Visible, Recorded, EndsWith,
           TypeOK, JournalTypeOK, Located
      <3>3. CASE pc = "record"
        BY <3>3, <2>1, <2>2, Tables, <1>a DEF PublishRaises, Visible, Recorded, EndsWith,
           TypeOK, JournalTypeOK, Located, SealSteps
      <3>4. QED
        BY <2>1, <2>3, <3>1, <3>2, <3>3 DEF InTry, Located
    <2>4. QED
      BY <2>1, <2>2, <2>3, RaiseRecorded DEF SessionTypeOK
  <1>4. CASE RecordRefused
    BY <1>4, <1>a, <1>0, RaiseRecorded DEF RecordRefused, Adopts, Recorded, EndsWith, Located,
       SealSteps, SessionTypeOK, TypeOK, JournalTypeOK
  <1>5. CASE PrepareTicket
    BY <1>5, <1>0 DEF PrepareTicket, Goto, Recorded, EndsWith, TypeOK, JournalTypeOK
  <1>6. CASE Claim \/ Fetch \/ Ready \/ Capture \/ Go \/ Wait \/ Seal \/ Launch
    BY <1>6 DEF Claim, Fetch, Ready, Capture, Go, Wait, Seal, Launch, Goto, Answered, Local,
       journalVars, Recorded, EndsWith
  <1>7. CASE LaunchRaises
    BY <1>7, <1>0, <1>a DEF LaunchRaises, journalVars, Recorded, EndsWith
  <1>8. CASE Tick
    BY <1>8, Tables DEF Tick, ForcedTicks, Goto, Answered, journalVars, Recorded, EndsWith
  <1>9. CASE Release
    BY <1>9, Tables DEF Release, Goto, Local, journalVars, Recorded, EndsWith, SessionTypeOK
  <1>10. CASE Prepare \/ Admit \/ Record \/ Readmit
    BY <1>10, <1>0, <1>a DEF Prepare, Admit, Record, Readmit, Publish, Publishes, Visible, Goto,
       Recorded, EndsWith, TypeOK, JournalTypeOK
  <1>11. CASE Acknowledge \/ AbortUnidentified
    BY <1>11 DEF Acknowledge, AbortUnidentified, Exit, Idle, Recorded
  <1>12. CASE Complete \/ Notify \/ Status
    BY <1>12 DEF Complete, Notify, Status, Goto, Answered, journalVars, Recorded, EndsWith
  <1>13. CASE Retain
    BY <1>13 DEF Retain, Goto, journalVars, Recorded, EndsWith
  <1>14. CASE AbortStops
    <2>1. CASE Exit
      BY <2>1 DEF Exit, Idle, Recorded
    <2>2. CASE Goto("readmit")
      BY <2>2, <1>14, <1>0, <1>a DEF AbortStops, Adopts, Goto, Recorded, EndsWith, TypeOK, JournalTypeOK
    <2>3. QED
      BY <1>14, <2>1, <2>2 DEF AbortStops
  <1>15. CASE AbortStopped
    BY <1>15, <1>0, <1>a DEF AbortStopped, Adopts, Goto, Recorded, EndsWith, TypeOK, JournalTypeOK
  <1>16. QED
    BY <1>1, <1>2, <1>3, <1>4, <1>5, <1>6, <1>7, <1>8, <1>9, <1>10, <1>11, <1>12, <1>13, <1>14,
       <1>15 DEF Session

\* A session's own journal is written by nobody else.
LEMMA RecordedStep ==
    ASSUME TypeOK, SessionTypeOK, Located, Recorded, OneOpen, [Next]_vars
    PROVE  Recorded'
  <1> USE DEF At
  <1>1. CASE UNCHANGED vars
    BY <1>1 DEF vars, sessionVars, journalVars, Recorded, EndsWith
  <1>2. CASE Session
    BY <1>2, SessionRecorded
  <1>3. ASSUME NEW r \in Runs, StartRun(r)
        PROVE  Recorded'
    BY <1>3 DEF StartRun, AdoptsAll, Recorded, EndsWith
  <1>4. ASSUME NEW r \in Runs, StartReconcile(r)
        PROVE  Recorded'
    BY <1>4, RecordNumbers DEF StartReconcile, MayReconcile, Adopts, Recorded, EndsWith,
       TypeOK, JournalTypeOK
  <1>5. CASE StartRefused \/ Kill \/ PowerLoss
    BY <1>5 DEF StartRefused, Kill, PowerLoss, sessionVars, Idle, Recorded
  <1>6. CASE \/ \E r \in Runs : UnitStep(r) \/ UnitEnds(r) \/ TaskCompletes(r) \/ ServerStep(r)
             \/ Deliver \/ ProcessExit \/ BusLost
    BY <1>6 DEF UnitStep, UnitEnds, TaskCompletes, ServerStep, Deliver, ProcessExit, BusLost,
       Local, sessionVars, journalVars, Recorded, EndsWith
  <1>7. QED
    BY <1>1, <1>2, <1>3, <1>4, <1>5, <1>6 DEF Next, Environment

-----------------------------------------------------------------------------
\* Units.

Identified == {"launched", "captured", "released"}

\* An observer gets hold of a unit only by launching or retaining it and lets
\* go of it only by release; a session comes to record a stop only after
\* wait_stopped.
HoldMove ==
    /\ alloc' \in Identified => \/ alloc \in Identified /\ cur' = cur
                                \/ Launch
                                \/ Retain
    /\ alloc' = "released" => alloc = "released" \/ Release
    /\ pc' = "record" => \/ pc = "record" /\ cur' = cur
                         \/ Seal

\* Where a session holds a Run's unit, and until when.
LEMMA HoldMoves ==
    ASSUME SessionTypeOK, Located, [Next]_vars
    PROVE  HoldMove
  <1> USE DEF HoldMove, At, Identified
  <1>1. CASE UNCHANGED vars
    BY <1>1 DEF vars, sessionVars
  <1>2. CASE Exit \/ \E helper \in BOOLEAN : Raise(helper)
    BY <1>2 DEF Raise, Exit, Idle
  <1>3. CASE \/ ClaimRaises \/ TickRaises \/ FetchRaises \/ CompleteRaises \/ NotifyRaises
             \/ StatusRaises \/ PrepareTicketRaises \/ TickCancelled \/ TickStale \/ CheckFails
             \/ SealTimesOut \/ RecordRefused \/ ReleaseRaises \/ ObserverUnknown \/ RetainRaises
             \/ PublishFails \/ Acknowledge \/ AbortUnidentified
    <2>1. Exit \/ \E helper \in BOOLEAN : Raise(helper)
      BY <1>3 DEF SessionTypeOK, ClaimRaises, TickRaises, FetchRaises, CompleteRaises,
         NotifyRaises, StatusRaises, PrepareTicketRaises, TickCancelled, TickStale, CheckFails,
         SealTimesOut, RecordRefused, ReleaseRaises, ObserverUnknown, RetainRaises,
         PublishFails, Acknowledge, AbortUnidentified, CallRaises
    <2>2. QED
      BY <2>1, <1>2
  <1>4. CASE \/ PrepareTicket \/ Claim \/ Fetch \/ Prepare \/ Launch \/ LaunchRaises \/ Ready
             \/ Admit \/ Go \/ Wait \/ Seal
    BY <1>4 DEF PrepareTicket, Claim, Fetch, Prepare, Launch, LaunchRaises, Ready, Admit, Go,
       Wait, Seal, Goto
  <1>5. CASE Tick
    BY <1>5, Tables DEF Tick, Goto
  <1>6. CASE Release
    BY <1>6, Tables DEF Release, Goto, Located, SealSteps, SessionTypeOK
  <1>7. CASE Capture
    BY <1>7 DEF Capture, Goto, Located
  <1>8. CASE Record \/ Complete \/ Notify \/ AbortStopped \/ Readmit \/ Retain \/ Status
    BY <1>8 DEF Record, Complete, Notify, AbortStopped, Readmit, Retain, Status, Goto
  <1>9. CASE AbortStops
    BY <1>9 DEF AbortStops, Goto, Exit, Idle
  <1>10. CASE \E r \in Runs : StartRun(r) \/ StartReconcile(r)
    BY <1>10 DEF StartRun, StartReconcile, Located
  <1>11. CASE StartRefused \/ Deliver \/ ProcessExit \/ BusLost \/ Kill \/ PowerLoss
    BY <1>11 DEF StartRefused, Deliver, ProcessExit, BusLost, Kill, PowerLoss, Idle, sessionVars
  <1>12. CASE \E r \in Runs : UnitStep(r) \/ UnitEnds(r) \/ TaskCompletes(r) \/ ServerStep(r)
    BY <1>12 DEF UnitStep, UnitEnds, TaskCompletes, ServerStep, sessionVars
  <1>13. QED
    BY <1>1, <1>3, <1>4, <1>5, <1>6, <1>7, <1>8, <1>9, <1>10, <1>11, <1>12
    DEF Next, Session, Environment

\* A unit's life has one direction, and only a launch begins it.
LEMMA UnitSteps ==
    ASSUME TypeOK, SessionTypeOK, Located, UnitMove
    PROVE  /\ unit' \in [Runs -> UnitStates] /\ executions' \in [Runs -> Nat]
           /\ \A r \in Runs :
                /\ unit'[r] # "none" => unit[r] # "none" \/ (At("launch") /\ r = cur)
                /\ unit'[r] = "none" => unit[r] = "none"
                /\ unit'[r] = "late" => unit[r] = "late" \/ (At("launch") /\ r = cur)
                /\ unit[r] \in Over => unit'[r] \in Over
                /\ unit[r] \notin {"none", "late", "waiting"}
                     => unit'[r] \notin {"none", "late", "waiting"}
                /\ \/ executions'[r] = executions[r]
                   \/ /\ At("go") /\ r = cur
                      /\ unit[r] = "waiting" /\ unit'[r] = "executing"
                      /\ executions'[r] = executions[r] + 1
  <1> USE DEF TypeOK, UnitStates, Loaded, Alive, Ended, Over, Unit
  <1>1. CASE UNCHANGED unitVars
    BY <1>1 DEF unitVars
  <1>2. CASE \E r \in Runs : LateStart(r) \/ GuardEof(r) \/ Collect(r) \/ Ends(r)
    BY <1>2 DEF LateStart, GuardEof, Collect, Ends
  <1>3. CASE \E r \in Runs : Dies(r) \/ Completes(r) \/ StopUnit(r)
    BY <1>3 DEF Dies, Completes, StopUnit
  <1>4. CASE At("launch") /\ (StartUnit(cur) \/ StartUnitUnknown(cur))
    BY <1>4 DEF StartUnit, StartUnitUnknown, unitVars, Located, At
  <1>5. CASE At("go") /\ ReceiveGo(cur)
    BY <1>5 DEF ReceiveGo, Located, At
  <1>6. CASE PowerLossUnits
    BY <1>6 DEF PowerLossUnits
  <1>7. QED
    BY <1>1, <1>2, <1>3, <1>4, <1>5, <1>6 DEF UnitMove

\* The journal is always ahead of the unit.
LEMMA UnitsStep ==
    ASSUME TypeOK, SessionTypeOK, Located, Recorded, Units, [Next]_vars
    PROVE  Units'
  <1>1. /\ JournalTypeOK /\ JournalTypeOK'
        /\ \A r \in Runs : durable[r] <= durable'[r] /\ (height'[r] <= height[r] \/ Advances(r))
    BY JournalMoves, JournalSteps DEF TypeOK
  <1>2. \A r \in Runs : /\ height[r] \in 0 .. 6 /\ durable[r] \in 0 .. 6 /\ durable[r] <= height[r]
                        /\ height'[r] \in 0 .. 6 /\ durable'[r] \in 0 .. 6 /\ durable'[r] <= height'[r]
    BY <1>1, RecordNumbers DEF JournalTypeOK
  <1>3. UnitMove
    BY UnitMoves
  <1>4. ASSUME NEW r \in Runs
        PROVE  /\ unit'[r] # "none" => durable'[r] >= Launched
               /\ unit'[r] = "late" => height'[r] = Launched
               /\ height'[r] >= Stopped => unit'[r] \in Over
    <2>1. unit'[r] # "none" => durable'[r] >= Launched
      BY <1>1, <1>2, <1>3, UnitSteps, RecordNumbers DEF Units, Recorded, EndsWith, At
    <2>2. unit'[r] = "late" => height'[r] = Launched
      <3>1. CASE unit[r] = "late"
        <4>1. height[r] = Launched /\ ~(alloc = "captured" /\ r = cur)
          BY <3>1 DEF Units
        <4>2. height'[r] <= Launched \/ unit'[r] = "none"
          BY <4>1, <1>1, <1>2, RecordNumbers DEF Advances, Located, At
        <4>3. QED
          BY <4>2, <2>1, <1>2, RecordNumbers
      <3>2. CASE At("launch") /\ r = cur
        BY <3>2, <2>1, <1>1, <1>2, RecordNumbers DEF Recorded, EndsWith, Advances, At
      <3>3. QED
        BY <3>1, <3>2, <1>3, UnitSteps
    <2>3. height'[r] >= Stopped => unit'[r] \in Over
      <3>1. height'[r] >= Stopped => height[r] >= Stopped \/ (At("record") /\ r = cur)
        BY <1>1, <1>2, RecordNumbers DEF Advances
      <3>2. QED
        BY <3>1, <1>3, UnitSteps DEF Units
    <2>4. QED
      BY <2>1, <2>2, <2>3
  <1>5. ASSUME NEW r \in Runs, executions'[r] # 0
        PROVE  /\ executions'[r] = 1 /\ durable'[r] >= Admitted
               /\ unit'[r] \notin {"none", "late", "waiting"}
    <2>1. CASE executions'[r] = executions[r]
      BY <2>1, <1>5, <1>1, <1>2, <1>3, UnitSteps, RecordNumbers DEF Units
    <2>2. CASE /\ At("go") /\ r = cur /\ unit[r] = "waiting" /\ unit'[r] = "executing"
               /\ executions'[r] = executions[r] + 1
      BY <2>2, <1>1, <1>2, RecordNumbers DEF Units, Recorded, EndsWith, At
    <2>3. QED
      BY <2>1, <2>2, <1>3, UnitSteps
  <1>6. ASSUME alloc' \in Identified
        PROVE  unit'[cur'] \notin {"none", "late"}
    <2>1. CASE alloc \in Identified /\ cur' = cur
      <3>1. cur \in Runs /\ unit[cur] \notin {"none", "late"} /\ ~At("launch")
        BY <2>1 DEF Located, Units, Identified, At
      <3>2. QED
        BY <2>1, <3>1, <1>3, UnitSteps
    <2>2. CASE Launch
      BY <2>2 DEF Launch, StartUnit, Unit, Goto, Located, At, TypeOK
    <2>3. CASE Retain
      BY <2>3 DEF Retain, StopUnit, Unit, Goto, Located, At, TypeOK, Loaded, Alive, Ended
    <2>4. QED
      BY <1>6, <2>1, <2>2, <2>3, HoldMoves DEF HoldMove
  <1>7. ASSUME pc' = "record"
        PROVE  unit'[cur'] \in Over
    <2>1. CASE pc = "record" /\ cur' = cur
      <3>1. cur \in Runs /\ unit[cur] \in Over
        BY <2>1 DEF Located, Units, At
      <3>2. QED
        BY <2>1, <3>1, <1>3, UnitSteps
    <2>2. CASE Seal
      BY <2>2 DEF Seal, ObservedStopped, Goto, Local, unitVars, Over
    <2>3. QED
      BY <1>7, <2>1, <2>2, HoldMoves DEF HoldMove
  <1>8. QED
    BY <1>4, <1>5, <1>6, <1>7 DEF Units, Identified, At

-----------------------------------------------------------------------------
\* Leases.

\* Requests are lost into late only by the session that sends them, and a
\* completion or a stop that was lost ends it.
LEMMA LateMoves ==
    ASSUME SessionTypeOK, Located, late \subseteq Requests \X Runs, [Next]_vars
    PROVE  /\ late' \subseteq Requests \X Runs
           /\ \A r \in Runs :
                /\ <<"complete", r>> \in late' => \/ <<"complete", r>> \in late
                                                  \/ At("complete") /\ r = cur /\ pc' = "idle"
                /\ <<"stop", r>> \in late' => \/ <<"stop", r>> \in late
                                              \/ At("notify") /\ r = cur
  <1>1. CASE late' \subseteq late
    BY <1>1
  <1>2. ASSUME NEW kind \in {"claim", "heartbeat", "input", "complete", "stop"}, NEW refused \in BOOLEAN,
               CallRaises(kind, refused), ~At("idle"),
               kind = "complete" => At("complete"), kind = "stop" => At("notify")
        PROVE  /\ late' \subseteq Requests \X Runs
               /\ \A r \in Runs :
                    /\ <<"complete", r>> \in late' => \/ <<"complete", r>> \in late
                                                      \/ At("complete") /\ r = cur /\ pc' = "idle"
                    /\ <<"stop", r>> \in late' => \/ <<"stop", r>> \in late
                                                  \/ At("notify") /\ r = cur
    <2>1. cur \in Runs
      BY <1>2 DEF Located
    <2>2. late' = late \/ (kind \in Requests /\ late' = late \cup {<<kind, cur>>})
      BY <1>2 DEF CallRaises
    <2>3. kind = "complete" => pc' = "idle"
      BY <1>2 DEF CallRaises, Raise, InTry, Exit, Idle, At
    <2>4. late' \subseteq Requests \X Runs
      BY <2>1, <2>2
    <2>5. ASSUME NEW k \in {"complete", "stop"}, NEW r \in Runs, <<k, r>> \in late', <<k, r>> \notin late
          PROVE  kind = k /\ r = cur
      BY <2>2, <2>5
    <2>6. QED
      BY <1>2, <2>3, <2>4, <2>5
  <1>3. CASE ClaimRaises \/ TickRaises \/ FetchRaises \/ CompleteRaises \/ StatusRaises
    BY <1>3, <1>2 DEF ClaimRaises, TickRaises, FetchRaises, CompleteRaises, StatusRaises, Ticking,
       ForcedTicks, At, MayClaim, MayComplete, Live, SlotFree
  <1>4. CASE NotifyRaises
    BY <1>4, <1>1, <1>2 DEF NotifyRaises, Local, At
  <1>5. CASE \/ PrepareTicket \/ PrepareTicketRaises \/ Claim \/ Tick \/ TickCancelled \/ TickStale
             \/ PublishFails \/ Fetch \/ CheckFails \/ Prepare \/ Launch \/ LaunchRaises
             \/ Ready \/ Capture \/ Admit \/ Go \/ Wait
    <2>1. late' = late
      BY <1>5 DEF PrepareTicket, PrepareTicketRaises, Claim, Tick, TickCancelled, TickStale,
         PublishFails, Fetch, CheckFails, Prepare, Launch, LaunchRaises, Ready, Capture, Admit,
         Go, Wait, Publish, Answered, Local
    <2>2. QED
      BY <2>1, <1>1
  <1>6. CASE \/ Seal \/ SealTimesOut \/ Record \/ RecordRefused \/ Release \/ ReleaseRaises
             \/ ObserverUnknown \/ Complete \/ Notify \/ Acknowledge \/ AbortUnidentified
             \/ AbortStops \/ AbortStopped \/ Readmit \/ Retain \/ RetainRaises \/ Status
    <2>1. late' = late
      BY <1>6 DEF Seal, SealTimesOut, Record, RecordRefused, Release, ReleaseRaises,
         ObserverUnknown, Complete, Notify, Acknowledge, AbortUnidentified, AbortStops,
         AbortStopped, Readmit, Retain, RetainRaises, Status, Publish, Answered, Local
    <2>2. QED
      BY <2>1, <1>1
  <1>7. CASE \/ \E r \in Runs : \/ StartRun(r) \/ StartReconcile(r) \/ UnitStep(r) \/ UnitEnds(r)
                                \/ TaskCompletes(r) \/ ServerStep(r)
             \/ StartRefused \/ Deliver \/ ProcessExit \/ BusLost \/ Kill \/ PowerLoss
             \/ UNCHANGED vars
    <2>1. late' \subseteq late
      BY <1>7 DEF StartRun, StartReconcile, UnitStep, UnitEnds, TaskCompletes, ServerStep,
         StartRefused, Deliver, ProcessExit, BusLost, Kill, PowerLoss, Local, vars
    <2>2. QED
      BY <2>1, <1>1
  <1>8. QED
    BY <1>3, <1>4, <1>5, <1>6, <1>7 DEF Next, Session, Environment

\* What the server holds of a Run moves one way: a stop or a completion stays,
\* and comes only from the session at it or a request of one.
LEMMA LeaseSteps ==
    ASSUME TypeOK, LeaseMove
    PROVE  /\ LeaseTypeOK'
           /\ \A r \in Runs :
                /\ srv[r] \in {"stopped", "completed"} => srv'[r] = srv[r]
                /\ srv'[r] = "completed" =>
                     \/ srv[r] = "completed"
                     \/ srv[r] = "claimed" /\ <<"complete", r>> \in late
                     \/ At("complete") /\ pc' = "ackCompleted" /\ r = cur
                /\ srv'[r] = "stopped" => \/ srv[r] = "stopped"
                                          \/ <<"stop", r>> \in late
                                          \/ At("notify") /\ pc' = "ackStopped" /\ r = cur
                /\ srv[r] \in {"claimed", "quarantined", "stopped"}
                     => srv'[r] \in {"claimed", "quarantined", "stopped", "completed"}
                /\ srv[r] = "quarantined" \/ srv[r] = "stopped" => srv'[r] # "claimed"
  <1> USE DEF TypeOK, LeaseTypeOK, Leased, Acked, Becomes
  <1>1. CASE UNCHANGED leaseVars
    BY <1>1 DEF leaseVars
  <1>2. CASE \E r \in Runs : CancelTx(r) \/ Lapse(r) \/ ClaimTx(r) \/ HeartbeatTx(r)
    BY <1>2 DEF CancelTx, Lapse, ClaimTx, MayClaim, HeartbeatTx, leaseVars
  <1>3. CASE \E r \in Runs : CompleteTx(r) /\ \/ <<"complete", r>> \in late
                                              \/ At("complete") /\ pc' = "ackCompleted" /\ r = cur
    BY <1>3 DEF CompleteTx, MayComplete, Live
  <1>4. CASE \E r \in Runs : StopTx(r) /\ \/ <<"stop", r>> \in late
                                          \/ At("notify") /\ pc' = "ackStopped" /\ r = cur
    BY <1>4 DEF StopTx, leaseVars
  <1>5. QED
    BY <1>1, <1>2, <1>3, <1>4 DEF LeaseMove


\* A stopped record's output is fixed with it, and outlasts what comes later;
\* an outcome is recorded only by the session that acknowledges.
LEMMA OutputSteps ==
    ASSUME SessionTypeOK, Located, Recorded, JournalTypeOK, JournalMove, NEW r \in Runs,
           output[r] => height[r] >= Stopped,
           outcome[r] # None => height[r] = Acknowledged
    PROVE  /\ durable[r] >= Stopped => output'[r] = output[r]
           /\ output'[r] => height'[r] >= Stopped
           /\ outcome'[r] # None =>
                /\ height'[r] = Acknowledged
                /\ \/ outcome'[r] = outcome[r]
                   \/ /\ r = cur /\ pc \in {"ackCompleted", "ackStopped"}
                      /\ outcome'[r] = Verdict
  <1> USE RecordNumbers DEF JournalTypeOK
  <1>0. height[r] \in 0 .. 6 /\ durable[r] \in 0 .. 6 /\ durable[r] <= height[r]
    OBVIOUS
  <1>1. CASE UNCHANGED journalVars
    BY <1>1 DEF journalVars
  <1>2. CASE AdoptsAll \/ \E other \in Runs : Adopts(other)
    BY <1>2 DEF AdoptsAll, Adopts
  <1>3. CASE At("ticket") /\ TicketMove
    BY <1>3, <1>0 DEF TicketMove, Recorded, EndsWith, Located, At
  <1>4. ASSUME NEW p \in {Launched, Admitted, Stopped, Acknowledged}, cur \in Runs, PublishMove(p),
               p = Stopped => At("record"), p = Acknowledged => pc \in {"ackCompleted", "ackStopped"}
        PROVE  /\ durable[r] >= Stopped => output'[r] = output[r]
               /\ output'[r] => height'[r] >= Stopped
               /\ outcome'[r] # None =>
                    /\ height'[r] = Acknowledged
                    /\ \/ outcome'[r] = outcome[r]
                       \/ /\ r = cur /\ pc \in {"ackCompleted", "ackStopped"}
                          /\ outcome'[r] = Verdict
    <2>1. height[cur] \in {p - 1, p} /\ (Visible(cur, p, Sealed, Verdict)
                                           \/ UNCHANGED <<height, output, outcome>>)
      BY <1>4 DEF PublishMove, Publishes, PublishRaises
    <2>2. CASE UNCHANGED <<height, output, outcome>>
      BY <2>2
    <2>3. CASE Visible(cur, p, Sealed, Verdict)
      <3>1. /\ height' = [height EXCEPT ![cur] = p]
            /\ output' = IF p = Stopped THEN [output EXCEPT ![cur] = Sealed] ELSE output
            /\ outcome' = IF p = Acknowledged THEN [outcome EXCEPT ![cur] = Verdict] ELSE outcome
        BY <2>3 DEF Visible
      <3>2. CASE r # cur
        BY <3>1, <3>2
      <3>3. CASE r = cur /\ p = Stopped
        BY <3>1, <3>3, <1>0, <1>4, <2>1 DEF Recorded, EndsWith, At
      <3>4. CASE r = cur /\ p = Acknowledged
        BY <3>1, <3>4, <1>0, <1>4, <2>1
      <3>5. CASE r = cur /\ p \in {Launched, Admitted}
        BY <3>1, <3>5, <1>0, <2>1
      <3>6. QED
        BY <3>2, <3>3, <3>4, <3>5
    <2>4. QED
      BY <2>1, <2>2, <2>3
  <1>5. CASE PowerLossJournal
    <2>1. /\ height'[r] \in 0 .. 6 /\ durable[r] <= height'[r]
          /\ output'[r] = (output[r] /\ height'[r] >= Stopped)
          /\ outcome'[r] = IF height'[r] = Acknowledged THEN outcome[r] ELSE None
      BY <1>5, <1>0 DEF PowerLossJournal
    <2>2. outcome'[r] # None => height'[r] = Acknowledged /\ outcome'[r] = outcome[r]
      BY <2>1
    <2>3. output'[r] => height'[r] >= Stopped
      BY <2>1, Zenon
    <2>4. ASSUME durable[r] >= Stopped
          PROVE  output'[r] = output[r]
      <3>1. (height'[r] >= Stopped) = TRUE
        BY <2>1, <2>4, <1>0
      <3>2. output'[r] = (output[r] /\ TRUE) /\ output[r] \in BOOLEAN
        BY <2>1, <3>1
      <3>3. QED
        BY <3>2, Zenon
    <2>5. QED
      BY <2>2, <2>3, <2>4
  <1>6. QED
    BY <1>1, <1>2, <1>3, <1>4, <1>5 DEF JournalMove, Located, At

\* How a session comes to the steps that tell the server something, and that
\* it keeps its Run and its path on the way.
EntryMove ==
    /\ pc' # "idle" =>
        \/ \E r \in Runs : StartRun(r) \/ StartReconcile(r)
        \/ /\ pc # "idle" /\ cur' = cur
           /\ mode' = mode \/ (mode = "run" /\ mode' = "abort" /\ pc' = "abort")
           /\ pc = "ackCompleted" => pc' = "ackCompleted"
    /\ pc' = "go" => pc = "go" \/ (Tick /\ pc = "permit")
    /\ pc' = "renew" => pc = "renew" \/ (Release /\ mode = "run")
    /\ pc' = "complete" => pc = "complete" \/ (Tick /\ pc = "renew") \/ Status
    /\ pc' = "release" => pc = "release" \/ Record \/ AbortStopped
    /\ pc' = "ackCompleted" => pc = "ackCompleted" \/ Complete \/ Status
    /\ pc' = "ackStopped" => pc = "ackStopped" \/ Notify
    /\ pc' = "notify" => pc = "notify" \/ Status \/ mode = "abort"

\* From where a session comes to the steps that others rely on.
LEMMA EntryMoves ==
    ASSUME SessionTypeOK, Located, [Next]_vars
    PROVE  EntryMove
  <1> USE DEF EntryMove, At
  <1>1. CASE UNCHANGED vars
    BY <1>1 DEF vars, sessionVars
  <1>2. CASE Exit \/ (pc # "idle" /\ \E helper \in BOOLEAN : Raise(helper))
    BY <1>2 DEF Raise, Exit, Idle, InTry, At
  <1>3. CASE \/ ClaimRaises \/ TickRaises \/ FetchRaises \/ CompleteRaises \/ NotifyRaises
             \/ StatusRaises \/ PrepareTicketRaises \/ TickCancelled \/ TickStale \/ CheckFails
             \/ SealTimesOut \/ RecordRefused \/ ReleaseRaises \/ ObserverUnknown \/ RetainRaises
             \/ PublishFails \/ Acknowledge \/ AbortUnidentified
    <2>1. Exit \/ (pc # "idle" /\ \E helper \in BOOLEAN : Raise(helper))
      BY <1>3, Tables DEF SessionTypeOK, ClaimRaises, TickRaises, FetchRaises, CompleteRaises,
         NotifyRaises, StatusRaises, PrepareTicketRaises, TickCancelled, TickStale, CheckFails,
         SealTimesOut, RecordRefused, ReleaseRaises, ObserverUnknown, RetainRaises,
         PublishFails, Acknowledge, AbortUnidentified, CallRaises, Ticking, ForcedTicks
    <2>2. QED
      BY <2>1, <1>2
  <1> USE DEF Goto
  <1>4. CASE \/ PrepareTicket \/ Claim \/ Fetch \/ Prepare \/ Launch \/ LaunchRaises \/ Ready
             \/ Capture \/ Admit \/ Go \/ Wait \/ Seal
    BY <1>4 DEF PrepareTicket, Claim, Fetch, Prepare, Launch, LaunchRaises, Ready, Capture,
       Admit, Go, Wait, Seal, Located, RunSteps
  <1>5. CASE Tick
    BY <1>5, Tables DEF Tick, ForcedTicks
  <1>6. CASE Release
    BY <1>6, Tables DEF Release, SessionTypeOK
  <1>7. CASE Record \/ Complete \/ Notify \/ Status \/ Readmit \/ Retain
    BY <1>7 DEF Record, Complete, Notify, Readmit, Retain, Status
  <1>8. CASE AbortStopped
    BY <1>8 DEF AbortStopped, Located
  <1>9. CASE AbortStops
    BY <1>9, <1>2 DEF AbortStops
  <1>10. CASE \E r \in Runs : StartRun(r) \/ StartReconcile(r)
    BY <1>10 DEF StartRun, StartReconcile
  <1>11. CASE StartRefused \/ Deliver \/ ProcessExit \/ BusLost \/ Kill \/ PowerLoss
    BY <1>11 DEF StartRefused, Deliver, ProcessExit, BusLost, Kill, PowerLoss, Idle, sessionVars
  <1>12. CASE \E r \in Runs : UnitStep(r) \/ UnitEnds(r) \/ TaskCompletes(r) \/ ServerStep(r)
    BY <1>12 DEF UnitStep, UnitEnds, TaskCompletes, ServerStep, sessionVars
  <1>13. QED
    BY <1>1, <1>3, <1>4, <1>5, <1>6, <1>7, <1>8, <1>9, <1>10, <1>11, <1>12
    DEF Next, Session, Environment

\* What a session tells the server, the journal says; what the server says it
\* holds, the session journals.
LEMMA LeasesStep ==
    ASSUME TypeOK, SessionTypeOK, Located, Recorded, Leases, [Next]_vars
    PROVE  Leases'
  <1>1. /\ JournalTypeOK /\ JournalTypeOK' /\ JournalMove
        /\ \A r \in Runs : durable[r] <= durable'[r]
    BY JournalMoves, JournalSteps DEF TypeOK
  <1>2. \A r \in Runs : /\ height[r] \in 0 .. 6 /\ durable[r] \in 0 .. 6 /\ durable[r] <= height[r]
                        /\ height'[r] \in 0 .. 6 /\ durable'[r] \in 0 .. 6 /\ durable'[r] <= height'[r]
    BY <1>1, RecordNumbers DEF JournalTypeOK
  <1>3. \A r \in Runs :
          /\ durable[r] >= Stopped => durable'[r] >= Stopped /\ output'[r] = output[r]
          /\ output'[r] => height'[r] >= Stopped
          /\ outcome'[r] # None =>
               /\ height'[r] = Acknowledged
               /\ \/ outcome'[r] = outcome[r]
                  \/ /\ r = cur /\ pc \in {"ackCompleted", "ackStopped"}
                     /\ outcome'[r] = Verdict
    <2>1. TAKE r \in Runs
    <2>2. /\ output[r] => height[r] >= Stopped
          /\ outcome[r] # None => height[r] = Acknowledged
      BY DEF Leases
    <2>3. durable[r] >= Stopped => durable'[r] >= Stopped
      BY <1>1, <1>2, RecordNumbers
    <2>4. QED
      BY <1>1, <2>2, <2>3, OutputSteps
  <1>4. LeaseMove /\ EntryMove /\ late \subseteq Requests \X Runs
    BY LeaseMoves, EntryMoves DEF TypeOK
  <1>5. pc \in {"release", "notify", "ackStopped", "status", "renew", "complete", "ackCompleted"}
          => cur \in Runs /\ durable[cur] >= Stopped
    BY RecordNumbers DEF Located, Recorded, EndsWith, At
  <1>6. pc' \notin {"idle", "ticket", "retain", "status"} =>
          /\ pc # "idle" /\ cur' = cur /\ cur \in Runs
          /\ mode' = mode \/ (mode = "run" /\ mode' = "abort" /\ pc' = "abort")
          /\ pc = "ackCompleted" => pc' = "ackCompleted"
    BY <1>4 DEF EntryMove, StartRun, StartReconcile, Located, At
  <1>7. ASSUME NEW r \in Runs
        PROVE  /\ output'[r] => height'[r] >= Stopped
               /\ outcome'[r] # None => height'[r] = Acknowledged /\ srv'[r] = outcome'[r]
               /\ srv'[r] \in {"stopped", "completed"} => durable'[r] >= Stopped
               /\ srv'[r] = "completed" => output'[r]
               /\ <<"stop", r>> \in late' => durable'[r] >= Stopped
               /\ <<"complete", r>> \in late' => durable'[r] >= Stopped /\ output'[r]
    <2>1. ASSUME outcome'[r] # None
          PROVE  srv'[r] = outcome'[r]
      <3>1. CASE outcome'[r] = outcome[r]
        <4>1. srv[r] = outcome[r] /\ outcome[r] \in {"stopped", "completed"}
          BY <2>1, <3>1, <1>1 DEF Leases, JournalTypeOK
        <4>2. QED
          BY <3>1, <4>1, <1>4, LeaseSteps
      <3>2. CASE r = cur /\ pc \in {"ackCompleted", "ackStopped"} /\ outcome'[r] = Verdict
        <4>1. srv[r] = Verdict /\ srv[r] \in {"stopped", "completed"}
          BY <3>2 DEF Leases, Verdict, At
        <4>2. QED
          BY <3>2, <4>1, <1>4, LeaseSteps
      <3>3. QED
        BY <2>1, <3>1, <3>2, <1>3
    <2>2. ASSUME srv'[r] \in {"stopped", "completed"}
          PROVE  durable[r] >= Stopped /\ (srv'[r] = "completed" => output[r])
      BY <2>2, <1>4, <1>5, LeaseSteps DEF Leases, At
    <2>3. <<"stop", r>> \in late' => durable[r] >= Stopped
      BY <1>4, <1>5, LateMoves DEF Leases, At
    <2>4. <<"complete", r>> \in late' => durable[r] >= Stopped /\ output[r]
      BY <1>4, <1>5, LateMoves DEF Leases, At
    <2>5. QED
      BY <1>3, <2>1, <2>2, <2>3, <2>4
  <1>8. ASSUME pc' \in {"renew", "complete"} \/ (pc' = "release" /\ mode' = "run")
        PROVE  output'[cur']
    <2>1. CASE pc \in {"renew", "complete"} \/ (pc = "release" /\ mode = "run")
      BY <1>8, <2>1, <1>3, <1>5, <1>6 DEF Leases, At
    <2>2. CASE Status
      BY <2>2, <1>8 DEF Status, Goto, Answered, journalVars
    <2>3. CASE Record
      BY <2>3, <1>6, <1>8, <1>1 DEF Record, Publish, Publishes, Visible, Sealed, Goto, JournalTypeOK
    <2>4. CASE AbortStopped
      BY <2>4, <1>6, <1>8 DEF AbortStopped, Located, Goto, At
    <2>5. pc' = "release" => mode' = mode
      BY <1>6
    <2>6. QED
      BY <1>8, <2>1, <2>2, <2>3, <2>4, <2>5, <1>4 DEF EntryMove, Release, At
  <1>9. ASSUME pc' # "idle", pc' # "ackCompleted", mode' \in {"run", "abort"}
        PROVE  Unpublished(cur)'
    <2>1. ASSUME NEW r \in Runs, StartRun(r)
          PROVE  Unpublished(cur)'
      <3>1. ~(durable[r] >= Stopped)
        BY <2>1, <1>2, RecordNumbers DEF StartRun
      <3>2. Unpublished(r)
        BY <3>1 DEF Leases, Unpublished
      <3>3. QED
        BY <2>1, <3>2 DEF StartRun, Unpublished, leaseVars
    <2>2. ASSUME NEW r \in Runs, StartReconcile(r)
          PROVE  FALSE
      BY <2>2, <1>9 DEF StartReconcile
    <2>3. CASE /\ pc # "idle" /\ cur' = cur
               /\ mode' = mode \/ (mode = "run" /\ mode' = "abort" /\ pc' = "abort")
               /\ pc = "ackCompleted" => pc' = "ackCompleted"
      <3>1. Unpublished(cur) /\ cur \in Runs
        BY <1>9, <2>3 DEF Leases, Located, At
      <3>2. srv'[cur] # "completed"
        BY <3>1, <1>4, <1>9, LeaseSteps DEF Unpublished
      <3>3. <<"complete", cur>> \notin late'
        BY <3>1, <1>4, <1>9, LateMoves DEF Unpublished
      <3>4. QED
        BY <2>3, <3>2, <3>3 DEF Unpublished
    <2>4. QED
      BY <1>4, <1>9, <2>1, <2>2, <2>3 DEF EntryMove
  <1>10. ASSUME pc' = "notify", mode' = "reconcile"
         PROVE  /\ srv'[cur'] \in {"claimed", "quarantined", "stopped"}
                /\ srv'[cur'] = "claimed" => ~output'[cur']
    <2>1. mode = "reconcile" /\ cur' = cur /\ cur \in Runs
      BY <1>6, <1>10
    <2>2. CASE pc = "notify"
      <3>1. /\ srv[cur] \in {"claimed", "quarantined", "stopped"}
            /\ srv[cur] = "claimed" => ~output[cur]
            /\ <<"complete", cur>> \in late => output[cur]
        BY <2>1, <2>2 DEF Leases, At
      <3>2. output'[cur] = output[cur]
        BY <2>2, <1>3, <1>5
      <3>3. srv'[cur] # "completed"
        BY <2>1, <2>2, <3>1, <1>4, LeaseSteps DEF At
      <3>4. QED
        BY <2>1, <3>1, <3>2, <3>3, <1>4, LeaseSteps
    <2>3. CASE Status
      BY <2>1, <2>3, <1>10 DEF Status, Goto, Answered, HeartbeatTx, Leased, Becomes, leaseVars,
         journalVars, TypeOK, LeaseTypeOK
    <2>4. pc = "notify" \/ Status
      BY <1>4, <1>10, <2>1 DEF EntryMove
    <2>5. QED
      BY <2>2, <2>3, <2>4
  <1>11. ASSUME pc' = "ackCompleted"
         PROVE  srv'[cur'] = "completed"
    <2>1. CASE pc = "ackCompleted"
      <3>1. srv[cur] = "completed" /\ cur \in Runs /\ cur' = cur
        BY <2>1, <1>6, <1>11 DEF Leases, At
      <3>2. QED
        BY <3>1, <1>4, LeaseSteps
    <2>2. CASE Complete
      BY <2>2, <1>6, <1>11 DEF Complete, Answered, CompleteTx, Becomes, TypeOK, LeaseTypeOK
    <2>3. CASE Status
      BY <2>3, <1>6, <1>11 DEF Status, Goto
    <2>4. QED
      BY <1>4, <1>11, <2>1, <2>2, <2>3 DEF EntryMove
  <1>12. ASSUME pc' = "ackStopped"
         PROVE  srv'[cur'] = "stopped"
    <2>1. CASE pc = "ackStopped"
      BY <2>1, <1>4, <1>6, <1>12, LeaseSteps DEF Leases, At
    <2>2. CASE Notify
      <3>1. srv[cur] # "completed"
        <4>1. mode \in {"abort", "reconcile"}
          BY <2>2 DEF Notify, Located, SessionTypeOK, At
        <4>2. QED
          BY <2>2, <4>1 DEF Notify, Leases, Unpublished, At
      <3>2. QED
        BY <2>2, <3>1, <1>6, <1>12 DEF Notify, Answered, StopTx, Becomes, Leased, Acked, leaseVars,
           TypeOK, LeaseTypeOK
    <2>3. QED
      BY <1>4, <1>12, <2>1, <2>2 DEF EntryMove
  <1>13. QED
    BY <1>7, <1>8, <1>9, <1>10, <1>11, <1>12 DEF Leases, At

-----------------------------------------------------------------------------
\* One worker, one open Run.

\* A session is about to prepare a ticket only as it starts.
LEMMA TicketMoves ==
    ASSUME SessionTypeOK, Located, [Next]_vars, pc' = "ticket"
    PROVE  \/ \E r \in Runs : StartRun(r)
           \/ pc = "ticket" /\ UNCHANGED <<height, durable>>
  <1> USE DEF At
  <1>1. CASE Session
    <2>1. ~Exit /\ ~\E helper \in BOOLEAN : Raise(helper)
      BY DEF Raise, Exit, Idle
    <2>2. CASE \/ ClaimRaises \/ TickRaises \/ FetchRaises \/ CompleteRaises \/ NotifyRaises
               \/ StatusRaises \/ PrepareTicketRaises \/ TickCancelled \/ TickStale \/ CheckFails
               \/ SealTimesOut \/ RecordRefused \/ ReleaseRaises \/ ObserverUnknown \/ RetainRaises
               \/ PublishFails \/ Acknowledge \/ AbortUnidentified
      BY <2>1, <2>2 DEF SessionTypeOK, ClaimRaises, TickRaises, FetchRaises, CompleteRaises,
         NotifyRaises, StatusRaises, PrepareTicketRaises, TickCancelled, TickStale, CheckFails,
         SealTimesOut, RecordRefused, ReleaseRaises, ObserverUnknown, RetainRaises,
         PublishFails, Acknowledge, AbortUnidentified, CallRaises
    <2>3. CASE \/ PrepareTicket \/ Claim \/ Fetch \/ Prepare \/ Launch \/ LaunchRaises \/ Ready
               \/ Capture \/ Admit \/ Go \/ Wait \/ Seal \/ Record \/ Complete \/ Notify
               \/ AbortStopped \/ Readmit \/ Retain \/ Status
      BY <2>3 DEF PrepareTicket, Claim, Fetch, Prepare, Launch, LaunchRaises, Ready, Capture,
         Admit, Go, Wait, Seal, Record, Complete, Notify, AbortStopped, Readmit, Retain, Status, Goto
    <2>4. CASE Tick \/ Release
      BY <2>4, Tables DEF Tick, Release, Goto, SessionTypeOK
    <2>5. CASE AbortStops
      BY <2>1, <2>5 DEF AbortStops, Goto
    <2>6. QED
      BY <1>1, <2>2, <2>3, <2>4, <2>5 DEF Session
  <1>2. CASE \E r \in Runs : StartReconcile(r)
    BY <1>2 DEF StartReconcile
  <1>3. CASE Kill \/ PowerLoss
    BY <1>3 DEF Kill, PowerLoss, Idle
  <1>4. CASE StartRefused
    BY <1>4 DEF StartRefused, sessionVars
  <1>5. CASE \/ \E r \in Runs : UnitStep(r) \/ UnitEnds(r) \/ TaskCompletes(r) \/ ServerStep(r)
             \/ Deliver \/ ProcessExit \/ BusLost \/ UNCHANGED vars
    BY <1>5 DEF UnitStep, UnitEnds, TaskCompletes, ServerStep, Deliver, ProcessExit, BusLost,
       Local, sessionVars, journalVars, vars
  <1>6. QED
    BY <1>1, <1>2, <1>3, <1>4, <1>5 DEF Next, Environment

\* A Run is begun only beside Runs that are settled for good, and what is
\* settled is never opened again.
LEMMA OneOpenStep ==
    ASSUME TypeOK, SessionTypeOK, Located, Recorded, OneOpen, [Next]_vars
    PROVE  OneOpen'
  <1>1. /\ JournalTypeOK /\ JournalTypeOK' /\ JournalMove
        /\ \A r \in Runs : durable[r] <= durable'[r] /\ (height'[r] <= height[r] \/ Advances(r))
    BY JournalMoves, JournalSteps DEF TypeOK
  <1>2. \A r \in Runs : /\ height[r] \in 0 .. 6 /\ durable[r] \in 0 .. 6 /\ durable[r] <= height[r]
                        /\ height'[r] \in 0 .. 6 /\ durable'[r] \in 0 .. 6 /\ durable'[r] <= height'[r]
    BY <1>1, RecordNumbers DEF JournalTypeOK
  <1>3. ASSUME NEW r \in Runs, Open(r)'
        PROVE  Open(r) \/ (At("ticket") /\ r = cur)
    <2>1. height'[r] # 0 /\ durable'[r] # 6
      BY <1>3, RecordNumbers DEF Open
    <2>2. durable[r] # 6
      BY <1>1, <1>2, <2>1
    <2>3. CASE height[r] # 0
      BY <2>2, <2>3, RecordNumbers DEF Open
    <2>4. CASE height[r] = 0
      BY <1>1, <1>2, <2>1, <2>4, RecordNumbers DEF Advances
    <2>5. QED
      BY <2>3, <2>4
  <1>4. ASSUME NEW r \in Runs, NEW other \in Runs, Open(r)', Open(other)'
        PROVE  r = other
    BY <1>3, <1>4 DEF OneOpen
  <1>5. ASSUME pc' = "ticket", NEW other \in Runs
        PROVE  ~Open(other)'
    <2>1. ASSUME NEW r \in Runs, StartRun(r)
          PROVE  ~Open(other)'
      <3>1. height' = height /\ durable' = height /\ ~Unresolved(other)
        BY <2>1 DEF StartRun, AdoptsAll
      <3>2. height[other] \in {0, 6}
        BY <3>1, <1>2, RecordNumbers DEF Unresolved
      <3>3. QED
        BY <3>1, <3>2, RecordNumbers DEF Open
    <2>2. CASE pc = "ticket" /\ UNCHANGED <<height, durable>>
      BY <2>2 DEF OneOpen, Open, At
    <2>3. QED
      BY <1>5, <2>1, <2>2, TicketMoves
  <1>6. QED
    BY <1>4, <1>5 DEF OneOpen, At

-----------------------------------------------------------------------------
\* The invariant.

\* The types of a session are a part of the state's.
LEMMA SessionTypes == TypeOK => SessionTypeOK
  BY DEF TypeOK, SessionTypeOK

\* Failures are counted one by one.
LEMMA FaultMoves ==
    ASSUME [Next]_vars
    PROVE  faults' = faults \/ Fault
  <1>1. CASE Session
    <2>1. CASE \/ PrepareTicket \/ PrepareTicketRaises \/ Claim \/ ClaimRaises \/ Tick
               \/ TickCancelled \/ TickStale \/ TickRaises \/ PublishFails \/ Fetch \/ FetchRaises
               \/ CheckFails \/ Prepare \/ Launch \/ LaunchRaises \/ Ready \/ Capture \/ Admit
               \/ Go \/ Wait
      BY <2>1 DEF PrepareTicket, PrepareTicketRaises, Claim, ClaimRaises, Tick, TickCancelled,
         TickStale, TickRaises, PublishFails, Fetch, FetchRaises, CheckFails, Prepare, Launch,
         LaunchRaises, Ready, Capture, Admit, Go, Wait, CallRaises, Answered, Publish, Local
    <2>2. CASE \/ Seal \/ SealTimesOut \/ Record \/ RecordRefused \/ Release \/ ReleaseRaises
               \/ ObserverUnknown \/ Complete \/ CompleteRaises \/ Notify \/ NotifyRaises
               \/ Acknowledge \/ AbortUnidentified \/ AbortStops \/ AbortStopped \/ Readmit
               \/ Retain \/ RetainRaises \/ Status \/ StatusRaises
      BY <2>2 DEF Seal, SealTimesOut, Record, RecordRefused, Release, ReleaseRaises,
         ObserverUnknown, Complete, CompleteRaises, Notify, NotifyRaises, Acknowledge,
         AbortUnidentified, AbortStops, AbortStopped, Readmit, Retain, RetainRaises, Status,
         StatusRaises, CallRaises, Answered, Publish, Local
    <2>3. QED
      BY <1>1, <2>1, <2>2 DEF Session
  <1>2. CASE \/ \E r \in Runs : \/ StartRun(r) \/ StartReconcile(r) \/ UnitStep(r) \/ UnitEnds(r)
                                \/ TaskCompletes(r) \/ ServerStep(r)
             \/ StartRefused \/ Deliver \/ ProcessExit \/ BusLost \/ Kill \/ PowerLoss
             \/ UNCHANGED vars
    BY <1>2 DEF StartRun, StartReconcile, UnitStep, UnitEnds, TaskCompletes, ServerStep,
       StartRefused, Deliver, ProcessExit, BusLost, Kill, PowerLoss, Local, vars
  <1>3. QED
    BY <1>1, <1>2 DEF Next, Environment

\* Every step keeps the types.
LEMMA TypeStep ==
    ASSUME TypeOK, Located, Recorded, [Next]_vars
    PROVE  TypeOK'
  <1>1. SessionTypeOK /\ SessionTypeOK'
    BY SessionTypes, LocatedStep
  <1>2. late \subseteq Requests \X Runs
    BY DEF TypeOK
  <1>3. LeaseMove /\ UnitMove /\ JournalMove
    BY <1>1, <1>2, LeaseMoves, UnitMoves, JournalMoves
  <1>4. LeaseTypeOK'
    BY <1>3, LeaseSteps
  <1>5. JournalTypeOK'
    BY <1>1, <1>3, JournalSteps DEF TypeOK
  <1>6. unit' \in [Runs -> UnitStates] /\ executions' \in [Runs -> Nat]
    BY <1>1, <1>3, UnitSteps
  <1>7. late' \subseteq Requests \X Runs
    BY <1>1, <1>2, LateMoves
  <1>8. faults' \in 0 .. MaxFaults
    <2>1. faults' = faults \/ Fault
      BY FaultMoves
    <2>2. QED
      BY <2>1, FaultAssumption DEF TypeOK, Fault
  <1>9. QED
    BY <1>1, <1>4, <1>5, <1>6, <1>7, <1>8, Zenon DEF TypeOK, SessionTypeOK

\* The invariant holds after every step.
LEMMA InvStep == IInv /\ [Next]_vars => IInv'
  <1> SUFFICES ASSUME IInv, [Next]_vars
               PROVE  IInv'
    OBVIOUS
  <1>1. TypeOK /\ SessionTypeOK /\ Located /\ Recorded /\ Units /\ Leases /\ OneOpen
    BY SessionTypes DEF IInv
  <1>2. TypeOK'
    BY <1>1, TypeStep
  <1>3. Located'
    BY <1>1, LocatedStep
  <1>4. Recorded'
    BY <1>1, RecordedStep
  <1>5. Units'
    BY <1>1, UnitsStep
  <1>6. Leases'
    BY <1>1, LeasesStep
  <1>7. OneOpen'
    BY <1>1, OneOpenStep
  <1>8. QED
    BY <1>2, <1>3, <1>4, <1>5, <1>6, <1>7 DEF IInv

\* The invariant holds in every reachable state.
LEMMA Invariance == Spec => []IInv
  BY InitInv, InvStep, PTL DEF Spec

-----------------------------------------------------------------------------
\* What follows for worker, server and journal.

\* Types: of the server's leases, the journals, the units and the session.
THEOREM TypesKept == Spec => []TypeOK
  <1>1. IInv => TypeOK
    BY DEF IInv
  <1>2. QED
    BY <1>1, Invariance, PTL

\* stopped-tx and complete-tx of a Run: its unit does not run, nor will it.
THEOREM StopsAreTrue == Spec => []NoFalseStop
  <1>1. IInv => NoFalseStop
    <2> SUFFICES ASSUME IInv, NEW r \in Runs, srv[r] \in {"stopped", "completed"}
                 PROVE  unit[r] \notin Alive \cup {"late"}
      BY DEF NoFalseStop
    <2>1. durable[r] >= Stopped /\ durable[r] <= height[r] /\ durable[r] \in 0 .. 6 /\ height[r] \in 0 .. 6
      BY RecordNumbers DEF IInv, Leases, TypeOK, JournalTypeOK
    <2>2. unit[r] \in Over
      BY <2>1, RecordNumbers DEF IInv, Units
    <2>3. QED
      BY <2>2 DEF Over, Ended, Alive
  <1>2. QED
    BY <1>1, Invariance, PTL

\* GO: a Run's task starts at most once, and its admission is durable then.
THEOREM StartsOnce == Spec => []ExecutedOnce
  <1>1. IInv => ExecutedOnce
    BY DEF IInv, Units, ExecutedOnce, TypeOK
  <1>2. QED
    BY <1>1, Invariance, PTL

\* launch: no second unit beside one that runs.
THEOREM OneUnit == Spec => []OnePhysicalUnit
  <1>1. IInv => OnePhysicalUnit
    <2> SUFFICES ASSUME IInv, NEW r \in Runs, NEW other \in Runs,
                        unit[r] \in Alive, unit[other] \in Alive
                 PROVE  r = other
      BY DEF OnePhysicalUnit
    <2>1. ASSUME NEW x \in Runs, unit[x] \in Alive
          PROVE  Open(x)
      <3>1. durable[x] <= height[x] /\ durable[x] \in 0 .. 6 /\ height[x] \in 0 .. 6
        BY RecordNumbers DEF IInv, TypeOK, JournalTypeOK
      <3>2. unit[x] # "none" /\ unit[x] \notin Over
        BY <2>1 DEF Alive, Over, Ended
      <3>3. durable[x] >= Launched /\ ~(height[x] >= Stopped)
        BY <3>2 DEF IInv, Units
      <3>4. QED
        BY <3>1, <3>3, RecordNumbers DEF Open
    <2>2. Open(r) /\ Open(other)
      BY <2>1
    <2>3. QED
      BY <2>2 DEF IInv, OneOpen
  <1>2. QED
    BY <1>1, Invariance, PTL

\* acknowledge: the recorded outcome is the server's.
THEOREM JournalAndServerAgree == Spec => []JournalAgrees
  <1>1. IInv => JournalAgrees
    BY DEF IInv, Leases, JournalAgrees
  <1>2. QED
    BY <1>1, Invariance, PTL

\* complete-tx: what the server accepted is on the worker's disk.
THEOREM CompletionsSealed == Spec => []CompletionSealed
  <1>1. IInv => CompletionSealed
    BY DEF IInv, Leases, CompletionSealed
  <1>2. QED
    BY <1>1, Invariance, PTL

\* release: the observer lets go only over a durable stopped record.
THEOREM ReleasesSealed == Spec => ReleasedIsSealed
  <1>1. IInv /\ [Next]_vars =>
          [alloc = "captured" /\ alloc' = "released" => durable[cur] >= Stopped]_vars
    <2> SUFFICES ASSUME IInv, [Next]_vars, alloc = "captured", alloc' = "released"
                 PROVE  durable[cur] >= Stopped
      OBVIOUS
    <2>1. Release
      BY HoldMoves, SessionTypes DEF HoldMove, IInv
    <2>2. At("release")
      BY <2>1 DEF Release
    <2>3. QED
      BY <2>2, RecordNumbers DEF IInv, Recorded, EndsWith, At
  <1>2. QED
    BY <1>1, Invariance, PTL DEF Spec, ReleasedIsSealed

\* A Run whose lease ended before its last confirmation, and that was not
\* started.
NeverStarts(r) == srv[r] # "queued" /\ ~Live(r) /\ executions[r] = 0 /\ ~(cur = r /\ At("go"))

\* It stays so: a lease never becomes live again, and only a live one is
\* confirmed between admission and GO.
LEMMA NeverStartsStep ==
    ASSUME IInv, NEW r \in Runs, NeverStarts(r), [Next]_vars
    PROVE  NeverStarts(r)'
  <1>1. TypeOK /\ SessionTypeOK /\ Located /\ late \subseteq Requests \X Runs
    BY SessionTypes DEF IInv, TypeOK
  <1>2. LeaseMove /\ UnitMove /\ EntryMove
    BY <1>1, LeaseMoves, UnitMoves, EntryMoves
  <1>3. srv'[r] # "queued" /\ ~Live(r)'
    <2> USE DEF TypeOK, LeaseTypeOK, Leased, Acked, Becomes, Live, NeverStarts
    <2>1. CASE UNCHANGED leaseVars
      BY <2>1 DEF leaseVars
    <2>2. CASE \E x \in Runs : CancelTx(x) \/ Lapse(x) \/ ClaimTx(x) \/ HeartbeatTx(x)
      BY <1>1, <2>2 DEF CancelTx, Lapse, ClaimTx, MayClaim, HeartbeatTx, leaseVars
    <2>3. CASE \E x \in Runs : CompleteTx(x) \/ StopTx(x)
      BY <1>1, <2>3 DEF CompleteTx, StopTx, leaseVars
    <2>4. QED
      BY <1>2, <2>1, <2>2, <2>3 DEF LeaseMove
  <1>4. executions'[r] = 0
    BY <1>1, <1>2, UnitSteps DEF NeverStarts
  <1>5. ASSUME cur' = r, pc' = "go"
        PROVE  FALSE
    <2>1. cur' = cur
      BY <1>2, <1>5 DEF EntryMove, StartRun, StartReconcile
    <2>2. pc = "go" \/ Tick
      BY <1>2, <1>5 DEF EntryMove
    <2>3. QED
      BY <1>5, <2>1, <2>2 DEF NeverStarts, Tick, At
  <1>6. QED
    BY <1>3, <1>4, <1>5 DEF NeverStarts, Live, At

\* Lease.tick between admit and GO: a Run whose lease had ended before is
\* never started.
THEOREM EndedLeasesStartNothing == Spec => EndedNeverStarts
  <1>1. ASSUME NEW r \in Runs
        PROVE  Spec => [](srv[r] # "queued" /\ ~Live(r) /\ executions[r] = 0 /\ ~(cur = r /\ At("go"))
                            => [](executions[r] = 0))
    <2>1. IInv /\ NeverStarts(r) /\ [Next]_vars => NeverStarts(r)'
      BY NeverStartsStep
    <2>2. NeverStarts(r) <=> srv[r] # "queued" /\ ~Live(r) /\ executions[r] = 0 /\ ~(cur = r /\ At("go"))
      BY DEF NeverStarts
    <2>3. NeverStarts(r) => executions[r] = 0
      BY DEF NeverStarts
    <2>4. QED
      BY <2>1, <2>2, <2>3, Invariance, PTL DEF Spec
  <1>2. QED
    BY <1>1 DEF EndedNeverStarts

-----------------------------------------------------------------------------
\* A durable record of a Run is never lost, and what it says never changes:
\* what RecordPublish shows of one publication, of the whole journal.
RecordsFinal ==
    [][\A r \in Runs :
          /\ durable[r] <= durable'[r]
          /\ durable[r] >= Stopped => output'[r] = output[r]
          /\ durable[r] = Acknowledged => outcome'[r] = outcome[r]]_vars

\* An acknowledgement is written once: a session that acknowledges found the
\* stopped record last.
LEMMA OutcomeStays ==
    ASSUME IInv, [Next]_vars, NEW r \in Runs, durable[r] = Acknowledged
    PROVE  outcome'[r] = outcome[r]
  <1> USE RecordNumbers
  <1>1. /\ height[r] = 6 /\ durable[r] = 6
        /\ outcome \in [Runs -> {None, "completed", "stopped"}]
    BY DEF IInv, TypeOK, JournalTypeOK
  <1>2. JournalMove
    BY SessionTypes, JournalMoves DEF IInv
  <1>3. CASE UNCHANGED journalVars \/ AdoptsAll \/ (\E x \in Runs : Adopts(x))
             \/ (At("ticket") /\ TicketMove)
    BY <1>3 DEF journalVars, AdoptsAll, Adopts, TicketMove
  <1>4. CASE \E p \in {Launched, Admitted, Stopped} : PublishMove(p)
    BY <1>4 DEF PublishMove, Publishes, PublishRaises, Visible
  <1>5. CASE pc \in {"ackCompleted", "ackStopped"} /\ PublishMove(Acknowledged)
    <2>1. cur # r
      BY <1>1, <1>5 DEF IInv, Recorded, EndsWith
    <2>2. \/ outcome' = outcome
          \/ outcome' = [outcome EXCEPT ![cur] = Verdict]
      BY <1>5 DEF PublishMove, Publishes, PublishRaises, Visible
    <2>3. QED
      BY <1>1, <2>1, <2>2
  <1>6. CASE PowerLossJournal
    <2>1. height'[r] = 6
      BY <1>1, <1>6 DEF PowerLossJournal
    <2>2. QED
      BY <1>6, <2>1 DEF PowerLossJournal
  <1>7. QED
    BY <1>2, <1>3, <1>4, <1>5, <1>6 DEF JournalMove

\* _publish, _chain and load: however sessions, retries, reconciliations, kills
\* and power losses follow each other, no Run's journal shrinks behind a durable
\* record, and neither the sealed output nor the acknowledgement is rewritten.
THEOREM JournalIsWriteOnce == Spec => RecordsFinal
  <1>1. IInv /\ [Next]_vars =>
          [\A r \in Runs :
              /\ durable[r] <= durable'[r]
              /\ durable[r] >= Stopped => output'[r] = output[r]
              /\ durable[r] = Acknowledged => outcome'[r] = outcome[r]]_vars
    <2> SUFFICES ASSUME IInv, [Next]_vars, NEW r \in Runs
                 PROVE  /\ durable[r] <= durable'[r]
                        /\ durable[r] >= Stopped => output'[r] = output[r]
                        /\ durable[r] = Acknowledged => outcome'[r] = outcome[r]
      OBVIOUS
    <2>1. /\ SessionTypeOK /\ Located /\ Recorded /\ JournalTypeOK /\ JournalMove
          /\ output[r] => height[r] >= Stopped
          /\ outcome[r] # None => height[r] = Acknowledged
      BY SessionTypes, JournalMoves DEF IInv, TypeOK, Leases
    <2>2. durable[r] <= durable'[r]
      BY <2>1, JournalSteps
    <2>3. durable[r] >= Stopped => output'[r] = output[r]
      BY <2>1, OutputSteps
    <2>4. durable[r] = Acknowledged => outcome'[r] = outcome[r]
      BY OutcomeStays
    <2>5. QED
      BY <2>2, <2>3, <2>4
  <1>2. QED
    BY <1>1, Invariance, PTL DEF Spec, RecordsFinal
=============================================================================
