------------------------ MODULE LocalProgramsProofs ------------------------
(***************************************************************************)
(* For every number of programs, logins, workers and plans: the session    *)
(* file keeps a login the server accepts, a download is written once and   *)
(* whole, and what the server and the state root hold of a worker agree.   *)
(*                                                                         *)
(* Between two programs only the lock, a name that exists and the server's *)
(* single writer decide.  So the invariant says of each program what it    *)
(* may rely on at each step (Carried, Owner, Bound, Prepared), and the     *)
(* proof shows that no other program's step takes it away: what is shared  *)
(* only grows (Grows), but for a power loss, which no program survives.    *)
(***************************************************************************)
EXTENDS LocalPrograms, FiniteSetTheorems, TLAPS

Drivers == {"enroll", "revoke", "task", "run"}
Programs == {"login", "headers", "download"} \cup Drivers

\* From the lock to the end of the exchange; with the session in memory.
LockedSteps == {"enter", "check", "load", "ask", "refresh", "save", "again"}
SessionSteps == {"lock"} \cup LockedSteps
RecordSteps == {"link", "sync"}
RootSteps == {"root", "syncParent", "syncRoot"}
Steps == {"off", "call", "report", "describe", "chunk", "intent", "enrolled"}
         \cup SessionSteps \cup RecordSteps \cup RootSteps

Controllers == {[worker |-> i.worker, endpoint |-> i.plan.endpoint] : i \in Intents}

Locals ==
    [prog : Programs \cup {None}, pc : Steps,
     session : Sessions \cup {None}, token : Logins \cup {None},
     expects : {Expects(p) : p \in Plans} \cup {None},
     plan : Plans \cup {None}, worker : Workers \cup {None},
     intent : Intents \cup {None}, phase : Phases \cup {None},
     want : Snapshots \cup {None}, got : Seq(Snapshots \X Nat)]

\* The types, with what TLC's instance leaves to them.
Types ==
    /\ file \in Sessions \cup {None}
    /\ disk \subseteq Sessions \cup {None} /\ file \in disk
    /\ lock \in Clients \cup {None}
    /\ bound \in [Logins -> Accesses \cup {None}]
    /\ current \in [Logins -> 0 .. MaxRotations]
    /\ lost \subseteq Logins
    /\ root \in BOOLEAN /\ rootSafe \in BOOLEAN
    /\ rec \in [Phases -> Intents \cup Controllers \cup {None}]
    /\ rec["intent"] \in Intents \cup {None}
    /\ rec["enrollment"] \in Intents \cup {None}
    /\ safe \in SUBSET Phases
    /\ row \in [Workers -> [plan : Plans, access : Accesses] \cup {None}]
    /\ revoked \subseteq {w \in Workers : row[w] # None}
    /\ programs \in Together
    /\ snapshot \in Snapshots
    /\ me \in [Clients -> Locals]

\* What a program carries from step to step.
Carried(c) ==
    /\ ~At(c, "off") => me[c].prog \in Programs
    /\ me[c].pc \in {"enter", "check"} => me[c].prog = "login"
    /\ me[c].pc \in {"load", "ask", "refresh", "again"} => me[c].prog # "login"
    /\ me[c].pc \in {"call", "intent", "enrolled"} \cup RecordSteps \cup RootSteps
         => me[c].prog \in Drivers
    /\ At(c, "enrolled") => me[c].prog # "enroll"
    /\ At(c, "intent") => me[c].prog = "enroll"
    /\ me[c].pc \in {"ask", "refresh", "save", "again", "check"} => me[c].session \in Sessions
    /\ At(c, "call") => me[c].token \in Logins
    /\ At(c, "chunk") => me[c].want \in Snapshots
    /\ me[c].prog = "enroll" /\ me[c].pc \in RootSteps \cup {"intent"} => me[c].plan \in Plans
    /\ me[c].pc \in RecordSteps => me[c].phase \in Phases
    /\ me[c].prog \in Drivers /\ me[c].pc \in SessionSteps \cup RecordSteps \cup {"call"} =>
         me[c].intent \in Intents /\ me[c].expects = Expects(me[c].intent.plan)

\* The lock's owner alone reads and replaces the session.
Owner(c) ==
    /\ me[c].pc \in LockedSteps => lock = c
    /\ me[c].pc \in {"ask", "refresh"} => me[c].session = file
    /\ me[c].pc \in {"check", "save", "again"} =>
         me[c].session.rotation = current[me[c].session.login]

\* A login has its access for good, and a driver one for its plan.
Bound(c) ==
    /\ me[c].pc \in {"ask", "refresh", "save", "again", "check"} => bound[me[c].session.login] # None
    /\ me[c].prog \in Drivers /\ me[c].pc \in {"ask", "refresh", "save", "again"} =>
         bound[me[c].session.login] = me[c].expects
    /\ At(c, "call") => bound[me[c].token] = me[c].expects

\* The record p is the program's own and durable.
Kept(c, p) == rec[p] = Value(c, p) /\ p \in safe

\* What a driver made durable before it goes on.
Prepared(c) ==
    /\ me[c].prog \in Drivers /\ ~At(c, "off") /\ ~At(c, "root") => root
    /\ me[c].prog = "enroll" /\ me[c].pc \in {"intent", "call"} \cup RecordSteps \cup SessionSteps
         => (SyncCarries => rootSafe)
    /\ At(c, "sync") => rec[me[c].phase] = Value(c, me[c].phase)
    /\ me[c].pc \in RecordSteps /\ me[c].phase = "controller" => Kept(c, "intent")
    /\ me[c].prog = "enroll" /\ me[c].pc \in SessionSteps \cup {"call"} =>
         Kept(c, "intent") /\ Kept(c, "controller")
    /\ me[c].pc \in RecordSteps /\ me[c].phase = "enrollment" =>
         /\ Kept(c, "intent") /\ Kept(c, "controller")
         /\ row[me[c].intent.worker] # None
         /\ row[me[c].intent.worker].plan = me[c].intent.plan

\* Sessions are of logins that were made, and a login starts at rotation 0.
Issued ==
    /\ \A s \in disk : s # None => bound[s.login] # None
    /\ \A l \in Logins : bound[l] = None => current[l] = 0

\* The root's names, and the enrollment last of them.
Rooted ==
    /\ rootSafe => root
    /\ safe \subseteq Visible /\ (Visible # {} => root)
    /\ rec["enrollment"] # None => {"intent", "controller"} \subseteq safe

IInv ==
    /\ Types
    /\ \A c \in Clients : Carried(c) /\ Owner(c) /\ Bound(c) /\ Prepared(c)
    /\ Issued /\ Rooted
    /\ SessionKept /\ EnrollmentTrue /\ EnrolledAsBound
    /\ SyncCarries => IntentSurvives

-----------------------------------------------------------------------------
\* A program's own steps.

\* Everything a program relies on.
Sound(c) == Carried(c) /\ Owner(c) /\ Bound(c) /\ Prepared(c)

\* Only c's locals change, and stay typed.
OnlyMe(c) ==
    /\ me' \in [Clients -> Locals]
    /\ \A d \in Clients : d # c => me'[d] = me[d]

\* A program that is not there is typed, and relies on nothing.
LEMMA OffTyped == Off \in Locals
  BY DEF Off, Locals, Steps

\* A program that has ended relies on nothing.
LEMMA OffSound ==
    ASSUME me \in [Clients -> Locals], NEW c \in Clients, me' = [me EXCEPT ![c] = Off]
    PROVE  OnlyMe(c) /\ Sound(c)' /\ me'[c] = Off
  <1>1. Off \in Locals
    BY OffTyped
  <1>2. OnlyMe(c) /\ me'[c].pc = "off" /\ me'[c] = Off
    BY <1>1 DEF OnlyMe, Off
  <1>3. QED
    BY <1>2 DEF Sound, Carried, Owner, Bound, Prepared, At, LockedSteps, SessionSteps,
       RecordSteps, RootSteps

\* A step changes the step and nothing else.
LEMMA GotoSteps ==
    ASSUME me \in [Clients -> Locals], NEW c \in Clients, NEW s \in Steps, Goto(c, s)
    PROVE  /\ OnlyMe(c)
           /\ me'[c].pc = s /\ me'[c].prog = me[c].prog
           /\ me'[c].session = me[c].session /\ me'[c].token = me[c].token
           /\ me'[c].expects = me[c].expects /\ me'[c].plan = me[c].plan
           /\ me'[c].intent = me[c].intent /\ me'[c].phase = me[c].phase
           /\ me'[c].want = me[c].want
  <1>1. /\ me' = [me EXCEPT ![c] = me'[c]]
        /\ me'[c] = [me[c] EXCEPT !.pc = s]
    BY DEF Goto
  <1>2. me[c] \in Locals
    OBVIOUS
  <1>3. /\ me'[c] \in Locals
        /\ me'[c].pc = s /\ me'[c].prog = me[c].prog
        /\ me'[c].session = me[c].session /\ me'[c].token = me[c].token
        /\ me'[c].expects = me[c].expects /\ me'[c].plan = me[c].plan
        /\ me'[c].intent = me[c].intent /\ me'[c].phase = me[c].phase
        /\ me'[c].want = me[c].want
    <2>1. me'[c] \in Locals
      BY <1>1, <1>2 DEF Locals
    <2>2. QED
      BY <1>1, <1>2, <2>1 DEF Locals
  <1>4. QED
    BY <1>1, <1>3 DEF OnlyMe

\* The steps of the session, where a driver's records are as they were.
LEMMA SessionSound ==
    ASSUME Types, Issued, NEW c \in Clients, Sound(c), SessionStep(c),
           UNCHANGED <<enrollmentVars, exportVars>>
    PROVE  OnlyMe(c) /\ Sound(c)'
  <1> USE DEF At, Sound
  <1>0. me \in [Clients -> Locals] /\ me[c] \in Locals
    BY DEF Types
  <1>a. ASSUME me'[c].intent = me[c].intent, me'[c].prog = me[c].prog, me'[c].phase = me[c].phase,
               me[c].pc \in SessionSteps, me'[c].pc \in SessionSteps \cup {"call", "report", "describe"}
        PROVE  Prepared(c)'
    <2>1. me'[c].pc \notin RecordSteps /\ me'[c].pc # "sync" /\ me'[c].pc # "intent"
      BY <1>a DEF SessionSteps, LockedSteps, RecordSteps
    <2>2. \A p \in Phases : Kept(c, p)' <=> Kept(c, p)
      BY <1>a DEF Kept, Value, enrollmentVars, rootVars
    <2>3. me[c].prog \in Drivers => root'
      BY <1>a DEF Prepared, SessionSteps, LockedSteps, enrollmentVars, rootVars
    <2>4. me[c].prog = "enroll" => /\ SyncCarries => rootSafe'
                                   /\ Kept(c, "intent")' /\ Kept(c, "controller")'
      BY <1>a, <2>2 DEF Prepared, Phases, enrollmentVars, rootVars
    <2>5. QED
      BY <1>a, <2>1, <2>3, <2>4 DEF Prepared
  <1>1. CASE Lock(c)
    <2>1. PICK s \in {"enter", "load"} : Goto(c, s) /\ s = (IF me[c].prog = "login" THEN "enter" ELSE "load")
      BY <1>1 DEF Lock
    <2>2. s \in Steps
      BY DEF Steps, SessionSteps, LockedSteps
    <2>3. QED
      BY <1>0, <1>1, <1>a, <2>1, <2>2, GotoSteps DEF Lock, Carried, Owner, Bound, LockedSteps,
         SessionSteps, RecordSteps, RootSteps
  <1>2. CASE Expired(c)
    <2>1. "refresh" \in Steps
      BY DEF Steps, SessionSteps, LockedSteps
    <2>2. QED
      BY <1>0, <1>2, <1>a, <2>1, GotoSteps DEF Expired, sessionVars, Carried, Owner,
         Bound, LockedSteps, SessionSteps, RecordSteps, RootSteps
  <1>b. CASE Check(c)
    <2>1. "save" \in Steps /\ me[c].prog = "login" /\ "login" \notin Drivers
      BY <1>b DEF Check, Carried, Steps, SessionSteps, LockedSteps, Drivers
    <2>2. OnlyMe(c) /\ me'[c].pc = "save" /\ me'[c].prog = "login" /\ me'[c].session = me[c].session
          /\ me'[c].intent = me[c].intent /\ me'[c].phase = me[c].phase
      BY <1>0, <1>b, <2>1, GotoSteps DEF Check
    <2>3. Carried(c)' /\ Owner(c)' /\ Bound(c)'
      BY <1>b, <2>1, <2>2 DEF Check, sessionVars, Carried, Owner, Bound, LockedSteps, SessionSteps,
         RecordSteps, RootSteps, Programs
    <2>4. QED
      BY <1>b, <1>a, <2>1, <2>2, <2>3 DEF Check, SessionSteps, LockedSteps
  <1>3. CASE Save(c)
    <2>1. PICK s \in {"report", "again"} : Goto(c, s) /\ s = (IF me[c].prog = "login" THEN "report" ELSE "again")
      BY <1>3 DEF Save
    <2>2. s \in Steps
      BY DEF Steps, SessionSteps, LockedSteps
    <2>3. QED
      BY <1>0, <1>3, <1>a, <2>1, <2>2, GotoSteps DEF Save, Carried, Owner,
         Bound, LockedSteps, SessionSteps, RecordSteps, RootSteps
  <1>4. CASE Load(c)
    <2>1. /\ me' = [me EXCEPT ![c] = me'[c]]
          /\ me'[c] = [me[c] EXCEPT !.pc = "ask", !.session = file]
      BY <1>0, <1>4 DEF Load
    <2>2. /\ me'[c] \in Locals /\ me'[c].pc = "ask" /\ me'[c].session = file
          /\ me'[c].prog = me[c].prog /\ me'[c].expects = me[c].expects
          /\ me'[c].intent = me[c].intent /\ me'[c].phase = me[c].phase
      <3>1. file \in Sessions
        BY <1>4 DEF Load
      <3>2. "ask" \in Steps
        BY DEF Steps, SessionSteps, LockedSteps
      <3>3. me'[c] \in Locals
        BY <1>0, <2>1, <3>1, <3>2 DEF Locals
      <3>4. QED
        BY <1>0, <2>1, <3>3 DEF Locals
    <2>3. OnlyMe(c)
      BY <1>0, <2>1, <2>2 DEF OnlyMe
    <2>4. bound[file.login] # None
      BY <1>4, NothingAssumption DEF Load, Issued, Types
    <2>5. me[c].prog \in Drivers => bound[file.login] = me[c].expects
      BY <1>4, NothingAssumption DEF Load, Carried, SessionSteps, LockedSteps, Intents
    <2>6. Carried(c)' /\ Owner(c)' /\ Bound(c)'
      BY <1>4, <2>2, <2>4, <2>5 DEF Load, sessionVars, Carried, Owner, Bound, LockedSteps,
         SessionSteps, RecordSteps, RootSteps
    <2>7. QED
      BY <1>4, <1>a, <2>2, <2>3, <2>6 DEF Load, SessionSteps, LockedSteps
  <1>5. CASE Ask(c)
    <2>1. /\ me' = [me EXCEPT ![c] = me'[c]]
          /\ me'[c] = [me[c] EXCEPT !.pc = AfterToken(me[c].prog), !.token = me[c].session.login,
                                    !.session = None]
      BY <1>0, <1>5 DEF Ask
    <2>2. /\ me[c].prog \in Programs \ {"login"} /\ me[c].session.login \in Logins
          /\ me[c].session \in Sessions
      BY <1>5 DEF Ask, Carried, Sessions
    <2>3. /\ AfterToken(me[c].prog) \in {"report", "describe", "call"}
          /\ AfterToken(me[c].prog) = "call" => me[c].prog \in Drivers
      BY <2>2 DEF AfterToken, Programs
    <2>4. /\ me'[c] \in Locals /\ me'[c].pc = AfterToken(me[c].prog)
          /\ me'[c].token = me[c].session.login
          /\ me'[c].prog = me[c].prog /\ me'[c].expects = me[c].expects
          /\ me'[c].intent = me[c].intent /\ me'[c].phase = me[c].phase
      <3>1. AfterToken(me[c].prog) \in Steps
        BY <2>3 DEF Steps
      <3>2. me'[c] \in Locals
        BY <1>0, <2>1, <2>2, <3>1 DEF Locals
      <3>3. QED
        BY <1>0, <2>1, <3>2 DEF Locals
    <2>5. OnlyMe(c)
      BY <1>0, <2>1, <2>4 DEF OnlyMe
    <2>6. Carried(c)' /\ Owner(c)' /\ Bound(c)'
      BY <1>5, <2>2, <2>3, <2>4 DEF Ask, Carried, Owner, Bound, LockedSteps,
         SessionSteps, RecordSteps, RootSteps
    <2>7. QED
      BY <1>5, <1>a, <2>3, <2>4, <2>5, <2>6 DEF Ask, SessionSteps, LockedSteps
  <1>6. CASE Refresh(c)
    <2>1. PICK n \in 0 .. MaxRotations :
            /\ Rotated(me[c].session.login, n)
            /\ me' = [me EXCEPT ![c].pc = "save", ![c].session.rotation = n]
      BY <1>6 DEF Refresh
    <2>2. me[c].session \in Sessions /\ me[c].session.login \in Logins
      BY <1>6 DEF Refresh, Carried, Sessions
    <2>3. /\ me' = [me EXCEPT ![c] = me'[c]]
          /\ me'[c] = [me[c] EXCEPT !.pc = "save", !.session = [me[c].session EXCEPT !.rotation = n]]
      BY <1>0, <2>1 DEF Locals
    <2>4. /\ [me[c].session EXCEPT !.rotation = n] \in Sessions
          /\ [me[c].session EXCEPT !.rotation = n].login = me[c].session.login
          /\ [me[c].session EXCEPT !.rotation = n].rotation = n
      BY <2>2 DEF Sessions
    <2>5. /\ me'[c] \in Locals /\ me'[c].pc = "save"
          /\ me'[c].session \in Sessions /\ me'[c].session.login = me[c].session.login
          /\ me'[c].session.rotation = n
          /\ me'[c].prog = me[c].prog /\ me'[c].expects = me[c].expects
          /\ me'[c].intent = me[c].intent /\ me'[c].phase = me[c].phase
      <3>1. "save" \in Steps
        BY DEF Steps, SessionSteps, LockedSteps
      <3>2. me'[c] \in Locals
        BY <1>0, <2>3, <2>4, <3>1 DEF Locals
      <3>3. QED
        BY <1>0, <2>3, <2>4, <3>2 DEF Locals
    <2>6. OnlyMe(c)
      BY <1>0, <2>3, <2>5 DEF OnlyMe
    <2>7. current'[me[c].session.login] = n
      BY <2>1, <2>2 DEF Rotated, Types
    <2>8. Carried(c)' /\ Owner(c)' /\ Bound(c)'
      BY <1>6, <2>5, <2>7 DEF Refresh, Carried, Owner, Bound, LockedSteps,
         SessionSteps, RecordSteps, RootSteps
    <2>9. QED
      BY <1>6, <1>a, <2>5, <2>6, <2>8 DEF Refresh, SessionSteps, LockedSteps
  <1>7. CASE Enter(c)
    <2>1. PICK n \in Logins, a \in Accesses :
            /\ \A m \in Logins : bound[m] = None <=> m >= n
            /\ bound' = [bound EXCEPT ![n] = a]
            /\ me' = [me EXCEPT ![c].pc = "check", ![c].session = [login |-> n, rotation |-> 0]]
      BY <1>7 DEF Enter
    <2>2. /\ me' = [me EXCEPT ![c] = me'[c]]
          /\ me'[c] = [me[c] EXCEPT !.pc = "check", !.session = [login |-> n, rotation |-> 0]]
      BY <1>0, <2>1
    <2>3. [login |-> n, rotation |-> 0] \in Sessions
      BY ProgramAssumption DEF Sessions
    <2>4. /\ me'[c] \in Locals /\ me'[c].pc = "check"
          /\ me'[c].session = [login |-> n, rotation |-> 0]
          /\ me'[c].prog = me[c].prog /\ me'[c].expects = me[c].expects
          /\ me'[c].intent = me[c].intent /\ me'[c].phase = me[c].phase
      <3>1. "check" \in Steps
        BY DEF Steps, SessionSteps, LockedSteps
      <3>2. me'[c] \in Locals
        BY <1>0, <2>2, <2>3, <3>1 DEF Locals
      <3>3. QED
        BY <1>0, <2>2, <3>2 DEF Locals
    <2>5. OnlyMe(c)
      BY <1>0, <2>2, <2>4 DEF OnlyMe
    <2>6. bound'[n] # None /\ current[n] = 0
      <3>1. bound[n] = None
        BY <2>1 DEF Logins
      <3>2. QED
        BY <2>1, <3>1, NothingAssumption DEF Types, Issued
    <2>7. Carried(c)' /\ Owner(c)' /\ Bound(c)'
      BY <1>7, <2>3, <2>4, <2>6 DEF Enter, Carried, Owner, Bound, LockedSteps, Drivers,
         SessionSteps, RecordSteps, RootSteps
    <2>8. QED
      BY <1>7, <1>a, <2>4, <2>5, <2>7 DEF Enter, SessionSteps, LockedSteps
  <1>8. CASE RefreshLost(c) \/ Report(c)
    BY <1>0, <1>8, OffSound DEF RefreshLost, Report, Gone
  <1>9. QED
    BY <1>1, <1>2, <1>b, <1>3, <1>4, <1>5, <1>6, <1>7, <1>8 DEF SessionStep

\* No record of an intent or of its controller is empty.
LEMMA ValueIsRecord ==
    ASSUME NEW c \in Clients, me[c].intent \in Intents, NEW p \in Phases
    PROVE  Value(c, p) # None /\ Value(c, p) \in Intents \cup Controllers
  BY NothingAssumption DEF Value, Controllers, Phases

\* The steps of the root and of the enrollment, where the session is the
\* lock owner's.
LEMMA EnrollmentSound ==
    ASSUME Types, Rooted, NEW c \in Clients, Sound(c), EnrollmentStep(c), UNCHANGED exportVars
    PROVE  OnlyMe(c) /\ Sound(c)'
  <1> USE DEF At, Sound
  <1>0. me \in [Clients -> Locals] /\ me[c] \in Locals
    BY DEF Types
  <1>1. CASE MakeRoot(c)
    <2>1. "syncParent" \in Steps
      BY DEF Steps, RootSteps
    <2>2. QED
      BY <1>0, <1>1, <2>1, GotoSteps DEF MakeRoot, Carried, Owner, Bound, Prepared, LockedSteps,
         SessionSteps, RecordSteps, RootSteps
  <1>2. CASE FindRoot(c)
    <2>1. "syncRoot" \in Steps
      BY DEF Steps, RootSteps
    <2>2. QED
      BY <1>0, <1>2, <2>1, GotoSteps DEF FindRoot, enrollmentVars, rootVars, Carried, Owner, Bound,
         Prepared, LockedSteps, SessionSteps, RecordSteps, RootSteps
  <1>3. CASE SyncParent(c)
    <2>1. "syncRoot" \in Steps
      BY DEF Steps, RootSteps
    <2>2. QED
      BY <1>0, <1>3, <2>1, GotoSteps DEF SyncParent, Carried, Owner, Bound,
         Prepared, LockedSteps, SessionSteps, RecordSteps, RootSteps
  <1>4. CASE SyncRoot(c)
    <2>1. PICK s \in {"intent", "enrolled"} :
            Goto(c, s) /\ s = (IF me[c].prog = "enroll" THEN "intent" ELSE "enrolled")
      BY <1>4 DEF SyncRoot
    <2>2. s \in Steps
      BY DEF Steps
    <2>3. SyncCarries => rootSafe'
      BY <1>4 DEF SyncRoot, Synced
    <2>4. QED
      BY <1>0, <1>4, <2>1, <2>2, <2>3, GotoSteps DEF SyncRoot, Synced, Carried, Owner, Bound,
         Prepared, LockedSteps, SessionSteps, RecordSteps, RootSteps
  <1>5. CASE Link(c)
    <2>1. "sync" \in Steps /\ "sync" \in RecordSteps /\ "link" \in RecordSteps
      BY DEF Steps, RecordSteps
    <2>2. /\ OnlyMe(c) /\ me'[c].pc = "sync" /\ me'[c].prog = me[c].prog
          /\ me'[c].expects = me[c].expects /\ me'[c].intent = me[c].intent
          /\ me'[c].phase = me[c].phase
      BY <1>0, <1>5, <2>1, GotoSteps DEF Link
    <2>3. \A p \in Phases : Value(c, p)' = Value(c, p)
      BY <2>2 DEF Value
    <2>4. me[c].phase \in Phases /\ me[c].intent \in Intents
      BY <1>5, <2>1 DEF Link, Carried
    <2>5. rec'[me[c].phase] = Value(c, me[c].phase) /\ \A p \in Phases : rec[p] = Value(c, p) => rec'[p] = Value(c, p)
      BY <1>5, <2>4 DEF Link, Types
    <2>6. \A p \in Phases : Kept(c, p) => Kept(c, p)'
      BY <1>5, <2>3, <2>5 DEF Link, Kept
    <2>7. Carried(c)' /\ Owner(c)' /\ Bound(c)'
      BY <1>5, <2>1, <2>2 DEF Link, Carried, Owner, Bound, LockedSteps, SessionSteps, RecordSteps,
         RootSteps
    <2>8. Prepared(c)'
      BY <1>5, <2>1, <2>2, <2>3, <2>4, <2>5, <2>6 DEF Link, Prepared, Phases, SessionSteps,
         LockedSteps, serverVars
    <2>9. QED
      BY <2>2, <2>7, <2>8
  <1>6. CASE Sync(c)
    <2>1. me[c].phase \in Phases /\ me[c].intent \in Intents /\ me[c].prog \in Drivers
          /\ me[c].expects = Expects(me[c].intent.plan)
      BY <1>6 DEF Sync, Carried, RecordSteps
    <2>2. /\ rec' = rec /\ root' = root /\ (SyncCarries => rootSafe') /\ root
          /\ \A p \in Phases : rec[p] # None => p \in safe'
      BY <1>6, <2>1 DEF Sync, Synced, Visible, Prepared
    <2>3. /\ me[c].phase = "controller" => rec["intent"] = Value(c, "intent")
          /\ rec[me[c].phase] = Value(c, me[c].phase)
      BY <1>6 DEF Sync, Prepared, Kept, RecordSteps
    <2>4. CASE me[c].phase = "intent"
      <3>1. /\ me' = [me EXCEPT ![c] = me'[c]]
            /\ me'[c] = [me[c] EXCEPT !.pc = "link", !.phase = "controller"]
        BY <1>0, <1>6, <2>4 DEF Sync, Following
      <3>2. /\ me'[c] \in Locals /\ me'[c].pc = "link" /\ me'[c].phase = "controller"
            /\ me'[c].prog = me[c].prog /\ me'[c].expects = me[c].expects
            /\ me'[c].intent = me[c].intent
        <4>1. "link" \in Steps /\ "controller" \in Phases
          BY DEF Steps, RecordSteps, Phases
        <4>2. me'[c] \in Locals
          BY <1>0, <3>1, <4>1 DEF Locals
        <4>3. QED
          BY <1>0, <3>1, <4>2 DEF Locals
      <3>3. OnlyMe(c)
        BY <1>0, <3>1, <3>2 DEF OnlyMe
      <3>4. Kept(c, "intent")'
        <4>1. Value(c, "intent") # None /\ Value(c, "intent")' = Value(c, "intent") /\ "intent" \in Phases
          BY <2>1, <3>2, ValueIsRecord DEF Value, Phases
        <4>2. QED
          BY <2>2, <2>3, <2>4, <4>1 DEF Kept
      <3>5. Carried(c)' /\ Owner(c)' /\ Bound(c)'
        BY <2>1, <3>2 DEF Carried, Owner, Bound, LockedSteps, SessionSteps, RecordSteps, RootSteps,
           Phases, Programs
      <3>6. Prepared(c)'
        BY <2>2, <3>2, <3>4 DEF Prepared, LockedSteps, SessionSteps, RecordSteps
      <3>7. QED
        BY <3>3, <3>5, <3>6
    <2>5. CASE me[c].phase = "controller" /\ me[c].prog = "enroll"
      <3>1. /\ me' = [me EXCEPT ![c] = me'[c]]
            /\ me'[c] = [me[c] EXCEPT !.pc = "lock", !.phase = None]
        BY <1>0, <1>6, <2>5 DEF Sync, Following
      <3>2. /\ me'[c] \in Locals /\ me'[c].pc = "lock" /\ me'[c].phase = None
            /\ me'[c].prog = me[c].prog /\ me'[c].expects = me[c].expects
            /\ me'[c].intent = me[c].intent
        <4>1. "lock" \in Steps
          BY DEF Steps, SessionSteps
        <4>2. me'[c] \in Locals
          BY <1>0, <3>1, <4>1 DEF Locals
        <4>3. QED
          BY <1>0, <3>1, <4>2 DEF Locals
      <3>3. OnlyMe(c)
        BY <1>0, <3>1, <3>2 DEF OnlyMe
      <3>4. Kept(c, "intent")' /\ Kept(c, "controller")'
        <4>1. ASSUME NEW p \in {"intent", "controller"}
              PROVE  Value(c, p) # None /\ Value(c, p)' = Value(c, p) /\ p \in Phases
          BY <2>1, <3>2, ValueIsRecord DEF Value, Phases
        <4>2. QED
          BY <2>2, <2>3, <2>5, <4>1 DEF Kept
      <3>5. Carried(c)' /\ Owner(c)' /\ Bound(c)'
        BY <2>1, <3>2 DEF Carried, Owner, Bound, LockedSteps, SessionSteps, RecordSteps, RootSteps,
           Programs
      <3>6. Prepared(c)'
        BY <2>2, <3>2, <3>4 DEF Prepared, RecordSteps
      <3>7. QED
        BY <3>3, <3>5, <3>6
    <2>6. CASE me[c].phase # "intent" /\ ~(me[c].phase = "controller" /\ me[c].prog = "enroll")
      BY <1>0, <1>6, <2>6, OffSound DEF Sync, Following
    <2>7. QED
      BY <2>4, <2>5, <2>6
  <1>7. CASE ChooseIntent(c)
    <2>1. PICK w \in Workers :
            me' = [me EXCEPT ![c].pc = "link", ![c].phase = "intent",
                             ![c].intent = [worker |-> w, plan |-> me[c].plan],
                             ![c].expects = Expects(me[c].plan),
                             ![c].plan = None, ![c].worker = None]
      BY <1>7 DEF ChooseIntent
    <2>2. me[c].plan \in Plans /\ me[c].prog \in Drivers
      BY <1>7 DEF ChooseIntent, Carried, RootSteps, Drivers
    <2>3. /\ me' = [me EXCEPT ![c] = me'[c]]
          /\ me'[c] = [me[c] EXCEPT !.pc = "link", !.phase = "intent",
                                    !.intent = [worker |-> w, plan |-> me[c].plan],
                                    !.expects = Expects(me[c].plan), !.plan = None, !.worker = None]
      BY <1>0, <2>1
    <2>4. [worker |-> w, plan |-> me[c].plan] \in Intents /\ Expects(me[c].plan) \in {Expects(p) : p \in Plans}
      BY <2>2 DEF Intents
    <2>5. /\ me'[c] \in Locals /\ me'[c].pc = "link" /\ me'[c].phase = "intent"
          /\ me'[c].prog = me[c].prog /\ me'[c].expects = Expects(me[c].plan)
          /\ me'[c].intent = [worker |-> w, plan |-> me[c].plan]
      <3>1. "link" \in Steps /\ "intent" \in Phases
        BY DEF Steps, RecordSteps, Phases
      <3>2. me'[c] \in Locals
        BY <1>0, <2>3, <2>4, <3>1 DEF Locals
      <3>3. QED
        BY <1>0, <2>3, <3>2 DEF Locals
    <2>6. OnlyMe(c)
      BY <1>0, <2>3, <2>5 DEF OnlyMe
    <2>7. me'[c].intent \in Intents /\ me'[c].intent.plan = me[c].plan
      BY <2>4, <2>5
    <2>8. Carried(c)' /\ Owner(c)' /\ Bound(c)'
      BY <2>2, <2>5, <2>7 DEF Carried, Owner, Bound, LockedSteps, SessionSteps, RecordSteps, RootSteps,
         Phases, Drivers, Programs
    <2>9. Prepared(c)'
      BY <1>7, <2>2, <2>5 DEF ChooseIntent, enrollmentVars, rootVars, Prepared, LockedSteps, SessionSteps,
         RecordSteps
    <2>10. QED
      BY <2>6, <2>8, <2>9
  <1>8. CASE ServerEnrolls(c)
    <2>1. /\ me' = [me EXCEPT ![c] = me'[c]]
          /\ me'[c] = [me[c] EXCEPT !.pc = "link", !.phase = "enrollment", !.token = None]
      BY <1>0, <1>8 DEF ServerEnrolls
    <2>2. /\ me'[c] \in Locals /\ me'[c].pc = "link" /\ me'[c].phase = "enrollment"
          /\ me'[c].prog = me[c].prog /\ me'[c].expects = me[c].expects
          /\ me'[c].intent = me[c].intent
      <3>1. "link" \in Steps /\ "enrollment" \in Phases
        BY DEF Steps, RecordSteps, Phases
      <3>2. me'[c] \in Locals
        BY <1>0, <2>1, <3>1 DEF Locals
      <3>3. QED
        BY <1>0, <2>1, <3>2 DEF Locals
    <2>3. OnlyMe(c)
      BY <1>0, <2>1, <2>2 DEF OnlyMe
    <2>4. /\ me[c].pc = "call" /\ me[c].prog = "enroll" /\ me[c].prog \in Drivers
          /\ me[c].intent \in Intents /\ me[c].expects = Expects(me[c].intent.plan)
          /\ UNCHANGED <<rootVars, exportVars>>
      BY <1>8 DEF ServerEnrolls, Enrolled, Carried, Drivers
    <2>5. row'[me[c].intent.worker] # None /\ row'[me[c].intent.worker].plan = me[c].intent.plan
      <3>1. me[c].intent.worker \in Workers /\ me[c].intent.plan \in Plans
        BY <2>4 DEF Intents
      <3>2. CASE row[me[c].intent.worker] # None
        BY <1>8, <3>2 DEF ServerEnrolls, Enrolled
      <3>3. CASE row[me[c].intent.worker] = None
        <4>1. row' = [row EXCEPT ![me[c].intent.worker] = [plan |-> me[c].intent.plan, access |-> bound[me[c].token]]]
          BY <1>8, <3>3 DEF ServerEnrolls, Enrolled
        <4>2. row'[me[c].intent.worker] = [plan |-> me[c].intent.plan, access |-> bound[me[c].token]]
          BY <3>1, <4>1 DEF Types
        <4>3. bound[me[c].token] \in Accesses
          BY <2>4, NothingAssumption DEF Carried, Bound, Types, Intents
        <4>4. [plan |-> me[c].intent.plan, access |-> bound[me[c].token]] \in [plan : Plans, access : Accesses]
          BY <3>1, <4>3
        <4>5. [plan |-> me[c].intent.plan, access |-> bound[me[c].token]] # None
          BY <4>4, NothingAssumption, Zenon
        <4>6. QED
          BY <4>2, <4>5
      <3>4. QED
        BY <3>2, <3>3
    <2>6. Carried(c)' /\ Owner(c)' /\ Bound(c)'
      BY <2>2, <2>4 DEF Carried, Owner, Bound, LockedSteps, SessionSteps, RecordSteps, RootSteps,
         Phases, Programs
    <2>7. Kept(c, "intent")' /\ Kept(c, "controller")' /\ (SyncCarries => rootSafe') /\ root'
      BY <2>2, <2>4 DEF Prepared, Kept, Value, rootVars
    <2>8. Prepared(c)'
      BY <2>2, <2>5, <2>7 DEF Prepared, LockedSteps, SessionSteps, RecordSteps
    <2>9. QED
      BY <2>3, <2>6, <2>8
  <1>9. CASE ReadEnrollment(c)
    <2>1. rec["enrollment"] \in Intents /\ rec["intent"] = rec["enrollment"]
          /\ rec["intent"].plan \in Plans
          /\ Expects(rec["intent"].plan) \in {Expects(p) : p \in Plans}
      BY <1>9 DEF ReadEnrollment, Types, Intents
    <2>2. /\ me' = [me EXCEPT ![c] = me'[c]]
          /\ me'[c] = [me[c] EXCEPT !.intent = rec["enrollment"],
                                    !.expects = Expects(rec["intent"].plan),
                                    !.pc = IF me[c].prog = "run" THEN "link" ELSE "lock",
                                    !.phase = IF me[c].prog = "run" THEN "controller" ELSE None]
      BY <1>0, <1>9 DEF ReadEnrollment
    <2>3. /\ me'[c] \in Locals
          /\ me'[c].pc = IF me[c].prog = "run" THEN "link" ELSE "lock"
          /\ me'[c].phase = IF me[c].prog = "run" THEN "controller" ELSE None
          /\ me'[c].prog = me[c].prog /\ me'[c].expects = Expects(rec["intent"].plan)
          /\ me'[c].intent = rec["enrollment"]
      <3>1. /\ (IF me[c].prog = "run" THEN "link" ELSE "lock") \in Steps
            /\ (IF me[c].prog = "run" THEN "controller" ELSE None) \in Phases \cup {None}
        BY DEF Steps, RecordSteps, SessionSteps, Phases
      <3>2. me'[c] \in Locals
        BY <1>0, <2>1, <2>2, <3>1 DEF Locals
      <3>3. QED
        BY <1>0, <2>2, <3>2 DEF Locals
    <2>4. OnlyMe(c)
      BY <1>0, <2>2, <2>3 DEF OnlyMe
    <2>5. /\ me[c].prog \in Drivers /\ me[c].prog # "enroll" /\ root
          /\ rec' = rec /\ root' = root /\ \A p \in Phases : rec[p] # None => p \in safe'
      BY <1>9 DEF ReadEnrollment, Carried, Prepared, Synced, Visible
    <2>6. Kept(c, "intent")'
      BY <1>9, <2>1, <2>3, <2>5 DEF ReadEnrollment, Kept, Value, Phases
    <2>7. Carried(c)' /\ Owner(c)' /\ Bound(c)'
      BY <2>1, <2>3, <2>5 DEF Carried, Owner, Bound, LockedSteps, SessionSteps, RecordSteps, RootSteps,
         Phases, Programs
    <2>8. Prepared(c)'
      BY <2>3, <2>5, <2>6 DEF Prepared, LockedSteps, SessionSteps, RecordSteps
    <2>9. QED
      BY <2>4, <2>7, <2>8
  <1>10. CASE EnrollReplyLost(c) \/ Command(c)
    BY <1>0, <1>10, OffSound DEF EnrollReplyLost, Command, Gone
  <1>11. QED
    BY <1>1, <1>2, <1>3, <1>4, <1>5, <1>6, <1>7, <1>8, <1>9, <1>10 DEF EnrollmentStep

\* Starts and the download, which has no lock while it transfers.
LEMMA StartSound ==
    ASSUME Types, NEW c \in Clients, StartSession(c) \/ StartEnroll(c) \/ StartDriver(c)
    PROVE  OnlyMe(c) /\ Sound(c)'
  <1> USE DEF At, Sound
  <1>0. me \in [Clients -> Locals]
    BY DEF Types
  <1>1. CASE StartSession(c)
    <2>1. PICK p \in {"login", "headers", "download"} : Starts(c, [Off EXCEPT !.prog = p, !.pc = "lock"])
      BY <1>1 DEF StartSession
    <2>2. me' = [me EXCEPT ![c] = me'[c]] /\ me'[c] = [Off EXCEPT !.prog = p, !.pc = "lock"]
      BY <1>0, <2>1 DEF Starts
    <2>3. me'[c] \in Locals /\ me'[c].prog = p /\ me'[c].pc = "lock"
      <3>1. p \in Programs /\ "lock" \in Steps
        BY DEF Programs, Steps, SessionSteps
      <3>2. QED
        BY <2>2, <3>1, OffTyped DEF Locals
    <2>4. OnlyMe(c)
      BY <1>0, <2>2, <2>3 DEF OnlyMe
    <2>5. QED
      BY <2>3, <2>4 DEF Carried, Owner, Bound, Prepared, LockedSteps, SessionSteps, RecordSteps,
         RootSteps, Programs, Drivers
  <1>2. CASE StartEnroll(c)
    <2>1. PICK plan \in Plans, w \in Workers \cup {None} :
            Starts(c, [Off EXCEPT !.prog = "enroll", !.pc = "root", !.plan = plan, !.worker = w])
      BY <1>2 DEF StartEnroll
    <2>2. /\ me' = [me EXCEPT ![c] = me'[c]]
          /\ me'[c] = [Off EXCEPT !.prog = "enroll", !.pc = "root", !.plan = plan, !.worker = w]
      BY <1>0, <2>1 DEF Starts
    <2>3. me'[c] \in Locals /\ me'[c].prog = "enroll" /\ me'[c].pc = "root" /\ me'[c].plan = plan
      <3>1. "enroll" \in Programs /\ "root" \in Steps
        BY DEF Programs, Drivers, Steps, RootSteps
      <3>2. QED
        BY <2>2, <3>1, OffTyped DEF Locals
    <2>4. OnlyMe(c)
      BY <1>0, <2>2, <2>3 DEF OnlyMe
    <2>5. QED
      BY <2>3, <2>4 DEF Carried, Owner, Bound, Prepared, LockedSteps, SessionSteps, RecordSteps,
         RootSteps, Programs, Drivers
  <1>3. CASE StartDriver(c)
    <2>1. PICK p \in {"revoke", "task", "run"} : Starts(c, [Off EXCEPT !.prog = p, !.pc = "root"])
      BY <1>3 DEF StartDriver
    <2>2. me' = [me EXCEPT ![c] = me'[c]] /\ me'[c] = [Off EXCEPT !.prog = p, !.pc = "root"]
      BY <1>0, <2>1 DEF Starts
    <2>3. me'[c] \in Locals /\ me'[c].prog = p /\ me'[c].pc = "root"
      <3>1. p \in Programs /\ "root" \in Steps
        BY DEF Programs, Drivers, Steps, RootSteps
      <3>2. QED
        BY <2>2, <3>1, OffTyped DEF Locals
    <2>4. OnlyMe(c)
      BY <1>0, <2>2, <2>3 DEF OnlyMe
    <2>5. QED
      BY <2>3, <2>4 DEF Carried, Owner, Bound, Prepared, LockedSteps, SessionSteps, RecordSteps,
         RootSteps, Programs, Drivers
  <1>4. QED
    BY <1>1, <1>2, <1>3

\* The download's steps, which take no lock.
LEMMA DownloadSound ==
    ASSUME Types, NEW c \in Clients, Sound(c), Describe(c) \/ Chunk(c) \/ Publish(c),
           UNCHANGED <<sessionVars, enrollmentVars>>
    PROVE  OnlyMe(c) /\ Sound(c)'
  <1> USE DEF At, Sound
  <1>0. me \in [Clients -> Locals] /\ me[c] \in Locals /\ snapshot \in Snapshots
    BY DEF Types
  <1>1. CASE Describe(c)
    <2>1. /\ me' = [me EXCEPT ![c] = me'[c]]
          /\ me'[c] = [me[c] EXCEPT !.pc = "chunk", !.want = snapshot, !.token = None]
      BY <1>0, <1>1 DEF Describe
    <2>2. /\ me'[c] \in Locals /\ me'[c].pc = "chunk" /\ me'[c].want = snapshot
          /\ me'[c].prog = me[c].prog
      <3>1. "chunk" \in Steps
        BY DEF Steps
      <3>2. me'[c] \in Locals
        BY <1>0, <2>1, <3>1 DEF Locals
      <3>3. QED
        BY <1>0, <2>1, <3>2 DEF Locals
    <2>3. OnlyMe(c)
      BY <1>0, <2>1, <2>2 DEF OnlyMe
    <2>4. QED
      BY <1>0, <1>1, <2>2, <2>3 DEF Describe, Carried, Owner, Bound, Prepared, LockedSteps,
         SessionSteps, RecordSteps, RootSteps, enrollmentVars, rootVars
  <1>2. CASE Chunk(c)
    <2>1. /\ me' = [me EXCEPT ![c] = me'[c]]
          /\ me'[c] = [me[c] EXCEPT !.got = Append(@, <<snapshot, Len(@) + 1>>)]
      BY <1>0, <1>2 DEF Chunk
    <2>2. me[c].got \in Seq(Snapshots \X Nat)
      BY <1>0 DEF Locals
    <2>3. Append(me[c].got, <<snapshot, Len(me[c].got) + 1>>) \in Seq(Snapshots \X Nat)
      <3>1. <<snapshot, Len(me[c].got) + 1>> \in Snapshots \X Nat
        BY <1>0, <2>2
      <3>2. QED
        BY <2>2, <3>1
    <2>4. /\ me'[c] \in Locals /\ me'[c].pc = me[c].pc /\ me'[c].want = me[c].want
          /\ me'[c].prog = me[c].prog
      <3>1. me'[c] \in Locals
        BY <1>0, <2>1, <2>3 DEF Locals
      <3>2. QED
        BY <1>0, <2>1, <3>1 DEF Locals
    <2>5. OnlyMe(c)
      BY <1>0, <2>1, <2>4 DEF OnlyMe
    <2>6. QED
      BY <1>2, <2>4, <2>5 DEF Chunk, Carried, Owner, Bound, Prepared, LockedSteps,
         SessionSteps, RecordSteps, RootSteps, enrollmentVars, rootVars
  <1>3. CASE Publish(c)
    <2>1. "report" \in Steps
      BY DEF Steps
    <2>2. QED
      BY <1>0, <1>3, <2>1, GotoSteps DEF Publish, Carried, Owner, Bound, Prepared, LockedSteps,
         SessionSteps, RecordSteps, RootSteps, enrollmentVars, rootVars
  <1>4. QED
    BY <1>1, <1>2, <1>3

\* A step of any program keeps that program sound.
LEMMA ProgramSound ==
    ASSUME Types, Issued, Rooted, NEW c \in Clients, Sound(c), ClientStep(c)
    PROVE  OnlyMe(c) /\ Sound(c)'
  <1>1. CASE Stops(c)
    BY <1>1, OffSound DEF Stops, Gone, Types
  <1>2. QED
    BY <1>1, StartSound, SessionSound, EnrollmentSound, DownloadSound DEF ClientStep

-----------------------------------------------------------------------------
\* What the programs share.

\* Nothing that is decided is undone: logins, records and rows are there for
\* good, as long as the power is.
Grows ==
    /\ \A l \in Logins : bound[l] # None => bound'[l] = bound[l]
    /\ \A p \in Phases : rec[p] # None => rec'[p] = rec[p]
    /\ safe \subseteq safe' /\ (root => root') /\ (rootSafe => rootSafe')
    /\ \A w \in Workers : row[w] # None => row'[w] = row[w]

\* The session is its owner's.
Locks(c) ==
    /\ lock' = lock \/ lock = None \/ lock = c
    /\ UNCHANGED <<file, current>> \/ lock = c

\* The session's steps: a login is bound for good, and the file is the owner's.
LEMMA SessionShares ==
    ASSUME Types, NEW c \in Clients, Sound(c), SessionStep(c)
    PROVE  /\ Locks(c)
           /\ \A l \in Logins : bound[l] # None => bound'[l] = bound[l]
           /\ file' \in Sessions \cup {None} /\ disk' \subseteq Sessions \cup {None} /\ file' \in disk'
           /\ lock' \in Clients \cup {None}
           /\ bound' \in [Logins -> Accesses \cup {None}]
           /\ current' \in [Logins -> 0 .. MaxRotations]
           /\ lost' \subseteq Logins
  <1> USE DEF Types, At, Locks
  <1>1. CASE Lock(c) \/ Load(c) \/ Ask(c) \/ Expired(c) \/ Check(c)
    BY <1>1 DEF Lock, Load, Ask, Unlock, Expired, Check, sessionVars
  <1>2. CASE Refresh(c) \/ RefreshLost(c)
    <2>1. me[c].session.login \in Logins /\ lock = c
      BY <1>2 DEF Refresh, RefreshLost, Sound, Carried, Owner, LockedSteps, Sessions
    <2>2. QED
      BY <1>2, <2>1 DEF Refresh, RefreshLost, Rotated, Unlock
  <1>3. CASE Save(c)
    <2>1. me[c].session \in Sessions /\ lock = c
      BY <1>3 DEF Save, Sound, Carried, Owner, LockedSteps
    <2>2. QED
      BY <1>3, <2>1 DEF Save
  <1>4. CASE Enter(c)
    <2>1. PICK n \in Logins, a \in Accesses :
            /\ \A m \in Logins : bound[m] = None <=> m >= n
            /\ bound' = [bound EXCEPT ![n] = a]
      BY <1>4 DEF Enter
    <2>2. bound[n] = None
      BY <2>1 DEF Logins
    <2>3. QED
      BY <1>4, <2>1, <2>2 DEF Enter
  <1>5. CASE Report(c)
    BY <1>5 DEF Report, Gone, Unlock
  <1>6. QED
    BY <1>1, <1>2, <1>3, <1>4, <1>5 DEF SessionStep

\* The enrollment's steps: records, synced names and rows are only added.
LEMMA EnrollmentShares ==
    ASSUME Types, Rooted, NEW c \in Clients, Sound(c), EnrollmentStep(c)
    PROVE  /\ Locks(c)
           /\ UNCHANGED <<file, disk, bound, current>> /\ lock' \in Clients \cup {None} /\ lost' \subseteq Logins
           /\ \A p \in Phases : rec[p] # None => rec'[p] = rec[p]
           /\ safe \subseteq safe' /\ (root => root') /\ (rootSafe => rootSafe')
           /\ \A w \in Workers : row[w] # None => row'[w] = row[w]
           /\ root' \in BOOLEAN /\ rootSafe' \in BOOLEAN
           /\ rec' \in [Phases -> Intents \cup Controllers \cup {None}]
           /\ rec'["intent"] \in Intents \cup {None}
           /\ rec'["enrollment"] \in Intents \cup {None}
           /\ safe' \in SUBSET Phases
           /\ row' \in [Workers -> [plan : Plans, access : Accesses] \cup {None}]
           /\ revoked' \subseteq {w \in Workers : row'[w] # None}
  <1> USE ProgramAssumption DEF Types, At, Locks, sessionVars, rootVars, serverVars, enrollmentVars
  <1>1. CASE MakeRoot(c) \/ FindRoot(c) \/ SyncParent(c)
    BY <1>1 DEF MakeRoot, FindRoot, SyncParent, Goto, Rooted
  <1>2. Visible \in SUBSET Phases /\ safe \subseteq Visible
    BY DEF Visible, Rooted
  <1>3. CASE SyncRoot(c) \/ Sync(c) \/ ReadEnrollment(c)
    BY <1>2, <1>3 DEF SyncRoot, Sync, ReadEnrollment, Synced
  <1>4. CASE Link(c)
    <2>1. me[c].phase \in Phases /\ me[c].intent \in Intents
      BY <1>4 DEF Link, Sound, Carried, RecordSteps
    <2>2. /\ Value(c, me[c].phase) \in Intents \cup Controllers
          /\ me[c].phase # "controller" => Value(c, me[c].phase) \in Intents
      BY <2>1, ValueIsRecord DEF Value
    <2>3. /\ rec[me[c].phase] \in {None, Value(c, me[c].phase)}
          /\ rec' = [rec EXCEPT ![me[c].phase] = Value(c, me[c].phase)]
          /\ UNCHANGED <<sessionVars, root, rootSafe, safe, serverVars>>
      BY <1>4 DEF Link
    <2>4. \A p \in Phases : rec[p] # None => rec'[p] = rec[p]
      BY <2>1, <2>3
    <2>5. rec' \in [Phases -> Intents \cup Controllers \cup {None}]
      BY <2>1, <2>2, <2>3
    <2>6. rec'["intent"] \in Intents \cup {None} /\ rec'["enrollment"] \in Intents \cup {None}
      BY <2>1, <2>2, <2>3 DEF Phases
    <2>7. QED
      BY <2>3, <2>4, <2>5, <2>6
  <1>5. CASE ChooseIntent(c)
    BY <1>5 DEF ChooseIntent
  <1>6. ASSUME Enrolled(c)
        PROVE  /\ \A w \in Workers : row[w] # None => row'[w] = row[w]
               /\ row' \in [Workers -> [plan : Plans, access : Accesses] \cup {None}]
               /\ UNCHANGED <<rootVars, revoked>>
    <2>1. me[c].pc = "call" /\ me[c].intent \in Intents /\ me[c].token \in Logins
          /\ me[c].intent.worker \in Workers /\ me[c].intent.plan \in Plans
          /\ me[c].expects # None /\ bound[me[c].token] = me[c].expects
      BY <1>6, NothingAssumption DEF Enrolled, Sound, Carried, Bound, Intents, Drivers
    <2>2. bound[me[c].token] \in Accesses
      BY <2>1
    <2>3. \/ row' = row
          \/ /\ row[me[c].intent.worker] = None
             /\ row' = [row EXCEPT ![me[c].intent.worker] =
                          [plan |-> me[c].intent.plan, access |-> bound[me[c].token]]]
      BY <1>6 DEF Enrolled
    <2>4. [plan |-> me[c].intent.plan, access |-> bound[me[c].token]] \in [plan : Plans, access : Accesses]
      BY <2>1, <2>2
    <2>5. QED
      BY <1>6, <2>1, <2>3, <2>4 DEF Enrolled
  <1>7. CASE ServerEnrolls(c) \/ EnrollReplyLost(c)
    <2>1. Enrolled(c) /\ UNCHANGED <<file, disk, bound, current>>
          /\ lock' \in {lock, None} /\ (lock' # lock => lock = c) /\ lost' \subseteq Logins
      BY <1>7 DEF ServerEnrolls, EnrollReplyLost, Gone, Unlock, Enrolled
    <2>2. revoked' \subseteq {w \in Workers : row'[w] # None}
      BY <1>6, <2>1
    <2>3. QED
      BY <1>6, <2>1, <2>2
  <1>8. CASE Command(c)
    <2>1. me[c].intent \in Intents /\ me[c].intent.worker \in Workers
      BY <1>8 DEF Command, Sound, Carried, Intents, Drivers
    <2>2. UNCHANGED <<file, disk, bound, current>> /\ lock' \in {lock, None} /\ (lock' # lock => lock = c)
          /\ lost' \subseteq Logins
      BY <1>8 DEF Command, Gone, Unlock
    <2>3. revoked' \subseteq {w \in Workers : row'[w] # None}
      BY <1>8, <2>1 DEF Command
    <2>4. QED
      BY <1>8, <2>2, <2>3 DEF Command
  <1>9. QED
    BY <1>1, <1>3, <1>4, <1>5, <1>7, <1>8 DEF EnrollmentStep

\* A step of any program keeps the types and lets what is shared only grow.
LEMMA ProgramShares ==
    ASSUME Types, Issued, Rooted, NEW c \in Clients, Sound(c), ClientStep(c)
    PROVE  Types' /\ Grows /\ Locks(c)
  <1>1. me' \in [Clients -> Locals]
    BY ProgramSound DEF OnlyMe
  <1> USE <1>1 DEF Types, Grows, sessionVars, rootVars, serverVars, enrollmentVars, exportVars
  <1>2. CASE StartSession(c) \/ StartEnroll(c) \/ StartDriver(c)
    BY <1>2 DEF StartSession, StartEnroll, StartDriver, Starts, Locks
  <1>3. CASE Stops(c)
    <2>1. At(c, "save") => me[c].session.login \in Logins
      BY <1>3 DEF Sound, Carried, Sessions, At
    <2>2. lost' \subseteq Logins /\ lock' \in {lock, None} /\ (lock' # lock => lock = c)
      BY <1>3, <2>1 DEF Stops, Gone, Unlock
    <2>3. QED
      BY <1>3, <2>2 DEF Stops, Gone, Locks
  <1>4. CASE SessionStep(c) /\ UNCHANGED <<enrollmentVars, exportVars>>
    BY <1>4, SessionShares
  <1>5. CASE EnrollmentStep(c) /\ UNCHANGED exportVars
    <2>1. UNCHANGED <<file, disk, bound, current, programs, snapshot>>
      BY <1>5, EnrollmentShares
    <2>2. QED
      BY <1>5, <2>1, EnrollmentShares
  <1>6. CASE (Describe(c) \/ Chunk(c) \/ Publish(c)) /\ UNCHANGED <<sessionVars, enrollmentVars>>
    BY <1>6 DEF Describe, Chunk, Publish, Locks
  <1>7. QED
    BY <1>2, <1>3, <1>4, <1>5, <1>6 DEF ClientStep

\* No step of c takes from another program what it relies on.
LEMMA OthersSound ==
    ASSUME Types, NEW c \in Clients, NEW d \in Clients, d # c, me'[d] = me[d],
           Grows, Locks(c), Sound(d)
    PROVE  Sound(d)'
  <1> USE DEF At, Sound
  <1>1. Carried(d)'
    BY DEF Carried
  <1>2. me[d].pc \in LockedSteps => lock' = d /\ UNCHANGED <<file, current>>
    BY ProgramAssumption DEF Owner, Locks
  <1>3. Owner(d)'
    <2>1. {"ask", "refresh", "check", "save", "again"} \subseteq LockedSteps
      BY DEF LockedSteps
    <2>2. QED
      BY <1>2, <2>1 DEF Owner
  <1>4. me[d].pc \in {"ask", "refresh", "save", "again", "check"} =>
          bound[me[d].session.login] # None /\ bound'[me[d].session.login] = bound[me[d].session.login]
    BY DEF Carried, Bound, Sessions, Grows
  <1>5. me[d].pc = "call" => bound'[me[d].token] = bound[me[d].token]
    <2>1. me[d].pc = "call" => me[d].token \in Logins /\ bound[me[d].token] # None
      BY NothingAssumption DEF Carried, Bound, RecordSteps, Intents
    <2>2. QED
      BY <2>1 DEF Grows
  <1>6. Bound(d)'
    BY <1>4, <1>5 DEF Bound
  <1>7. ASSUME NEW p \in Phases, me[d].intent \in Intents
        PROVE  /\ rec[p] = Value(d, p) => rec'[p] = Value(d, p)'
               /\ Kept(d, p) => Kept(d, p)'
    BY <1>7, ValueIsRecord DEF Kept, Value, Grows
  <1>8. me[d].prog \in Drivers /\ me[d].pc \in SessionSteps \cup RecordSteps \cup {"call"} =>
          me[d].intent \in Intents
    BY DEF Carried
  <1>9. me[d].pc \in RecordSteps => me[d].prog \in Drivers /\ me[d].phase \in Phases
    BY DEF Carried
  <1>10. At(d, "sync") => (rec[me[d].phase] = Value(d, me[d].phase))'
    BY <1>7, <1>8, <1>9 DEF Prepared, RecordSteps
  <1>11. /\ me[d].pc \in RecordSteps /\ me[d].phase = "controller" => Kept(d, "intent")'
         /\ me[d].prog = "enroll" /\ me[d].pc \in SessionSteps \cup {"call"} =>
              Kept(d, "intent")' /\ Kept(d, "controller")'
    BY <1>7, <1>8, <1>9 DEF Prepared, Phases, Drivers
  <1>12. me[d].pc \in RecordSteps /\ me[d].phase = "enrollment" =>
           /\ Kept(d, "intent")' /\ Kept(d, "controller")'
           /\ row'[me[d].intent.worker] # None
           /\ row'[me[d].intent.worker].plan = me[d].intent.plan
    <2>1. SUFFICES ASSUME me[d].pc \in RecordSteps, me[d].phase = "enrollment"
          PROVE  /\ Kept(d, "intent")' /\ Kept(d, "controller")'
                 /\ row'[me[d].intent.worker] # None
                 /\ row'[me[d].intent.worker].plan = me[d].intent.plan
      OBVIOUS
    <2>2. me[d].intent \in Intents /\ me[d].intent.worker \in Workers
      BY <1>8, <1>9, <2>1 DEF Intents
    <2>3. /\ Kept(d, "intent") /\ Kept(d, "controller")
          /\ row[me[d].intent.worker] # None
          /\ row[me[d].intent.worker].plan = me[d].intent.plan
      BY <2>1 DEF Prepared
    <2>4. QED
      BY <1>7, <2>2, <2>3 DEF Grows, Phases
  <1>13. Prepared(d)'
    <2>1. /\ me[d].prog \in Drivers /\ me[d].pc # "off" /\ me[d].pc # "root" => root'
          /\ me[d].prog = "enroll" /\ me[d].pc \in {"intent", "call"} \cup RecordSteps \cup SessionSteps
               => (SyncCarries => rootSafe')
      BY DEF Prepared, Grows
    <2>2. QED
      BY <1>10, <1>11, <1>12, <2>1 DEF Prepared
  <1>14. QED
    BY <1>1, <1>3, <1>6, <1>13

-----------------------------------------------------------------------------
\* What holds of the machine and the server together.

\* A saved session is of a login that was made.
LEMMA IssuedStep ==
    ASSUME Types, Issued, Rooted, NEW c \in Clients, Sound(c), ClientStep(c)
    PROVE  Issued'
  <1> USE DEF At, Types
  <1>0. Types' /\ Grows
    BY ProgramShares
  <1>1. CASE UNCHANGED <<disk, bound, current>>
    BY <1>1 DEF Issued
  <1>2. CASE Save(c)
    <2>1. me[c].session \in Sessions /\ bound[me[c].session.login] # None
      BY <1>2 DEF Save, Sound, Carried, Bound
    <2>2. disk' = disk \cup {me[c].session} /\ UNCHANGED <<bound, current>>
      BY <1>2 DEF Save
    <2>3. QED
      BY <2>1, <2>2 DEF Issued
  <1>3. CASE Refresh(c) \/ RefreshLost(c)
    <2>1. bound[me[c].session.login] # None
      BY <1>3 DEF Refresh, RefreshLost, Sound, Bound
    <2>2. UNCHANGED <<disk, bound>> /\ \A l \in Logins : l # me[c].session.login => current'[l] = current[l]
      BY <1>3 DEF Refresh, RefreshLost, Rotated
    <2>3. QED
      BY <2>1, <2>2 DEF Issued
  <1>4. CASE Enter(c)
    <2>1. UNCHANGED <<disk, current>>
      BY <1>4 DEF Enter
    <2>2. \A s \in disk : s # None => s.login \in Logins
      BY DEF Sessions
    <2>3. QED
      BY <1>0, <2>1, <2>2 DEF Issued, Grows
  <1>5. QED
    <2>1. CASE SessionStep(c)
      BY <1>1, <1>2, <1>3, <1>4, <2>1 DEF SessionStep, Lock, Load, Ask, Expired, Check, Report, Gone,
         sessionVars
    <2>2. CASE EnrollmentStep(c)
      BY <1>1, <2>2, EnrollmentShares
    <2>3. QED
      BY <1>1, <2>1, <2>2 DEF ClientStep, StartSession, StartEnroll, StartDriver, Starts, Stops, Gone,
         sessionVars

\* A name is in the root, and the enrollment is written last.
LEMMA RootedStep ==
    ASSUME Types, Issued, Rooted, NEW c \in Clients, Sound(c), ClientStep(c)
    PROVE  Rooted'
  <1> USE DEF At, Types, rootVars
  <1>1. CASE UNCHANGED rootVars
    BY <1>1 DEF Rooted, Visible
  <1>2. CASE MakeRoot(c) \/ SyncParent(c)
    <2>1. At(c, "syncParent") => root
      BY DEF Sound, Carried, Prepared, RootSteps
    <2>2. QED
      BY <1>2, <2>1 DEF MakeRoot, SyncParent, Rooted, Visible
  <1>3. CASE SyncRoot(c) \/ Sync(c) \/ ReadEnrollment(c)
    <2>1. root
      BY <1>3 DEF SyncRoot, Sync, ReadEnrollment, Sound, Carried, Prepared, RootSteps, RecordSteps
    <2>2. safe' = Visible /\ UNCHANGED <<root, rec>>
      BY <1>3 DEF SyncRoot, Sync, ReadEnrollment, Synced
    <2>3. QED
      BY <2>1, <2>2 DEF Rooted, Visible
  <1>4. CASE Link(c)
    <2>1. me[c].phase \in Phases /\ me[c].intent \in Intents /\ root
      BY <1>4 DEF Link, Sound, Carried, Prepared, RecordSteps
    <2>2. Value(c, me[c].phase) # None
      BY <2>1, ValueIsRecord
    <2>3. rec' = [rec EXCEPT ![me[c].phase] = Value(c, me[c].phase)] /\ UNCHANGED <<root, rootSafe, safe>>
      BY <1>4 DEF Link
    <2>4. me[c].phase = "enrollment" => {"intent", "controller"} \subseteq safe
      BY <1>4 DEF Link, Sound, Prepared, RecordSteps, Kept
    <2>5. safe \subseteq Visible'
      BY <2>1, <2>2, <2>3 DEF Rooted, Visible
    <2>6. rec'["enrollment"] # None => {"intent", "controller"} \subseteq safe'
      BY <2>1, <2>3, <2>4 DEF Rooted
    <2>7. QED
      BY <2>1, <2>3, <2>5, <2>6 DEF Rooted
  <1>5. QED
    <2>1. CASE EnrollmentStep(c)
      BY <1>1, <1>2, <1>3, <1>4, <2>1 DEF EnrollmentStep, FindRoot, ChooseIntent, ServerEnrolls,
         EnrollReplyLost, Enrolled, Command, enrollmentVars
    <2>2. QED
      BY <1>1, <2>1 DEF ClientStep, StartSession, StartEnroll, StartDriver, Starts, Stops, enrollmentVars

\* A session the server no longer accepts was lost with its program, or is
\* about to be replaced.
LEMMA SessionKeptStep ==
    ASSUME Types, Issued, Rooted, \A d \in Clients : Sound(d), SessionKept,
           NEW c \in Clients, ClientStep(c)
    PROVE  SessionKept'
  <1> USE DEF At
  <1>0. /\ OnlyMe(c) /\ Sound(c)' /\ Types' /\ Locks(c) /\ lost \subseteq lost'
        /\ me[c] \in Locals /\ file' \in Sessions \cup {None}
    <2>1. lost \subseteq lost'
      BY DEF ClientStep, StartSession, StartEnroll, StartDriver, Starts, Stops, Gone, SessionStep,
         Lock, Load, Ask, Expired, Refresh, RefreshLost, Save, Enter, Check, Report, EnrollmentStep,
         MakeRoot, FindRoot, SyncParent, SyncRoot, Link, Sync, ChooseIntent, ServerEnrolls,
         EnrollReplyLost, ReadEnrollment, Command, sessionVars
    <2>2. QED
      BY <2>1, ProgramSound, ProgramShares DEF Types
  <1>1. file' # Torn
    BY <1>0, NothingAssumption
  <1>2. CASE me[c].pc = "save" /\ ~Save(c)
    <2>1. Stops(c)
      BY <1>2 DEF ClientStep, StartSession, StartEnroll, StartDriver, Starts, SessionStep,
         Lock, Load, Ask, Expired, Refresh, RefreshLost, Enter, Check, Report, EnrollmentStep,
         MakeRoot, FindRoot, SyncParent, SyncRoot, Link, Sync, ChooseIntent, ServerEnrolls,
         EnrollReplyLost, Enrolled, ReadEnrollment, Command, Describe, Chunk, Publish
    <2>2. UNCHANGED <<file, current>> /\ lost' = lost \cup {me[c].session.login}
          /\ \A d \in Clients : d # c => me'[d] = me[d]
      BY <1>0, <1>2, <2>1 DEF Stops, Gone, OnlyMe
    <2>3. QED
      BY <1>1, <2>2 DEF SessionKept, Stale
  <1>3. CASE Save(c)
    <2>1. file' = me[c].session /\ current' = current
          /\ me[c].session.rotation = current[me[c].session.login]
      BY <1>3 DEF Save, Sound, Owner
    <2>2. QED
      BY <1>1, <2>1 DEF SessionKept, Stale
  <1>4. CASE Refresh(c)
    <2>1. me[c].session = file /\ file' = file
      BY <1>4 DEF Refresh, Sound, Owner
    <2>2. /\ me[c].session \in Sessions /\ me'[c].pc = "save"
          /\ me'[c].session.login = me[c].session.login
      BY <1>0, <1>4 DEF Refresh, Sound, Carried, Types, Sessions
    <2>3. QED
      BY <1>1, <2>1, <2>2 DEF SessionKept, Stale
  <1>5. CASE RefreshLost(c)
    <2>1. me[c].session = file /\ file' = file /\ lost' = lost \cup {file.login}
      BY <1>5 DEF RefreshLost, Sound, Owner
    <2>2. QED
      BY <1>1, <2>1 DEF SessionKept, Stale
  <1>6. CASE me[c].pc # "save" /\ UNCHANGED <<file, current>>
    BY <1>0, <1>1, <1>6 DEF SessionKept, Stale, OnlyMe
  <1>7. QED
    <2>1. CASE SessionStep(c)
      BY <1>2, <1>3, <1>4, <1>5, <1>6, <2>1 DEF SessionStep, Lock, Load, Ask, Expired, Enter, Check,
         Report, Gone, sessionVars
    <2>2. CASE EnrollmentStep(c)
      BY <1>2, <1>3, <1>6, <2>2, EnrollmentShares
    <2>3. QED
      BY <1>2, <1>3, <1>6, <2>1, <2>2 DEF ClientStep, StartSession, StartEnroll, StartDriver, Starts,
         Stops, Gone, sessionVars

\* What the root says of its worker stays in agreement.
LEMMA EnrollmentTrueStep ==
    ASSUME Types, Issued, Rooted, EnrollmentTrue, NEW c \in Clients, Sound(c), ClientStep(c)
    PROVE  EnrollmentTrue'
  <1> USE DEF At
  <1>0. Grows
    BY ProgramShares
  <1>1. CASE rec'["enrollment"] = rec["enrollment"]
    <2>1. SUFFICES ASSUME rec["enrollment"] # None
          PROVE  EnrollmentTrue'
      BY <1>1 DEF EnrollmentTrue
    <2>2. rec["enrollment"] \in Intents /\ rec["enrollment"].worker \in Workers
      BY <2>1 DEF Types, Intents
    <2>3. rec["intent"] # None /\ rec["controller"] # None
      BY <2>1 DEF Rooted, Visible
    <2>4. rec'["intent"] = rec["intent"] /\ rec'["controller"] = rec["controller"]
      BY <1>0, <2>3 DEF Grows, Phases
    <2>5. row'[rec["enrollment"].worker] = row[rec["enrollment"].worker]
      BY <1>0, <2>1, <2>2 DEF Grows, EnrollmentTrue
    <2>6. QED
      BY <1>1, <2>1, <2>4, <2>5 DEF EnrollmentTrue
  <1>2. CASE Link(c) /\ me[c].phase = "enrollment"
    <2>1. me[c].intent \in Intents
      BY <1>2 DEF Link, Sound, Carried, RecordSteps
    <2>2. /\ Kept(c, "intent") /\ Kept(c, "controller")
          /\ row[me[c].intent.worker] # None
          /\ row[me[c].intent.worker].plan = me[c].intent.plan
      BY <1>2 DEF Link, Sound, Prepared, RecordSteps
    <2>3. /\ rec' = [rec EXCEPT !["enrollment"] = me[c].intent] /\ row' = row
      BY <1>2 DEF Link, Value, serverVars
    <2>4. /\ rec'["enrollment"] = me[c].intent /\ rec'["intent"] = me[c].intent
          /\ rec'["controller"] = [worker |-> me[c].intent.worker, endpoint |-> me[c].intent.plan.endpoint]
      BY <2>2, <2>3 DEF Types, Phases, Kept, Value
    <2>5. QED
      BY <2>2, <2>3, <2>4 DEF EnrollmentTrue
  <1>3. ASSUME Link(c), me[c].phase # "enrollment"
        PROVE  rec'["enrollment"] = rec["enrollment"]
    BY <1>3 DEF Link, Types, Phases
  <1>4. QED
    <2>1. CASE EnrollmentStep(c)
      BY <1>1, <1>2, <1>3, <2>1 DEF EnrollmentStep, MakeRoot, FindRoot, SyncParent, SyncRoot, Sync, Synced,
         ChooseIntent, ServerEnrolls, EnrollReplyLost, Enrolled, ReadEnrollment, Command, enrollmentVars, rootVars
    <2>2. QED
      BY <1>1, <2>1 DEF ClientStep, StartSession, StartEnroll, StartDriver, Starts, Stops,
         enrollmentVars, rootVars

\* What the server holds of a worker is new only when it has just enrolled it.
LEMMA RowsMove ==
    ASSUME Types, Issued, Rooted, NEW c \in Clients, Sound(c), ClientStep(c)
    PROVE  \/ row' = row
           \/ /\ At(c, "call") /\ me[c].prog = "enroll" /\ UNCHANGED rootVars
              /\ row[me[c].intent.worker] = None
              /\ row' = [row EXCEPT ![me[c].intent.worker] =
                          [plan |-> me[c].intent.plan, access |-> bound[me[c].token]]]
  <1>1. CASE Enrolled(c)
    BY <1>1 DEF Enrolled
  <1>2. CASE EnrollmentStep(c) /\ ~Enrolled(c)
    BY <1>2 DEF EnrollmentStep, MakeRoot, FindRoot, SyncParent, SyncRoot, Link, Sync, ChooseIntent,
       ServerEnrolls, EnrollReplyLost, ReadEnrollment, Command, enrollmentVars, serverVars
  <1>3. QED
    BY <1>1, <1>2 DEF ClientStep, StartSession, StartEnroll, StartDriver, Starts, Stops,
       enrollmentVars, serverVars

\* An enrollment carries the access of a login made for it.
LEMMA EnrolledAsBoundStep ==
    ASSUME Types, Issued, Rooted, EnrolledAsBound, NEW c \in Clients, Sound(c), ClientStep(c)
    PROVE  EnrolledAsBound'
  <1>1. CASE row' = row
    BY <1>1 DEF EnrolledAsBound
  <1>2. CASE /\ At(c, "call") /\ me[c].prog = "enroll"
             /\ row' = [row EXCEPT ![me[c].intent.worker] =
                          [plan |-> me[c].intent.plan, access |-> bound[me[c].token]]]
    <2>1. bound[me[c].token] = Expects(me[c].intent.plan) /\ me[c].intent.worker \in Workers
      BY <1>2 DEF At, Sound, Carried, Bound, Drivers, Intents
    <2>2. \A w \in Workers : \/ row'[w] = row[w]
                             \/ /\ row'[w].plan = me[c].intent.plan
                                /\ row'[w].access = bound[me[c].token]
      BY <1>2 DEF Types
    <2>3. QED
      BY <2>1, <2>2 DEF EnrolledAsBound
  <1>3. QED
    BY <1>1, <1>2, RowsMove

\* Where a sync carries the directory's own name, the intent of an enrolled
\* worker is durable.
LEMMA IntentSurvivesStep ==
    ASSUME Types, Issued, Rooted, SyncCarries, IntentSurvives,
           NEW c \in Clients, Sound(c), ClientStep(c)
    PROVE  IntentSurvives'
  <1>0. Grows
    BY ProgramShares
  <1>1. ASSUME NEW w \in Workers, row[w] # None
        PROVE  /\ rec'["intent"] # None /\ rec'["intent"].worker = w
               /\ "intent" \in safe' /\ rootSafe'
    BY <1>0, <1>1 DEF IntentSurvives, Grows, Phases
  <1>2. ASSUME NEW w \in Workers, row[w] = None, row'[w] # None
        PROVE  /\ rec'["intent"] # None /\ rec'["intent"].worker = w
               /\ "intent" \in safe' /\ rootSafe'
    <2>1. /\ At(c, "call") /\ me[c].prog = "enroll" /\ UNCHANGED rootVars
          /\ row' = [row EXCEPT ![me[c].intent.worker] =
                       [plan |-> me[c].intent.plan, access |-> bound[me[c].token]]]
      BY <1>2, RowsMove
    <2>2. me[c].intent.worker = w
      BY <1>2, <2>1 DEF Types
    <2>3. Kept(c, "intent") /\ rootSafe /\ me[c].intent \in Intents
      BY <2>1 DEF At, Sound, Carried, Prepared, Drivers
    <2>4. Value(c, "intent") = me[c].intent /\ me[c].intent # None
      BY <2>3, NothingAssumption DEF Value
    <2>5. QED
      BY <2>1, <2>2, <2>3, <2>4 DEF Kept, rootVars
  <1>3. QED
    BY <1>1, <1>2 DEF IntentSurvives

-----------------------------------------------------------------------------
\* The invariant.

\* Before the first login nothing is relied on.
LEMMA InitInv == Init => IInv
  <1> SUFFICES ASSUME Init PROVE IInv
    OBVIOUS
  <1>1. Off \in Locals /\ Off.pc = "off"
    BY OffTyped DEF Off
  <1>2. \A c \in Clients : me[c] = Off
    BY DEF Init
  <1>3. Types
    <2>1. me \in [Clients -> Locals]
      BY <1>1 DEF Init
    <2>2. current \in [Logins -> 0 .. MaxRotations]
      BY ProgramAssumption DEF Init
    <2>3. /\ rec \in [Phases -> Intents \cup Controllers \cup {None}]
          /\ rec["intent"] = None /\ rec["enrollment"] = None
      BY DEF Init, Phases
    <2>4. /\ bound \in [Logins -> Accesses \cup {None}]
          /\ row \in [Workers -> [plan : Plans, access : Accesses] \cup {None}]
      BY DEF Init
    <2>5. QED
      BY <2>1, <2>2, <2>3, <2>4 DEF Init, Types
  <1>4. \A c \in Clients : Carried(c) /\ Owner(c) /\ Bound(c) /\ Prepared(c)
    BY <1>1, <1>2 DEF Carried, Owner, Bound, Prepared, At, LockedSteps, SessionSteps, RecordSteps, RootSteps
  <1>5. Issued /\ Rooted
    BY DEF Init, Issued, Rooted, Visible, Phases
  <1>6. SessionKept
    BY NothingAssumption DEF Init, SessionKept, Stale
  <1>7. EnrollmentTrue /\ EnrolledAsBound /\ IntentSurvives
    BY DEF Init, EnrollmentTrue, EnrolledAsBound, IntentSurvives, Phases
  <1>8. QED
    BY <1>3, <1>4, <1>5, <1>6, <1>7 DEF IInv

\* A program's step.
LEMMA ProgramInv ==
    ASSUME IInv, NEW c \in Clients, ClientStep(c)
    PROVE  IInv'
  <1>1. Types /\ Issued /\ Rooted /\ \A d \in Clients : Sound(d)
    BY DEF IInv, Sound
  <1>2. Types' /\ Grows /\ Locks(c) /\ OnlyMe(c) /\ Sound(c)'
    BY <1>1, ProgramShares, ProgramSound
  <1>3. \A d \in Clients : Sound(d)'
    BY <1>1, <1>2, OthersSound DEF OnlyMe
  <1>4. Issued' /\ Rooted' /\ SessionKept' /\ EnrollmentTrue' /\ EnrolledAsBound'
    BY <1>1, IssuedStep, RootedStep, SessionKeptStep, EnrollmentTrueStep, EnrolledAsBoundStep DEF IInv
  <1>5. SyncCarries => IntentSurvives'
    BY <1>1, IntentSurvivesStep DEF IInv
  <1>6. QED
    BY <1>2, <1>3, <1>4, <1>5 DEF IInv, Sound

\* After a power loss no program is left, and of the names those that were
\* not synced may be gone.
LEMMA PowerInv ==
    ASSUME IInv, PowerLoss
    PROVE  IInv'
  <1> USE DEF PowerLoss, SessionPowerLoss
  <1>1. \A c \in Clients : me'[c] = Off
    OBVIOUS
  <1>2. Off \in Locals /\ Off.pc = "off"
    BY OffTyped DEF Off
  <1>3. PICK keep \in (IF rootSafe THEN {TRUE} ELSE {TRUE, FALSE}), names \in SUBSET (Visible \ safe) :
          /\ root' = (root /\ keep)
          /\ rec' = [p \in Phases |-> IF keep /\ p \in safe \cup names THEN rec[p] ELSE None]
          /\ safe' = {p \in Phases : rec'[p] # None}
          /\ rootSafe' = root'
    BY DEF RootPowerLoss
  <1>4. Types /\ Issued /\ Rooted
    BY DEF IInv
  <1>5. keep \in BOOLEAN /\ (rootSafe => keep) /\ row' = row /\ revoked' = revoked
    BY DEF RootPowerLoss, serverVars
  <1>6. /\ \A p \in Phases : rec'[p] = rec[p] \/ rec'[p] = None
        /\ \A p \in Phases : keep /\ p \in safe => rec'[p] = rec[p]
        /\ \A p \in Phases : rec'[p] # None => keep
    BY <1>3, <1>5
  <1>7. Types'
    <2>1. file' \in Sessions \cup {None} /\ disk' = {file'} /\ lock' = None /\ UNCHANGED <<bound, current, programs, snapshot>>
      BY <1>4 DEF Types
    <2>2. me' \in [Clients -> Locals]
      BY <1>2
    <2>3. lost' \subseteq Logins
      BY <1>4, <2>1 DEF Types, Stale, Sessions
    <2>4. /\ root' \in BOOLEAN /\ rootSafe' \in BOOLEAN /\ safe' \in SUBSET Phases
      BY <1>3, <1>4, <1>5 DEF Types
    <2>5. /\ rec' \in [Phases -> Intents \cup Controllers \cup {None}]
          /\ rec'["intent"] \in Intents \cup {None}
          /\ rec'["enrollment"] \in Intents \cup {None}
      <3>1. \A p \in Phases : rec'[p] \in Intents \cup Controllers \cup {None}
        BY <1>4, <1>6 DEF Types
      <3>2. rec' \in [Phases -> Intents \cup Controllers \cup {None}]
        BY <1>3, <3>1
      <3>3. QED
        BY <1>4, <1>6, <3>2 DEF Types, Phases
    <2>6. QED
      BY <1>4, <1>5, <2>1, <2>2, <2>3, <2>4, <2>5 DEF Types
  <1>8. \A c \in Clients : (Carried(c) /\ Owner(c) /\ Bound(c) /\ Prepared(c))'
    BY <1>1, <1>2 DEF Carried, Owner, Bound, Prepared, At, LockedSteps, SessionSteps, RecordSteps, RootSteps
  <1>9. Issued'
    BY <1>4 DEF Issued
  <1>10. Rooted'
    <2>1. safe' \subseteq Visible' /\ Visible' \subseteq Visible /\ (Visible' # {} => keep)
      BY <1>3, <1>6 DEF Visible
    <2>2. Visible' # {} => root'
      BY <1>3, <1>4, <2>1 DEF Rooted
    <2>3. ASSUME rec'["enrollment"] # None
          PROVE  {"intent", "controller"} \subseteq safe'
      <3>1. keep /\ rec["enrollment"] # None
        BY <1>6, <2>3 DEF Phases
      <3>2. {"intent", "controller"} \subseteq safe
        BY <1>4, <3>1 DEF Rooted
      <3>3. {"intent", "controller"} \subseteq Visible
        BY <1>4, <3>2 DEF Rooted
      <3>4. rec'["intent"] # None /\ rec'["controller"] # None
        BY <1>6, <3>1, <3>2, <3>3 DEF Phases, Visible
      <3>5. QED
        BY <1>3, <3>4 DEF Phases
    <2>4. QED
      BY <1>3, <2>1, <2>2, <2>3 DEF Rooted
  <1>11. SessionKept'
    <2>1. file' # Torn
      BY <1>7, NothingAssumption DEF Types
    <2>2. Stale(file)' => file'.login \in Logins /\ Stale(file')
      BY <1>7 DEF Types, Stale, Sessions
    <2>3. QED
      BY <2>1, <2>2 DEF SessionKept
  <1>12. EnrollmentTrue'
    <2>1. SUFFICES ASSUME rec'["enrollment"] # None
          PROVE  EnrollmentTrue'
      BY DEF EnrollmentTrue
    <2>2. keep /\ rec'["enrollment"] = rec["enrollment"] /\ rec["enrollment"] # None
      BY <1>6, <2>1 DEF Phases
    <2>3. rec'["intent"] = rec["intent"] /\ rec'["controller"] = rec["controller"]
      BY <1>4, <1>6, <2>2 DEF Phases, Rooted
    <2>4. EnrollmentTrue
      BY DEF IInv
    <2>5. QED
      BY <1>5, <2>2, <2>3, <2>4 DEF EnrollmentTrue
  <1>13. EnrolledAsBound'
    BY <1>5 DEF IInv, EnrolledAsBound
  <1>14. SyncCarries => IntentSurvives'
    <2>1. SUFFICES ASSUME SyncCarries, NEW w \in Workers, row[w] # None
          PROVE  /\ rec'["intent"] # None /\ rec'["intent"].worker = w
                 /\ "intent" \in safe' /\ rootSafe'
      BY <1>5 DEF IntentSurvives
    <2>2. /\ rec["intent"] # None /\ rec["intent"].worker = w
          /\ "intent" \in safe /\ rootSafe
      BY <2>1 DEF IInv, IntentSurvives
    <2>3. keep /\ root
      BY <1>4, <1>5, <2>2 DEF Rooted
    <2>4. rec'["intent"] = rec["intent"]
      BY <1>6, <2>2, <2>3 DEF Phases
    <2>5. QED
      BY <1>3, <2>2, <2>3, <2>4 DEF Phases
  <1>15. QED
    BY <1>7, <1>8, <1>9, <1>10, <1>11, <1>12, <1>13, <1>14 DEF IInv

\* What others do to the workspace or to the destination concerns no program.
LEMMA OutsideInv ==
    ASSUME IInv, UNCHANGED <<sessionVars, enrollmentVars, programs, me>>, snapshot' \in Snapshots
    PROVE  IInv'
  <1> USE DEF IInv, sessionVars, enrollmentVars, rootVars, serverVars
  <1>1. Types'
    BY DEF Types
  <1>2. \A c \in Clients : (Carried(c) /\ Owner(c))'
    BY DEF Carried, Owner, At
  <1>3. \A c \in Clients : Bound(c)'
    BY DEF Bound, At
  <1>4. \A c \in Clients : Prepared(c)'
    BY DEF Prepared, Kept, Value, At
  <1>5. Issued' /\ Rooted'
    BY DEF Issued, Rooted, Visible
  <1>6. SessionKept' /\ EnrollmentTrue' /\ EnrolledAsBound'
    BY DEF SessionKept, Stale, At, EnrollmentTrue, EnrolledAsBound
  <1>7. SyncCarries => IntentSurvives'
    BY DEF IntentSurvives
  <1>8. QED
    BY <1>1, <1>2, <1>3, <1>4, <1>5, <1>6, <1>7

\* Every step keeps the invariant.
LEMMA InvStep == IInv /\ [Next]_vars => IInv'
  <1> SUFFICES ASSUME IInv, [Next]_vars
               PROVE  IInv'
    OBVIOUS
  <1>1. CASE \E c \in Clients : ClientStep(c)
    BY <1>1, ProgramInv
  <1>2. CASE (Edit \/ OtherWrites) /\ UNCHANGED <<sessionVars, enrollmentVars>>
    BY <1>2, OutsideInv DEF Edit, OtherWrites, IInv, Types
  <1>3. CASE PowerLoss
    BY <1>3, PowerInv
  <1>4. CASE UNCHANGED vars
    BY <1>4, OutsideInv DEF vars, exportVars, IInv, Types
  <1>5. QED
    BY <1>1, <1>2, <1>3, <1>4 DEF Next

\* The invariant holds in every reachable state.
LEMMA Invariance == Spec => []IInv
  BY InitInv, InvStep, PTL DEF Spec

-----------------------------------------------------------------------------
\* The files, the lock, the root and the server's rows have their types: no
\* reader finds a torn session, whatever is killed and whenever the power goes.
THEOREM TypesKept == Spec => []TypeOK
  <1>1. IInv => TypeOK
    BY DEF IInv, Types, Rooted, TypeOK
  <1>2. QED
    BY <1>1, Invariance, PTL

\* mcp_client.py's lock and atomic replacement: the saved session is one the
\* server accepts, unless the program that rotated it was lost before it could
\* save, for any number of programs, logins and rotations.
THEOREM SessionNeverLost == Spec => []SessionKept
  <1>1. IInv => SessionKept
    BY DEF IInv
  <1>2. QED
    BY <1>1, Invariance, PTL

\* worker_driver.py's records: the root's enrollment, intent and controller and
\* the server's row agree, whichever operators enroll, are killed or retry.
THEOREM RootTellsTheTruth == Spec => []EnrollmentTrue
  <1>1. IInv => EnrollmentTrue
    BY DEF IInv
  <1>2. QED
    BY <1>1, Invariance, PTL

\* require_worker_session: no worker is enrolled under a login made for reading
\* or for another endpoint, though logins replace the session between the steps.
THEOREM EnrolledByItsLogin == Spec => []EnrolledAsBound
  <1>1. IInv => EnrolledAsBound
    BY DEF IInv
  <1>2. QED
    BY <1>1, Invariance, PTL

\* Where a directory's sync keeps its own name too, the server has no worker
\* whose intent a power loss can take; without that a run finds the counterexample.
THEOREM EnrolledIntentIsDurable == ASSUME SyncCarries PROVE Spec => []IntentSurvives
  <1>1. IInv => IntentSurvives
    BY DEF IInv
  <1>2. QED
    BY <1>1, Invariance, PTL

\* worker_driver.py:109, "exact retry recovers the same credential": where a
\* directory's sync keeps its own name, the server never has a second worker of
\* the root, whoever is killed, retries or loses power between the two.
THEOREM RetryEnrollsOnce == ASSUME SyncCarries PROVE Spec => []OneCredential
  <1>1. ASSUME IInv PROVE OneCredential
    <2> DEFINE InRows == {w \in Workers : row[w] # None}
    <2>1. ASSUME NEW w \in InRows PROVE rec["intent"].worker = w
      BY <1>1, <2>1 DEF IInv, IntentSurvives
    <2>2. CASE InRows = {}
      <3>1. Cardinality({}) = 0
        BY FS_EmptySet
      <3>2. QED
        BY <2>2, <3>1 DEF OneCredential
    <2>3. CASE InRows = {rec["intent"].worker}
      <3>1. Cardinality({rec["intent"].worker}) = 1
        BY FS_Singleton
      <3>2. QED
        BY <2>3, <3>1 DEF OneCredential
    <2>4. QED
      BY <2>1, <2>2, <2>3
  <1>2. QED
    BY <1>1, Invariance, PTL

\* Only download's link, another program and a power loss change the destination.
LEMMA DestinationSteps ==
    ASSUME IInv, [Next]_vars
    PROVE  [\/ dest' = None
            \/ dest = None /\ dest' \in {Theirs} \cup {Whole(s) : s \in Snapshots}]_dest
  <1>1. ASSUME NEW c \in Clients, ClientStep(c)
        PROVE  dest' = dest \/ (dest = None /\ dest' \in {Whole(s) : s \in Snapshots})
    <2>1. CASE Publish(c)
      <3>1. me[c].want \in Snapshots
        BY <2>1 DEF Publish, IInv, Carried
      <3>2. QED
        BY <2>1, <3>1 DEF Publish
    <2>2. CASE SessionStep(c) \/ EnrollmentStep(c)
      BY <1>1, <2>1, <2>2 DEF ClientStep, StartSession, StartEnroll, StartDriver, Starts, Stops,
         Describe, Chunk, exportVars
    <2>3. QED
      BY <1>1, <2>1, <2>2 DEF ClientStep, StartSession, StartEnroll, StartDriver, Starts, Stops,
         Describe, Chunk, exportVars
  <1>2. QED
    BY <1>1 DEF Next, Edit, OtherWrites, PowerLoss, vars, exportVars

\* mcp_workspace.py: the destination appears once, whole, and of one snapshot;
\* nothing that is there is ever overwritten.
THEOREM DownloadIsWrittenOnce == Spec => WrittenOnce
  BY Invariance, DestinationSteps, PTL DEF Spec, WrittenOnce
=============================================================================
