------------------------ MODULE RecordPublishProofs -------------------------
(***************************************************************************)
(* For every set of callers and records: a published record is never torn, *)
(* an answered one is permanent and the only one, and publication          *)
(* implements the durable write-once register.                             *)
(***************************************************************************)
EXTENDS RecordPublish, TLAPS

Publishing == {"read", "stage", "syncFile", "link", "compare", "syncDir", "return"}

\* What c is about to return is what the name holds, and what c asked for.
Holds(c) ==
    /\ found[c] \in Values
    /\ record = found[c]
    /\ offer[c] # None => Subject[offer[c]] = Subject[found[c]]

\* What is known of a caller before each of its calls.
CallerInv(c) ==
    /\ pc[c] \in PublishSteps \ {"return"} => offer[c] \in Values
    /\ pc[c] \in LoadSteps => offer[c] = None
    /\ pc[c] \in Publishing => home = "durable"
    /\ pc[c] = "link" => fileSynced[c]
    /\ pc[c] = "compare" => found[c] # None /\ record = found[c]
    /\ pc[c] \in {"syncDir", "loadSyncDir", "loadSyncParent", "return"} => Holds(c)
    /\ pc[c] \in {"loadSyncParent", "return"} => entryDurable

IInv ==
    /\ TypeOK
    /\ NeverTorn
    /\ PromiseKept
    /\ \A c \in Callers : CallerInv(c)

-----------------------------------------------------------------------------
\* Nothing is on disk, nobody has called.
LEMMA InitInv == Init => IInv
  BY PublishAssumption
  DEF Init, IInv, TypeOK, NeverTorn, PromiseKept, CallerInv, PublishSteps, LoadSteps,
      Publishing, Holds

\* Every step keeps the types.
LEMMA TypeStep ==
    ASSUME IInv, [Next]_vars
    PROVE  TypeOK'
  <1> USE PublishAssumption DEF IInv, TypeOK, PublishSteps, LoadSteps, Goto, disk, caller
  <1>1. CASE UNCHANGED vars
    BY <1>1 DEF vars
  <1>2. CASE PowerLoss
    BY <1>2 DEF PowerLoss, NeverTorn
  <1>3. ASSUME NEW c \in Callers, Step(c)
        PROVE  TypeOK'
    <2>1. CASE \E v \in Values : Begin(c, v)
      BY <2>1 DEF Begin
    <2>2. CASE Mkdir(c) \/ SyncHome(c) \/ SyncParent(c)
      BY <2>2 DEF Mkdir, SyncHome, SyncParent
    <2>3. CASE Read(c) \/ Stage(c) \/ SyncFile(c)
      BY <2>3 DEF Read, Stage, SyncFile
    <2>4. CASE Link(c)
      <3>1. offer[c] \in Values
        BY <2>4 DEF Link, CallerInv
      <3>2. CASE record = None
        BY <2>4, <3>1, <3>2 DEF Link
      <3>3. CASE record # None
        BY <2>4, <3>3 DEF Link
      <3>4. QED
        BY <3>2, <3>3
    <2>5. CASE Compare(c) \/ SyncDir(c)
      <3>1. CASE Compare(c)
        BY <3>1 DEF Compare
      <3>2. CASE SyncDir(c)
        BY <3>2 DEF SyncDir
      <3>3. QED
        BY <2>5, <3>1, <3>2
    <2>6. CASE Load(c) \/ LoadRead(c) \/ LoadSyncDir(c) \/ LoadSyncParent(c)
      <3>1. CASE Load(c)
        BY <3>1 DEF Load
      <3>2. CASE LoadRead(c)
        BY <3>2 DEF LoadRead
      <3>3. CASE LoadSyncDir(c) \/ LoadSyncParent(c)
        BY <3>3 DEF LoadSyncDir, LoadSyncParent
      <3>4. QED
        BY <2>6, <3>1, <3>2, <3>3
    <2>7. CASE Return(c)
      BY <2>7, <1>3 DEF Return, CallerInv, Holds
    <2>8. CASE Stop(c)
      BY <2>8 DEF Stop
    <2>9. QED
      BY <1>3, <2>1, <2>2, <2>3, <2>4, <2>5, <2>6, <2>7, <2>8 DEF Step
  <1>4. QED
    BY <1>1, <1>2, <1>3 DEF Next

\* The name only ever gets a synced file, and power loss then tears nothing.
LEMMA TornStep ==
    ASSUME IInv, [Next]_vars
    PROVE  NeverTorn'
  <1> USE PublishAssumption DEF IInv, TypeOK, NeverTorn, Goto, disk, caller
  <1>1. CASE UNCHANGED vars
    BY <1>1 DEF vars
  <1>2. CASE PowerLoss
    BY <1>2 DEF PowerLoss
  <1>3. ASSUME NEW c \in Callers, Step(c)
        PROVE  NeverTorn'
    <2>1. CASE Link(c)
      BY <2>1, <1>3 DEF Link, CallerInv, PublishSteps
    <2>2. CASE ~Link(c)
      BY <2>2, <1>3 DEF Step, Begin, Mkdir, SyncHome, SyncParent, Read, Stage, SyncFile,
         Compare, SyncDir, Load, LoadRead, LoadSyncDir, LoadSyncParent, Return, Stop
    <2>3. QED
      BY <2>1, <2>2
  <1>4. QED
    BY <1>1, <1>2, <1>3 DEF Next

\* A promised record is durable in a durable directory: link finds the name
\* taken and power loss has nothing to drop.
LEMMA PromiseStep ==
    ASSUME IInv, [Next]_vars
    PROVE  PromiseKept'
  <1> USE PublishAssumption DEF IInv, TypeOK, PromiseKept, Goto, disk, caller
  <1>1. CASE UNCHANGED vars
    BY <1>1 DEF vars
  <1>2. CASE PowerLoss
    BY <1>2 DEF PowerLoss
  <1>3. ASSUME NEW c \in Callers, Step(c)
        PROVE  PromiseKept'
    <2>1. CASE Return(c)
      <3>1. Holds(c) /\ entryDurable /\ home = "durable" /\ dataSynced
        BY <2>1 DEF Return, CallerInv, Publishing, NeverTorn, Holds
      <3>2. QED
        BY <2>1, <3>1 DEF Return, Holds
    <2>2. CASE Link(c)
      BY <2>2 DEF Link
    <2>3. CASE Mkdir(c) \/ SyncHome(c) \/ SyncParent(c) \/ SyncDir(c)
                \/ LoadSyncDir(c) \/ LoadSyncParent(c)
      BY <2>3 DEF Mkdir, SyncHome, SyncParent, SyncDir, LoadSyncDir, LoadSyncParent
    <2>4. CASE UNCHANGED <<disk, promised>>
      BY <2>4
    <2>5. QED
      BY <1>3, <2>1, <2>2, <2>3, <2>4 DEF Step, Begin, Read, Stage, SyncFile, Compare,
         Load, LoadRead, Stop
  <1>4. QED
    BY <1>1, <1>2, <1>3 DEF Next

\* A step of one caller keeps what is known of every caller.
LEMMA CallerStep ==
    ASSUME IInv, NEW c \in Callers, Step(c), NEW d \in Callers
    PROVE  CallerInv(d)'
  <1> USE PublishAssumption
      DEF IInv, TypeOK, CallerInv, PublishSteps, LoadSteps, Publishing, Holds, Goto,
          disk, caller
  <1>1. CASE \E v \in Values : Begin(c, v)
    BY <1>1 DEF Begin
  <1>2. CASE Mkdir(c) \/ SyncHome(c) \/ SyncParent(c)
    BY <1>2 DEF Mkdir, SyncHome, SyncParent
  <1>3. CASE Read(c) \/ Stage(c) \/ SyncFile(c)
    BY <1>3 DEF Read, Stage, SyncFile
  <1>4. CASE Link(c)
    BY <1>4 DEF Link
  <1>5. CASE Compare(c)
    BY <1>5 DEF Compare, Conflicts
  <1>6. CASE SyncDir(c)
    BY <1>6 DEF SyncDir
  <1>7. CASE Load(c) \/ LoadRead(c)
    BY <1>7 DEF Load, LoadRead
  <1>8. CASE LoadSyncDir(c) \/ LoadSyncParent(c)
    BY <1>8 DEF LoadSyncDir, LoadSyncParent
  <1>9. CASE Return(c) \/ Stop(c)
    BY <1>9 DEF Return, Stop
  <1>10. QED
    BY <1>1, <1>2, <1>3, <1>4, <1>5, <1>6, <1>7, <1>8, <1>9 DEF Step

\* Every step keeps the invariant.
LEMMA InvStep == IInv /\ [Next]_vars => IInv'
  <1> SUFFICES ASSUME IInv, [Next]_vars
               PROVE  \A d \in Callers : CallerInv(d)'
    BY TypeStep, TornStep, PromiseStep DEF IInv
  <1> TAKE d \in Callers
  <1>1. CASE UNCHANGED vars
    BY <1>1 DEF vars, disk, caller, IInv, CallerInv, Holds
  <1>2. CASE PowerLoss
    BY <1>2, PublishAssumption DEF PowerLoss, CallerInv, PublishSteps, LoadSteps, Publishing
  <1>3. CASE \E c \in Callers : Step(c)
    BY <1>3, CallerStep
  <1>4. QED
    BY <1>1, <1>2, <1>3 DEF Next

-----------------------------------------------------------------------------
\* The invariant holds in every reachable state.
LEMMA Invariance == Spec => []IInv
  BY InitInv, InvStep, PTL DEF Spec

\* Every variable of the disk and of every caller keeps its domain.
THEOREM TypeCorrect == Spec => []TypeOK
  BY Invariance, PTL DEF IInv

\* No crash or power loss between any two file-system calls leaves a record
\* whose content is not what some caller offered.
THEOREM NeverTornHolds == Spec => []NeverTorn
  BY Invariance, PTL DEF IInv

\* What prepare, _publish or unresolved returned once, every later call of
\* every process returns, before and after any number of power losses.
THEOREM PromiseKeptHolds == Spec => []PromiseKept
  BY Invariance, PTL DEF IInv

-----------------------------------------------------------------------------
\* The refinement: publication is a durable write-once register.

Committed == IF home = "durable" /\ entryDurable THEN record ELSE None
Answers == {p[2] : p \in promised}

\* A committed record stays committed; an uncommitted one is None.
LEMMA CommittedStep ==
    ASSUME IInv, [Next]_vars, promised' = promised
    PROVE  \/ Committed' = Committed
           \/ Committed = None /\ Committed' \in Values
  <1> USE PublishAssumption DEF IInv, TypeOK, NeverTorn, Committed, Goto, disk, caller
  <1>1. CASE UNCHANGED vars
    BY <1>1 DEF vars
  <1>2. CASE PowerLoss
    BY <1>2 DEF PowerLoss
  <1>3. ASSUME NEW c \in Callers, Step(c)
        PROVE  \/ Committed' = Committed
               \/ Committed = None /\ Committed' \in Values
    <2>1. CASE Link(c)
      BY <2>1 DEF Link, CallerInv, PublishSteps
    <2>2. CASE Mkdir(c) \/ SyncHome(c) \/ SyncParent(c)
      BY <2>2 DEF Mkdir, SyncHome, SyncParent
    <2>3. CASE SyncDir(c) \/ LoadSyncDir(c) \/ LoadSyncParent(c)
      BY <2>3 DEF SyncDir, LoadSyncDir, LoadSyncParent
    <2>4. CASE UNCHANGED disk
      BY <2>4
    <2>5. QED
      BY <1>3, <2>1, <2>2, <2>3, <2>4 DEF Step, Begin, Read, Stage, SyncFile, Compare,
         Load, LoadRead, Return, Stop
  <1>4. QED
    BY <1>1, <1>2, <1>3 DEF Next

\* One more pair in a set adds one value.
LEMMA AnswersGrow ==
    ASSUME NEW S, NEW a, NEW b
    PROVE  {p[2] : p \in S \cup {<<a, b>>}} = {p[2] : p \in S} \cup {b}
  <1>1. <<a, b>>[2] = b
    OBVIOUS
  <1>2. \A x : x \in {p[2] : p \in S \cup {<<a, b>>}} <=> x \in {p[2] : p \in S} \cup {b}
    BY <1>1
  <1>3. QED
    BY <1>2

\* Only Return answers, and what it answers is committed.
LEMMA AnswerStep ==
    ASSUME IInv, [Next]_vars
    PROVE  \/ promised' = promised
           \/ /\ Committed # None
              /\ Committed' = Committed
              /\ Answers' = Answers \cup {Committed}
  <1>1. ASSUME NEW c \in Callers, Return(c)
        PROVE  /\ Committed # None
               /\ Committed' = Committed
               /\ Answers' = Answers \cup {Committed}
    <2>1. Holds(c) /\ entryDurable /\ home = "durable"
      BY <1>1 DEF Return, IInv, CallerInv, Publishing
    <2>2. Committed = found[c] /\ Committed # None /\ Committed' = Committed
      BY <2>1, <1>1, PublishAssumption DEF Committed, Holds, Return, disk
    <2>3. promised' = promised \cup {<<offer[c], found[c]>>}
      BY <1>1 DEF Return
    <2>4. {p[2] : p \in promised'} = Answers \cup {found[c]}
      BY <2>3, AnswersGrow DEF Answers
    <2>5. Answers' = Answers \cup {found[c]}
      BY <2>4 DEF Answers
    <2>6. QED
      BY <2>2, <2>5
  <1>2. CASE UNCHANGED vars
    BY <1>2 DEF vars
  <1>3. CASE PowerLoss
    BY <1>3 DEF PowerLoss
  <1>4. ASSUME NEW c \in Callers, Step(c), ~Return(c)
        PROVE  promised' = promised
    BY <1>4 DEF Step, Begin, Mkdir, SyncHome, SyncParent, Read, Stage, SyncFile, Link,
       Compare, SyncDir, Load, LoadRead, LoadSyncDir, LoadSyncParent, Stop
  <1>5. QED
    BY <1>1, <1>2, <1>3, <1>4 DEF Next

\* Every behaviour of publication is one of the durable write-once register:
\* racing callers, kills, failed calls and power losses never make two calls
\* answer differently or an answered record change.
THEOREM ImplementsRegister == Spec => IsDurableRegister
  <1>1. Init => Register!Init
    BY PublishAssumption DEF Init, Register!Init
  <1>2. IInv /\ [Next]_vars => [Register!Next]_<<Committed, Answers>>
    <2> SUFFICES ASSUME IInv, [Next]_vars
                 PROVE  Register!Next \/ UNCHANGED <<Committed, Answers>>
      OBVIOUS
    <2>1. CASE promised' = promised
      <3>1. Answers' = Answers
        BY <2>1 DEF Answers
      <3>2. Committed' = Committed \/ (Committed = None /\ Committed' \in Values)
        BY <2>1, CommittedStep
      <3>3. CASE Committed = None /\ Committed' \in Values
        <4>1. Register!Commit(Committed')
          BY <3>1, <3>3 DEF Register!Commit, Committed, Answers
        <4>2. QED
          BY <3>3, <4>1 DEF Register!Next
      <3>4. QED
        BY <3>1, <3>2, <3>3
    <2>2. CASE promised' # promised
      <3>1. Register!Answer
        BY <2>2, AnswerStep DEF Register!Answer, Committed, Answers
      <3>2. QED
        BY <3>1 DEF Register!Next
    <2>3. QED
      BY <2>1, <2>2
  <1>3. QED
    BY <1>1, <1>2, Invariance, PTL
    DEF Spec, IsDurableRegister, Register!Spec, Committed, Answers
=============================================================================
