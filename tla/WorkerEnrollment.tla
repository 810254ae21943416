-------------------------- MODULE WorkerEnrollment --------------------------
(***************************************************************************)
(* worker_driver.py: the private state root of a local worker, its         *)
(* enrollment with the server, and the commands that act for it.  A record *)
(* of the root is published as RecordPublish has it: its name appears at   *)
(* once, with its whole content, and survives a power loss from the moment *)
(* the directory is synced; a record with other content refuses.           *)
(*                                                                         *)
(* A plan is what the operator enrolls: endpoint, room, runtime and model. *)
(***************************************************************************)
EXTENDS McpSession

CONSTANTS
    Workers,        \* Worker identities.
    Plans,          \* Plans: records with an endpoint.
    SyncCarries     \* Syncing a directory also keeps the directory's own name,
                    \* which some file systems do and POSIX does not promise.

VARIABLES
    root,           \* The state root exists.
    rootSafe,       \* Its name survives a power loss.
    rec,            \* Phase: the record under its name, or None.
    safe,           \* Phases whose name survives a power loss with the root.
    row,            \* Server: worker to its enrollment, or None.
    revoked         \* Server: workers revoked.

rootVars == <<root, rootSafe, rec, safe>>
serverVars == <<row, revoked>>
enrollmentVars == <<rootVars, serverVars>>

Phases == {"intent", "controller", "enrollment"}
Intents == [worker : Workers, plan : Plans]
Expects(plan) == [mode |-> "worker-control", endpoint |-> plan.endpoint]

Value(c, phase) ==
    LET i == me[c].intent
    IN  IF phase = "controller" THEN [worker |-> i.worker, endpoint |-> i.plan.endpoint] ELSE i

Visible == {p \in Phases : rec[p] # None}

-----------------------------------------------------------------------------
\* state_root and record.

\* Mutant: the parent is synced first, and the directory is made after it.
MakeRootSwapped(c) ==
    /\ At(c, "root")
    /\ me[c].prog = "enroll"
    /\ ~root
    /\ rootSafe' = TRUE
    /\ Goto(c, "syncParent")
    /\ UNCHANGED <<sessionVars, root, rec, safe, serverVars>>

MakeRoot(c) ==
    /\ At(c, "root")
    /\ me[c].prog = "enroll"
    /\ ~root
    /\ root' = TRUE
    /\ rootSafe' = FALSE
    /\ Goto(c, "syncParent")
    /\ UNCHANGED <<sessionVars, rec, safe, serverVars>>

\* A root that is there is taken as it is.
FindRoot(c) ==
    /\ At(c, "root")
    /\ root
    /\ Goto(c, "syncRoot")
    /\ UNCHANGED <<sessionVars, enrollmentVars>>

SyncParent(c) ==
    /\ At(c, "syncParent")
    /\ rootSafe' = TRUE
    /\ Goto(c, "syncRoot")
    /\ UNCHANGED <<sessionVars, root, rec, safe, serverVars>>

Synced ==
    /\ safe' = Visible
    /\ rootSafe' = (rootSafe \/ SyncCarries)
    /\ UNCHANGED <<root, rec>>

SyncRoot(c) ==
    /\ At(c, "syncRoot")
    /\ Synced
    /\ Goto(c, IF me[c].prog = "enroll" THEN "intent" ELSE "enrolled")
    /\ UNCHANGED <<sessionVars, serverVars>>

\* Mutant: a record that is already there is taken for one's own.
LinkTrusts(c) ==
    /\ At(c, "link")
    /\ LET p == me[c].phase
       IN  rec' = [rec EXCEPT ![p] = IF @ = None THEN Value(c, p) ELSE @]
    /\ Goto(c, "sync")
    /\ UNCHANGED <<sessionVars, root, rootSafe, safe, serverVars>>

\* The name appears, or is there with the same content.
Link(c) ==
    /\ At(c, "link")
    /\ LET p == me[c].phase
       IN  /\ rec[p] \in {None, Value(c, p)}
           /\ rec' = [rec EXCEPT ![p] = Value(c, p)]
    /\ Goto(c, "sync")
    /\ UNCHANGED <<sessionVars, root, rootSafe, safe, serverVars>>

\* What follows a durable record: after the enrollment the program ends, and
\* after its controller record a run goes on as WorkerController has it.
Following(c) ==
    CASE me[c].phase = "intent" -> [me[c] EXCEPT !.pc = "link", !.phase = "controller"]
      [] me[c].phase = "controller" /\ me[c].prog = "enroll" -> [me[c] EXCEPT !.pc = "lock", !.phase = None]
      [] OTHER -> Off

\* Mutant: the record's name is left to the system to keep.
SyncSkipped(c) ==
    /\ At(c, "sync")
    /\ me' = [me EXCEPT ![c] = Following(c)]
    /\ UNCHANGED <<sessionVars, enrollmentVars>>

Sync(c) ==
    /\ At(c, "sync")
    /\ Synced
    /\ me' = [me EXCEPT ![c] = Following(c)]
    /\ UNCHANGED <<sessionVars, serverVars>>

-----------------------------------------------------------------------------
\* enroll.

\* A new worker UUID, unlike any other.
Fresh(w) ==
    /\ row[w] = None
    /\ rec["intent"] # None => rec["intent"].worker # w
    /\ \A c \in Clients : me[c].intent # None => me[c].intent.worker # w

\* The durable intent is read; without one the operator's worker or a new one.
\* Another plan than the durable one is refused.
ChooseIntent(c) ==
    /\ At(c, "intent")
    /\ \E w \in Workers :
        /\ CASE me[c].worker # None -> w = me[c].worker
             [] rec["intent"] # None -> w = rec["intent"].worker
             [] OTHER -> Fresh(w)
        /\ me' = [me EXCEPT ![c].pc = "link", ![c].phase = "intent",
                            ![c].intent = [worker |-> w, plan |-> me[c].plan],
                            ![c].expects = Expects(me[c].plan),
                            ![c].plan = None, ![c].worker = None]
    /\ UNCHANGED <<sessionVars, enrollmentVars>>

\* The server enrolls a worker once; an exact retry finds its enrollment.
Enrolled(c) ==
    LET i == me[c].intent
    IN  /\ At(c, "call")
        /\ me[c].prog = "enroll"
        /\ i.worker \notin revoked
        /\ IF row[i.worker] = None
           THEN row' = [row EXCEPT ![i.worker] = [plan |-> i.plan, access |-> bound[me[c].token]]]
           ELSE row[i.worker].plan = i.plan /\ row' = row
        /\ UNCHANGED <<rootVars, revoked>>

ServerEnrolls(c) ==
    /\ Enrolled(c)
    /\ me' = [me EXCEPT ![c].pc = "link", ![c].phase = "enrollment", ![c].token = None]
    /\ UNCHANGED sessionVars

EnrollReplyLost(c) == Enrolled(c) /\ Gone(c)

-----------------------------------------------------------------------------
\* enrollment, operate and run_one.

\* Both records; reading them syncs the directory.
ReadEnrollment(c) ==
    /\ At(c, "enrolled")
    /\ rec["intent"] # None /\ rec["enrollment"] # None
    /\ rec["enrollment"] = rec["intent"]
    /\ Synced
    /\ me' = [me EXCEPT ![c].intent = rec["enrollment"],
                        ![c].expects = Expects(rec["intent"].plan),
                        ![c].pc = IF me[c].prog = "run" THEN "link" ELSE "lock",
                        ![c].phase = IF me[c].prog = "run" THEN "controller" ELSE None]
    /\ UNCHANGED <<sessionVars, serverVars>>

\* A command reaches the server, and its answer perhaps not the operator: of
\* its effects only the revocation concerns the enrollment.
Command(c) ==
    /\ At(c, "call")
    /\ me[c].prog \in {"revoke", "task"}
    /\ row[me[c].intent.worker] # None
    /\ revoked' = IF me[c].prog = "revoke" THEN revoked \cup {me[c].intent.worker} ELSE revoked
    /\ Gone(c)
    /\ UNCHANGED <<rootVars, row>>

\* A name that was not synced may go, and the root with all it holds.
RootPowerLoss ==
    /\ \E keep \in (IF rootSafe THEN {TRUE} ELSE {TRUE, FALSE}), names \in SUBSET (Visible \ safe) :
        /\ root' = (root /\ keep)
        /\ rec' = [p \in Phases |-> IF keep /\ p \in safe \cup names THEN rec[p] ELSE None]
        /\ safe' = {p \in Phases : rec'[p] # None}
        /\ rootSafe' = root'
    /\ UNCHANGED serverVars

EnrollmentStep(c) ==
    \/ MakeRoot(c) \/ FindRoot(c) \/ SyncParent(c) \/ SyncRoot(c) \/ Link(c) \/ Sync(c)
    \/ ChooseIntent(c) \/ ServerEnrolls(c) \/ EnrollReplyLost(c) \/ ReadEnrollment(c)
    \/ Command(c)

-----------------------------------------------------------------------------
\* A worker the server has enrolled is the one of the
\* root's intent, whatever was killed or lost since: no retry can enroll a
\* second one.
IntentSurvives ==
    \A w \in Workers : row[w] # None => /\ rec["intent"] # None
                                        /\ rec["intent"].worker = w
                                        /\ "intent" \in safe
                                        /\ rootSafe

\* worker_driver.py:109: "Durable intent BEFORE network; exact retry recovers
\* the same credential."
OneCredential == Cardinality({w \in Workers : row[w] # None}) <= 1

\* What the root says of its worker agrees: the enrollment is the server's,
\* the intent's and the controller's, whichever operators enrolled at once
\* with other rooms, models or workers.
EnrollmentTrue ==
    rec["enrollment"] # None =>
        LET e == rec["enrollment"]
        IN  /\ rec["intent"] = e
            /\ rec["controller"] = [worker |-> e.worker, endpoint |-> e.plan.endpoint]
            /\ row[e.worker] # None
            /\ row[e.worker].plan = e.plan

\* A worker is enrolled under a login that was made for worker control and
\* for the plan's own endpoint, whichever logins replaced the session since.
EnrolledAsBound ==
    \A w \in Workers : row[w] # None => row[w].access = Expects(row[w].plan)
=============================================================================
