--------------------------- MODULE WorkAdmission ---------------------------
(***************************************************************************)
(* The work-request journal (model/work_requests.clj) and the native Job   *)
(* behind each request (ops/work.clj), as the scheduler uses them.  One    *)
(* row per occurrence.  Operators ending in Tx are one transaction of the  *)
(* control database's single writer.                                       *)
(***************************************************************************)
EXTENDS ScheduleIds

VARIABLES
    request,    \* :work.request/state, "none" when there is no row.
    job,        \* Status of the Job the row points at.
    returned,   \* :work.request/return-pending?: absent, true, false.
    filed,      \* The request carries its filing receipt.
    runs        \* History: evaluations ever started for the occurrence.

workVars == <<request, job, returned, filed, runs>>

RequestStates == {"none", "admitting", "submitted", "interrupted"}

\* "rejected" is a completed Job whose candidate is certified as failed;
\* "failed" stands for :failed and :cancelled, which are handled alike.
JobStates  == {"none", "created", "running", "completed", "rejected", "failed"}
Terminal   == {"completed", "rejected", "failed"}

\* Every attribute of a work request and its Job keeps its domain.
WorkTypeOK ==
    /\ request \in [Oids -> RequestStates]
    /\ job \in [Oids -> JobStates]
    /\ returned \in [Oids -> {"unset", "pending", "done"}]
    /\ filed \in [Oids -> BOOLEAN]
    /\ runs \in [Oids -> Nat]

WorkInit ==
    /\ request = [o \in Oids |-> "none"]
    /\ job = [o \in Oids |-> "none"]
    /\ returned = [o \in Oids |-> "unset"]
    /\ filed = [o \in Oids |-> FALSE]
    /\ runs = [o \in Oids |-> 0]

-----------------------------------------------------------------------------
\* claim-tx: only the first insert of the row wins; a loser observes.
ClaimRequestTx(o) ==
    /\ request' = [request EXCEPT ![o] = IF @ = "none" THEN "admitting" ELSE @]
    /\ UNCHANGED <<job, returned, filed, runs>>

\* record-job!: the three compare-and-set facts of the winner's Job.
RecordJobTx(o) ==
    /\ request[o] = "admitting" /\ job[o] = "none"
    /\ request' = [request EXCEPT ![o] = "submitted"]
    /\ job' = [job EXCEPT ![o] = "created"]
    /\ returned' = [returned EXCEPT ![o] = "pending"]
    /\ UNCHANGED <<filed, runs>>

\* interrupt!: compare-and-set :admitting to :interrupted, else nothing.
InterruptRequestTx(o) ==
    /\ request' = [request EXCEPT ![o] = IF @ = "admitting" THEN "interrupted" ELSE @]
    /\ UNCHANGED <<job, returned, filed, runs>>

\* The Job's construction callback starts the evaluation.
StartEvaluation(o) ==
    /\ job' = [job EXCEPT ![o] = "running"]
    /\ runs' = [runs EXCEPT ![o] = @ + 1]
    /\ UNCHANGED <<request, returned, filed>>

\* Construction failed, possibly after the evaluation had been admitted: the
\* run family is cancelled and the Job fails.
FailConstruction(o) ==
    /\ job' = [job EXCEPT ![o] = "failed"]
    /\ \E started \in {0, 1} : runs' = [runs EXCEPT ![o] = @ + started]
    /\ UNCHANGED <<request, returned, filed>>

\* The filing of a completed request, idempotent for an existing receipt.
FileOutputTx(o) ==
    /\ filed' = [filed EXCEPT ![o] = TRUE]
    /\ UNCHANGED <<request, job, returned, runs>>

\* The evaluation ends.
FinishJob(o) ==
    /\ job[o] = "running"
    /\ \E status \in Terminal : job' = [job EXCEPT ![o] = status]
    /\ UNCHANGED <<request, returned, filed, runs>>

\* mark-returned!: the Job is terminal, its wallet is back and its cleanup
\* settled (by the settled callback, or by boot recovery for a Job whose
\* process died).
ReturnJob(o) ==
    /\ job[o] \in Terminal /\ returned[o] = "pending"
    /\ returned' = [returned EXCEPT ![o] = "done"]
    /\ UNCHANGED <<request, job, filed, runs>>

\* Boot: orphaned runs are reconciled as failed, then recover! interrupts
\* every row that never got a Job.
BootRecovery ==
    /\ job' = [o \in Oids |-> IF job[o] \in {"created", "running"} THEN "failed" ELSE job[o]]
    /\ request' = [o \in Oids |-> IF request[o] = "admitting" THEN "interrupted" ELSE request[o]]
    /\ UNCHANGED <<returned, filed, runs>>

\* Mutant: the Job being over counts as its return.
SettledEarly(o) == request[o] = "submitted" /\ job[o] \in Terminal

\* The request is settled: a Job was recorded and its return acknowledged.
Settled(o) == request[o] = "submitted" /\ returned[o] = "done"
=============================================================================
