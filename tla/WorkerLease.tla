---------------------------- MODULE WorkerLease -----------------------------
(***************************************************************************)
(* The server's assignments of one worker (model/workers.clj): the         *)
(* transactions a controller's calls run, each evaluated by the single     *)
(* writer.  A Run has one ticket, so one nonce, and its lease is its own.  *)
(* cancel-at is set in "quarantined" and "withdrawn" and decides nothing   *)
(* once there is a stop-ack-at; stop-ack-at is set exactly in the Acked    *)
(* states, output-id exactly in "completed".                               *)
(***************************************************************************)
EXTENDS WorkerIds

VARIABLES
    srv,            \* Assignment: its state.
    lapsed          \* Assignment: its lease expired, or its worker was revoked.

leaseVars == <<srv, lapsed>>

Acked == {"stopped", "completed", "withdrawn"}
Leased == {"claimed", "quarantined", "stopped", "completed"}

LeaseTypeOK ==
    /\ srv \in [Runs -> {"queued"} \cup Leased \cup Acked]
    /\ lapsed \in [Runs -> BOOLEAN]

LeaseInit ==
    /\ srv = [r \in Runs |-> "queued"]
    /\ lapsed = [r \in Runs |-> FALSE]

\* The lease admits input, renewal and output.
Live(r) == srv[r] = "claimed" /\ ~lapsed[r]

Becomes(r, s) == srv' = [srv EXCEPT ![r] = s] /\ UNCHANGED lapsed

\* A worker is one physical slot: only a stop acknowledgement frees it.
SlotFree(r) ==
    \A other \in Runs \ {r} : srv[other] \in Leased => srv[other] \in Acked

\* claim-tx for a ticket's first and only delivery.
MayClaim(r) == srv[r] = "queued" /\ SlotFree(r)
ClaimTx(r) == MayClaim(r) /\ Becomes(r, "claimed")

\* heartbeat-tx: renews, or quarantines what may not be renewed.
HeartbeatTx(r) ==
    /\ srv[r] \in Leased
    /\ IF srv[r] = "claimed" /\ lapsed[r]
       THEN Becomes(r, "quarantined")
       ELSE UNCHANGED leaseVars

\* complete-tx: exact retries are accepted, withdrawn authority is not.
MayComplete(r) == srv[r] = "completed" \/ Live(r)
CompleteTx(r) == MayComplete(r) /\ Becomes(r, "completed")

\* stopped-tx: the first acknowledgement, a completion's included, stays.
StopTx(r) ==
    /\ srv[r] \in Leased
    /\ IF srv[r] \in Acked THEN UNCHANGED leaseVars ELSE Becomes(r, "stopped")

\* cancel-tx: a person cancels; a lease is quarantined, never acknowledged.
CancelTx(r) ==
    \/ srv[r] = "queued" /\ Becomes(r, "withdrawn")
    \/ srv[r] = "claimed" /\ Becomes(r, "quarantined")

\* The expiry passes without a heartbeat, or the worker loses its permission.
Lapse(r) ==
    /\ srv[r] = "claimed"
    /\ ~lapsed[r]
    /\ lapsed' = [lapsed EXCEPT ![r] = TRUE]
    /\ UNCHANGED srv
=============================================================================
