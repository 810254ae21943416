--------------------------- MODULE WorkerJournal ----------------------------
(***************************************************************************)
(* The private journal of every Run (worker_claim.py, worker_journal.py).  *)
(* A Run's records form a chain: its directory, the claim ticket, and the  *)
(* phases launch, admitted, stopped and acknowledged; a later one is only  *)
(* published over an earlier one, which _chain read and synced first.  So  *)
(* a Run's journal is a height, and at most its last record is volatile.   *)
(* One publication is refined by RecordPublish.                            *)
(***************************************************************************)
EXTENDS WorkerIds, Naturals

VARIABLES
    height,         \* Run: its last visible record.
    durable,        \* Run: its last durable record.
    output,         \* Run: the stopped record carries an output.
    outcome         \* Run: what the acknowledged record says.

journalVars == <<height, durable, output, outcome>>

Absent == 0
Directory == 1
Ticket == 2
Launched == 3
Admitted == 4
Stopped == 5
Acknowledged == 6

JournalTypeOK ==
    /\ height \in [Runs -> Absent .. Acknowledged]
    /\ durable \in [Runs -> Absent .. Acknowledged]
    /\ output \in [Runs -> BOOLEAN]
    /\ outcome \in [Runs -> {None, "completed", "stopped"}]
    /\ \A r \in Runs : durable[r] <= height[r]

JournalInit ==
    /\ height = [r \in Runs |-> Absent]
    /\ durable = [r \in Runs |-> Absent]
    /\ output = [r \in Runs |-> FALSE]
    /\ outcome = [r \in Runs |-> None]

\* The record p of r becomes visible; its payload is fixed with it.
Visible(r, p, o, v) ==
    /\ height' = [height EXCEPT ![r] = p]
    /\ output' = IF p = Stopped THEN [output EXCEPT ![r] = o] ELSE output
    /\ outcome' = IF p = Acknowledged THEN [outcome EXCEPT ![r] = v] ELSE outcome

\* Mutant: the record is returned before its directory is synced.
PublishesUnsynced(r, p, o, v) ==
    /\ height[r] \in {p - 1, p}
    /\ Visible(r, p, o, v)
    /\ durable' = [durable EXCEPT ![r] = height[r]]

\* _publish returns: record p of r, new or found identical, is durable.
Publishes(r, p, o, v) ==
    /\ height[r] \in {p - 1, p}
    /\ Visible(r, p, o, v)
    /\ durable' = [durable EXCEPT ![r] = p]

\* Mutant: the directory is synced before the record is linked.
PublishRaisesSwapped(r, p, o, v) ==
    /\ height[r] \in {p - 1, p}
    /\ durable' = [durable EXCEPT ![r] = p]
    /\ Visible(r, p, o, v) \/ UNCHANGED <<height, output, outcome>>

\* _publish raises: the earlier records are durable, record p is not visible,
\* or visible and not durable.
PublishRaises(r, p, o, v) ==
    /\ height[r] \in {p - 1, p}
    /\ durable' = [durable EXCEPT ![r] = height[r]]
    /\ Visible(r, p, o, v) \/ UNCHANGED <<height, output, outcome>>

\* load: _chain validates the records and syncs their directory.
Adopts(r) ==
    /\ durable' = [durable EXCEPT ![r] = height[r]]
    /\ UNCHANGED <<height, output, outcome>>

\* unresolved: the same for every Run.
AdoptsAll ==
    /\ durable' = height
    /\ UNCHANGED <<height, output, outcome>>

\* What blocks the worker: a Run whose last record is not an acknowledgement,
\* a directory without a ticket included.
Unresolved(r) == height[r] \in Directory .. Stopped

\* Power loss keeps or drops what is volatile.
PowerLossJournal ==
    /\ height' \in [Runs -> Absent .. Acknowledged]
    /\ \A r \in Runs : height'[r] \in durable[r] .. height[r]
    /\ durable' = height'
    /\ output' = [r \in Runs |-> output[r] /\ height'[r] >= Stopped]
    /\ outcome' = [r \in Runs |-> IF height'[r] = Acknowledged THEN outcome[r] ELSE None]
=============================================================================
