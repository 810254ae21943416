-------------------------- MODULE DurableRegister ---------------------------
(***************************************************************************)
(* What worker_claim.prepare and worker_journal._publish promise together: *)
(* a name holds one immutable record.  The record becomes committed once,  *)
(* never changes or disappears, and every call that returns, answers it.   *)
(***************************************************************************)
CONSTANTS Values, None

VARIABLES
    committed,      \* The record that survives every crash, or None.
    promised        \* The records calls have returned.

Init == committed = None /\ promised = {}

Commit(v) == committed = None /\ committed' = v /\ UNCHANGED promised

Answer ==
    /\ committed # None
    /\ promised' = promised \cup {committed}
    /\ UNCHANGED committed

Next == (\E v \in Values : Commit(v)) \/ Answer

Spec == Init /\ [][Next]_<<committed, promised>>
=============================================================================
