-------------------------- MODULE ScheduleContract --------------------------
(***************************************************************************)
(* What the scheduler promises, without stores, passes or failures: every  *)
(* schedule works through its slots in order, holds at most one at a time, *)
(* and a slot is worked on at most once, while it is held.                 *)
(***************************************************************************)
EXTENDS ScheduleIds

VARIABLES
    cursor,     \* Per schedule: the first slot not yet decided.
    holder,     \* Per schedule: the slot it holds.
    work        \* Per slot: what became of it.

cvars == <<cursor, holder, work>>

Works == {"none", "queued", "owned", "running", "ended", "dropped"}

Init ==
    /\ cursor = [a \in Activations |-> 0]
    /\ holder = [a \in Activations |-> None]
    /\ work = [o \in Oids |-> "none"]

\* Slot s is decided; how many later slots it stands for is left open.
Advance(a, s) ==
    /\ s >= cursor[a]
    /\ cursor' \in [Activations -> Nat]
    /\ cursor'[a] > s
    /\ \A b \in Activations \ {a} : cursor'[b] = cursor[b]

\* A due slot is taken when none is held.
Take(a, s) ==
    /\ holder[a] = None
    /\ Advance(a, s)
    /\ holder' = [holder EXCEPT ![a] = <<a, s>>]
    /\ work' = [work EXCEPT ![<<a, s>>] = "queued"]

\* A held slot nobody works on yet gives way to a later one.
Supersede(a, s) ==
    /\ holder[a] # None /\ work[holder[a]] = "queued"
    /\ Advance(a, s)
    /\ holder' = [holder EXCEPT ![a] = <<a, s>>]
    /\ work' = [work EXCEPT ![holder[a]] = "dropped", ![<<a, s>>] = "queued"]

\* A slot due while another is being worked on is passed over.
PassOver(a, s) ==
    /\ holder[a] # None /\ work[holder[a]] # "queued"
    /\ Advance(a, s)
    /\ work' = [work EXCEPT ![<<a, s>>] = "dropped"]
    /\ UNCHANGED holder

\* The held slot is withdrawn before any work.
Drop(a) ==
    /\ holder[a] # None /\ work[holder[a]] \in {"queued", "owned"}
    /\ work' = [work EXCEPT ![holder[a]] = "dropped"]
    /\ holder' = [holder EXCEPT ![a] = None]
    /\ UNCHANGED cursor

Own(a) ==
    /\ holder[a] # None /\ work[holder[a]] = "queued"
    /\ work' = [work EXCEPT ![holder[a]] = "owned"]
    /\ UNCHANGED <<cursor, holder>>

Run(a) ==
    /\ holder[a] # None /\ work[holder[a]] = "owned"
    /\ work' = [work EXCEPT ![holder[a]] = "running"]
    /\ UNCHANGED <<cursor, holder>>

\* Work ends; a failing process ends the work of several schedules at once.
End(S) ==
    /\ S # {}
    /\ \A a \in S : holder[a] # None /\ work[holder[a]] \in {"owned", "running"}
    /\ work' = [o \in Oids |-> IF \E a \in S : holder[a] = o THEN "ended" ELSE work[o]]
    /\ UNCHANGED <<cursor, holder>>

\* Only ended work is released.
Release(a) ==
    /\ holder[a] # None /\ work[holder[a]] = "ended"
    /\ holder' = [holder EXCEPT ![a] = None]
    /\ UNCHANGED <<cursor, work>>

Next ==
    \/ \E a \in Activations :
          \/ \E s \in Slots : Take(a, s) \/ Supersede(a, s) \/ PassOver(a, s)
          \/ Drop(a) \/ Own(a) \/ Run(a) \/ Release(a)
    \/ \E S \in SUBSET Activations : End(S)

Spec == Init /\ [][Next]_cvars
=============================================================================
