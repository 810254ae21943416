-------------------------- MODULE MCLocalPrograms ---------------------------
(***************************************************************************)
(* LocalPrograms for TLC: logins for reading and for worker control, two   *)
(* plans that differ in room.  The drivers and the download share only the *)
(* session, so each is combined with the logins and not with the other.    *)
(***************************************************************************)
EXTENDS LocalPrograms, TLC

CONSTANTS here, Rooms

SomeAccesses == [mode : {"read", "worker-control"}, endpoint : {here}]
SomePlans == [room : Rooms, endpoint : {here}]
SomeTogether == {{"login", "enroll", "revoke", "run"},
                 {"login", "headers"},
                 {"login", "download"}}

Alike == Permutations(Clients) \cup Permutations(Workers) \cup Permutations(Rooms)
         \cup Permutations(Snapshots)
=============================================================================
