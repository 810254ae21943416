--------------------------- MODULE RecordPublish ----------------------------
(***************************************************************************)
(* Publication of one private record under one name: the claim ticket      *)
(* (worker_claim.prepare) and each journal phase (worker_journal._publish) *)
(* after the Run directory was made (worker_controller._child_directory).  *)
(* Callers race on the name; each file-system call is a step; a call may   *)
(* fail, a caller may be killed, and power may be lost, between any two.   *)
(*                                                                         *)
(* A file's data, a directory's entry and the Run directory's own entry    *)
(* are volatile until an fsync of the file, the directory, the parent.     *)
(* Power loss keeps or drops each volatile entry, and leaves a torn record *)
(* where an entry is kept and the data is not.  A failed fsync makes       *)
(* nothing durable.  Staged files have no authority, so residue of a       *)
(* killed caller is forgotten.                                             *)
(*                                                                         *)
(* The claim compares worker and Run of the record found and adopts its    *)
(* nonce; the journal compares the encoded record: Subject is what is      *)
(* compared.                                                               *)
(***************************************************************************)
CONSTANTS
    Callers,        \* Processes that publish or load the record.
    Values,         \* Records that may be offered.
    Subject,        \* What of a record a caller compares.
    None,           \* No record.
    Torn            \* A file whose data never reached the disk.

ASSUME PublishAssumption ==
    /\ None \notin Values
    /\ Torn \notin Values
    /\ Torn # None

VARIABLES
    home,           \* The Run directory: "absent", "volatile" or "durable".
    record,         \* What the name holds: a value, None or Torn.
    dataSynced,     \* The record's file was fsynced.
    entryDurable,   \* The record's name was fsynced.
    pc,             \* Caller: next file-system call.
    offer,          \* Caller: the record it wants to publish.
    found,          \* Caller: the record it will return.
    fileSynced,     \* Caller: its staged file was fsynced.
    promised        \* <<offer, record>> of every call that returned.

disk == <<home, record, dataSynced, entryDurable>>
caller == <<pc, offer, found, fileSynced>>
vars == <<disk, caller, promised>>

PublishSteps == {"mkdir", "syncHome", "syncParent", "read", "stage", "syncFile",
                 "link", "compare", "syncDir", "return"}
LoadSteps == {"loadRead", "loadSyncDir", "loadSyncParent"}

TypeOK ==
    /\ home \in {"absent", "volatile", "durable"}
    /\ record \in Values \cup {None, Torn}
    /\ dataSynced \in BOOLEAN
    /\ entryDurable \in BOOLEAN
    /\ pc \in [Callers -> {"idle"} \cup PublishSteps \cup LoadSteps]
    /\ offer \in [Callers -> Values \cup {None}]
    /\ found \in [Callers -> Values \cup {None, Torn}]
    /\ fileSynced \in [Callers -> BOOLEAN]
    /\ promised \subseteq (Values \cup {None}) \X Values

Init ==
    /\ home = "absent"
    /\ record = None
    /\ dataSynced = FALSE
    /\ entryDurable = FALSE
    /\ pc = [c \in Callers |-> "idle"]
    /\ offer = [c \in Callers |-> None]
    /\ found = [c \in Callers |-> None]
    /\ fileSynced = [c \in Callers |-> FALSE]
    /\ promised = {}

\* c goes on to its next file-system call.
Goto(c, step) == pc' = [pc EXCEPT ![c] = step]

-----------------------------------------------------------------------------
\* worker_controller._child_directory.

\* A controller wants v published; a later attempt may offer another record
\* (a fresh nonce, a fresh unit name).
Begin(c, v) ==
    /\ pc[c] = "idle"
    /\ Goto(c, "mkdir")
    /\ offer' = [offer EXCEPT ![c] = v]
    /\ found' = [found EXCEPT ![c] = None]
    /\ fileSynced' = [fileSynced EXCEPT ![c] = FALSE]
    /\ UNCHANGED <<disk, promised>>

\* Mutant: a directory that exists is taken to be durable already.
MkdirTrustsExisting(c) ==
    /\ pc[c] = "mkdir"
    /\ home' = IF home = "absent" THEN "volatile" ELSE home
    /\ Goto(c, IF home = "absent" THEN "syncHome" ELSE "read")
    /\ UNCHANGED <<record, dataSynced, entryDurable, offer, found, fileSynced, promised>>

\* mkdir; an existing directory is as good, and synced as a new one is.
Mkdir(c) ==
    /\ pc[c] = "mkdir"
    /\ home' = IF home = "absent" THEN "volatile" ELSE home
    /\ Goto(c, "syncHome")
    /\ UNCHANGED <<record, dataSynced, entryDurable, offer, found, fileSynced, promised>>

\* fsync of the Run directory: whatever record it holds has a durable name.
SyncHome(c) ==
    /\ pc[c] = "syncHome"
    /\ entryDurable' = (record # None)
    /\ Goto(c, "syncParent")
    /\ UNCHANGED <<home, record, dataSynced, offer, found, fileSynced, promised>>

\* fsync of the parent, always: the Run directory itself is durable.
SyncParent(c) ==
    /\ pc[c] = "syncParent"
    /\ home' = "durable"
    /\ Goto(c, "read")
    /\ UNCHANGED <<record, dataSynced, entryDurable, offer, found, fileSynced, promised>>

-----------------------------------------------------------------------------
\* worker_claim.prepare and worker_journal._publish.

\* _load / _read before staging; a record that exists is only compared.
Read(c) ==
    /\ pc[c] = "read"
    /\ found' = [found EXCEPT ![c] = record]
    /\ Goto(c, IF record = None THEN "stage" ELSE "compare")
    /\ UNCHANGED <<disk, offer, fileSynced, promised>>

\* O_EXCL staging file, written and flushed.
Stage(c) ==
    /\ pc[c] = "stage"
    /\ Goto(c, "syncFile")
    /\ UNCHANGED <<disk, offer, found, fileSynced, promised>>

\* Mutant: the staged file is linked without an fsync.
SyncFileNever(c) ==
    /\ pc[c] = "syncFile"
    /\ Goto(c, "link")
    /\ UNCHANGED <<disk, offer, found, fileSynced, promised>>

\* fsync of the staged file.
SyncFile(c) ==
    /\ pc[c] = "syncFile"
    /\ fileSynced' = [fileSynced EXCEPT ![c] = TRUE]
    /\ Goto(c, "link")
    /\ UNCHANGED <<disk, offer, found, promised>>

\* Mutant: rename, which replaces a record published meanwhile.
LinkReplaces(c) ==
    /\ pc[c] = "link"
    /\ record' = offer[c]
    /\ dataSynced' = fileSynced[c]
    /\ entryDurable' = FALSE
    /\ found' = [found EXCEPT ![c] = offer[c]]
    /\ Goto(c, "compare")
    /\ UNCHANGED <<home, offer, fileSynced, promised>>

\* link: publishes the staged file unless the name exists; then the winner is
\* read again.  Nobody removes a published name, so the second read finds it.
Link(c) ==
    /\ pc[c] = "link"
    /\ IF record = None
       THEN /\ record' = offer[c]
            /\ dataSynced' = fileSynced[c]
            /\ entryDurable' = FALSE
            /\ found' = [found EXCEPT ![c] = offer[c]]
       ELSE /\ found' = [found EXCEPT ![c] = record]
            /\ UNCHANGED <<record, dataSynced, entryDurable>>
    /\ Goto(c, "compare")
    /\ UNCHANGED <<home, offer, fileSynced, promised>>

Conflicts(c) == found[c] = Torn \/ Subject[found[c]] # Subject[offer[c]]

\* The comparison; a conflicting or malformed record is an error.
Compare(c) ==
    /\ pc[c] = "compare"
    /\ Goto(c, IF Conflicts(c) THEN "idle" ELSE "syncDir")
    /\ UNCHANGED <<disk, offer, found, fileSynced, promised>>

\* unlink of the staging name, fsync of the directory.
SyncDir(c) ==
    /\ pc[c] = "syncDir"
    /\ entryDurable' = TRUE
    /\ Goto(c, "return")
    /\ UNCHANGED <<home, record, dataSynced, offer, found, fileSynced, promised>>

\* The record is the caller's.
Return(c) ==
    /\ pc[c] = "return"
    /\ promised' = promised \cup {<<offer[c], found[c]>>}
    /\ Goto(c, "idle")
    /\ UNCHANGED <<disk, offer, found, fileSynced>>

-----------------------------------------------------------------------------
\* worker_journal.unresolved: what a restarted controller adopts.

Load(c) ==
    /\ pc[c] = "idle"
    /\ home # "absent"
    /\ Goto(c, "loadRead")
    /\ offer' = [offer EXCEPT ![c] = None]
    /\ fileSynced' = [fileSynced EXCEPT ![c] = FALSE]
    /\ UNCHANGED <<disk, found, promised>>

\* Mutant: a missing record is adopted like any other.
LoadReadMissing(c) ==
    /\ pc[c] = "loadRead"
    /\ found' = [found EXCEPT ![c] = record]
    /\ Goto(c, IF record # Torn THEN "loadSyncDir" ELSE "idle")
    /\ UNCHANGED <<disk, offer, fileSynced, promised>>

\* _read of the phase; a missing or malformed record is not adopted.
LoadRead(c) ==
    /\ pc[c] = "loadRead"
    /\ found' = [found EXCEPT ![c] = record]
    /\ Goto(c, IF record \in Values THEN "loadSyncDir" ELSE "idle")
    /\ UNCHANGED <<disk, offer, fileSynced, promised>>

\* _chain's fsync of the Run directory.
LoadSyncDir(c) ==
    /\ pc[c] = "loadSyncDir"
    /\ entryDurable' = TRUE
    /\ Goto(c, "loadSyncParent")
    /\ UNCHANGED <<home, record, dataSynced, offer, found, fileSynced, promised>>

\* unresolved's fsync of the worker's directory, which holds the Run's.
LoadSyncParent(c) ==
    /\ pc[c] = "loadSyncParent"
    /\ home' = "durable"
    /\ Goto(c, "return")
    /\ UNCHANGED <<record, dataSynced, entryDurable, offer, found, fileSynced, promised>>

-----------------------------------------------------------------------------
\* A file-system call of c raises, or c is killed before it.
Stop(c) ==
    /\ pc[c] # "idle"
    /\ Goto(c, "idle")
    /\ UNCHANGED <<disk, offer, found, fileSynced, promised>>

\* Power loss: every caller is gone; what is volatile survives or does not.
PowerLoss ==
    \E survives, kept \in BOOLEAN :
        /\ survives => home # "absent"
        /\ home = "durable" => survives
        /\ kept => survives /\ record # None
        /\ survives /\ entryDurable => kept
        /\ home' = IF survives THEN "durable" ELSE "absent"
        /\ record' = IF ~kept THEN None ELSE IF dataSynced THEN record ELSE Torn
        /\ dataSynced' = kept
        /\ entryDurable' = kept
        /\ pc' = [c \in Callers |-> "idle"]
        /\ UNCHANGED <<offer, found, fileSynced, promised>>

Step(c) ==
    \/ \E v \in Values : Begin(c, v)
    \/ Mkdir(c) \/ SyncHome(c) \/ SyncParent(c)
    \/ Read(c) \/ Stage(c) \/ SyncFile(c) \/ Link(c) \/ Compare(c) \/ SyncDir(c)
    \/ Load(c) \/ LoadRead(c) \/ LoadSyncDir(c) \/ LoadSyncParent(c)
    \/ Return(c) \/ Stop(c)

Next == (\E c \in Callers : Step(c)) \/ PowerLoss

Spec == Init /\ [][Next]_vars

-----------------------------------------------------------------------------
\* A name never holds a record whose data could be lost or was: the staged
\* file is fsynced before link gives it the name.
NeverTorn == record # Torn /\ (record # None => dataSynced)

\* A record some call returned is the one its caller asked for (the claim of
\* the same Run, the identical phase), and the name holds it for good: no race,
\* crash or power loss makes another call return a different one.
PromiseKept ==
    \A p \in promised :
        /\ p[1] # None => Subject[p[1]] = Subject[p[2]]
        /\ record = p[2]
        /\ dataSynced /\ entryDurable /\ home = "durable"

\* prepare and _publish, whoever calls them, are one durable write-once
\* register whose value every successful call answers.
Register == INSTANCE DurableRegister WITH
    committed <- IF home = "durable" /\ entryDurable THEN record ELSE None,
    promised <- {p[2] : p \in promised}
IsDurableRegister == Register!Spec
=============================================================================
