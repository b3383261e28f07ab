------------------------------- MODULE StoreOpen -------------------------------
(***************************************************************************)
(* Opening a store: how several processes open one SQLite database, a      *)
(* project index or the vector cache, of which nobody knows beforehand     *)
(* whether it exists, is empty, is of an older version, or is no store of  *)
(* this program at all.                                                    *)
(*                                                                         *)
(* Sources: yams-store/src/project.rs (open_project_with_hooks), schema.rs *)
(* (open_vectors_with) and secure.rs.  IndexStore takes an open store for  *)
(* granted; this is how it gets one.  A database is the kind of contents   *)
(* it has and its journal mode.  Its sidecars are none; the pair that an   *)
(* idle WAL connection leaves ("reader"); a pair of which one file is      *)
(* already removed ("half"); a WAL with frames ("wal"); or a rollback      *)
(* journal ("journal").                                                    *)
(***************************************************************************)
EXTENDS Naturals, FiniteSets

CONSTANTS
    Openers,          \* processes, each opening once
    Searchers,        \* those that call open_vectors_for_search
    NoDb,
    MaxStoreTroubles  \* bound on crashes, failing calls and foreign hands

ASSUME StoreOpenAssumption ==
    /\ IsFiniteSet(Openers) /\ Searchers \subseteq Openers /\ MaxStoreTroubles \in Nat
    /\ NoDb \notin Openers /\ NoDb \notin {1, 2}

(* The database there may be, and one that may take its name. *)
DbFiles == {1, 2}

VARIABLES
    store,       \* which of the two openers runs: "project" or "vectors"
    storeDir,    \* the private directories: "absent", "private" or "public"
    dbName,      \* the file the database name denotes
    db,          \* the contents of each file
    side,        \* the sidecars beside the name
    initLock,    \* holder of the coordination lock
    openPc,      \* the step of each process, at the end its outcome
    openFd,      \* PinnedDatabase.fd
    openConn,    \* the file SQLite has opened
    openState,   \* PinnedDatabase.state: "Empty" or "Existing"
    openAlone,   \* sidecars_were_absent
    openReader,  \* is reader_sidecars Some?
    openNew,     \* needs_post_commit_validation
    healthy,     \* history: a private store of this program, or none, at first
    storeTroubles

openVars == <<store, storeDir, dbName, db, side, initLock, openPc, openFd, openConn,
              openState, openAlone, openReader, openNew, healthy, storeTroubles>>
thePins == <<openFd, openState, openAlone, openReader, openNew>>

(* Contents: nothing at all; the schema of this version; for a project the *)
(* schema of the version before; and what must be left alone: another      *)
(* program's tables, a later version, another root's index, a damaged      *)
(* page, a file that others may read or write.                             *)
Foreign == {"foreign", "future", "wrong root", "damaged", "exposed"}
JournalMode(s) == IF s = "project" THEN "delete" ELSE "wal"

(* Steps at which a connection exists, and those in a transaction. *)
InTransaction == {"recheck", "committing"}
Connected == InTransaction \cup
    {"connected", "post-commit", "journal mode", "last check", "open", "writing", "used"}
Contention == {"busy", "locked", "sidecar", "torn"}
Refusal == {"unsafe", "raced", "refused", "wrong journal"}

StoreOpenInit ==
    /\ store \in {"project", "vectors"}
    /\ storeDir \in {"absent", "private", "public"}
    /\ dbName \in IF storeDir = "absent" THEN {NoDb} ELSE {NoDb, 1}
    /\ db \in [DbFiles -> [has : {"empty", "v1", "current"} \cup Foreign,
                           journal : {"delete", "wal"}]]
    /\ db[2].has \in {"empty", "foreign"} /\ db[2].journal = "delete"
    /\ dbName = NoDb => db[1].has = "empty"
    /\ db[1].has = "empty" => db[1].journal = "delete"
    /\ store = "vectors" => db[1].has \notin {"v1", "future", "wrong root"}
    /\ side \in {"none", "journal"} \cup IF db[1].journal = "wal" THEN {"reader", "wal"} ELSE {}
    /\ db[1].has = "empty" => side = "none"
    /\ healthy = /\ db[1].has \notin Foreign /\ storeDir # "public"
                 /\ db[1].has # "empty" => db[1].journal = JournalMode(store)
                 /\ side \in {"none", "reader"}
    /\ initLock = NoDb
    /\ openPc = [o \in Openers |-> "idle"]
    /\ openFd = [o \in Openers |-> NoDb]
    /\ openConn = [o \in Openers |-> NoDb]
    /\ openState = [o \in Openers |-> "Empty"]
    /\ openAlone = [o \in Openers |-> FALSE]
    /\ openReader = [o \in Openers |-> FALSE]
    /\ openNew = [o \in Openers |-> FALSE]
    /\ storeTroubles = 0

-----------------------------------------------------------------------------
OpenStep(o, pc) == openPc[o] = pc /\ UNCHANGED <<store, healthy, storeTroubles>>
OpenGoto(o, pc) == openPc' = [openPc EXCEPT ![o] = pc]

(* SQLite drops a connection: a transaction is rolled back and its journal *)
(* removed, and the last connection in WAL mode removes the pair.          *)
Alone(o) == \A p \in Openers \ {o} : openPc[p] \notin Connected
AfterDrop(o) ==
    IF openPc[o] = "committing" /\ side = "journal" THEN "none"
    ELSE IF openPc[o] \in Connected \ {"connected"} /\ db[openConn[o]].journal = "wal" /\ Alone(o)
    THEN "none" ELSE side

(* An error return drops the connection and then the lock guard. *)
FailOpen(o, why) ==
    /\ OpenGoto(o, why)
    /\ side' = AfterDrop(o)
    /\ openConn' = [openConn EXCEPT ![o] = NoDb]
    /\ initLock' = IF initLock = o THEN NoDb ELSE initLock
    /\ UNCHANGED <<storeDir, dbName, db, thePins>>

(* PinnedDatabase::revalidate: the directories and the name are still what *)
(* was pinned, and still private; otherwise why not.                       *)
Verdict(o) == IF storeDir = "public" THEN "unsafe"
              ELSE IF dbName # openFd[o] THEN "raced" ELSE "ok"

(* SecureStoreDirectory::open makes the private directories that are       *)
(* missing and pins all of them; another process may make them first.      *)
OpenDirectory(o) ==
    /\ OpenStep(o, "idle")
    /\ \/ storeDir = "public" /\ FailOpen(o, "unsafe")
       \/ /\ storeDir # "public" /\ storeDir' = "private"
          /\ OpenGoto(o, "prepare")
          /\ UNCHANGED <<dbName, db, side, initLock, openConn, thePins>>

(* While a first transaction is committed, the file may have its first     *)
(* bytes already.                                                          *)
Sizes(f) == IF db[f].has # "empty" THEN {"Existing"}
            ELSE IF \E p \in Openers : openPc[p] = "committing" /\ openConn[p] = f
            THEN {"Empty", "Existing"} ELSE {"Empty"}

(* prepare_database_without_sidecar_check pins the file, or makes one. *)
PrepareDatabase(o) ==
    /\ OpenStep(o, "prepare")
    /\ \/ storeDir = "public" /\ FailOpen(o, "unsafe")
       \/ storeDir # "public" /\ dbName # NoDb /\ db[dbName].has = "exposed" /\ FailOpen(o, "unsafe")
       \/ /\ storeDir # "public"
          /\ dbName # NoDb => db[dbName].has # "exposed"
          /\ dbName' = IF dbName = NoDb THEN 1 ELSE dbName
          /\ openFd' = [openFd EXCEPT ![o] = dbName']
          /\ \E s \in Sizes(dbName') :
                /\ openState' = [openState EXCEPT ![o] = s]
                /\ openNew' = [openNew EXCEPT ![o] = s = "Empty"]
          /\ OpenGoto(o, IF store = "project" THEN "lock" ELSE "prepared")
          /\ UNCHANGED <<storeDir, db, side, initLock, openConn, openAlone, openReader>>

(* sqlite_sidecars_absent: the vector cache is inspected before the lock   *)
(* if nobody has it open.                                                  *)
LookForSidecars(o) ==
    /\ OpenStep(o, "prepared")
    /\ \/ storeDir = "public" /\ FailOpen(o, "unsafe")
       \/ /\ storeDir # "public"
          /\ openAlone' = [openAlone EXCEPT ![o] = side = "none"]
          /\ OpenGoto(o, IF openState[o] = "Existing" /\ side = "none" THEN "inspect early" ELSE "lock")
          /\ UNCHANGED <<storeDir, dbName, db, side, initLock, openFd, openConn, openState,
                         openReader, openNew>>

(* validate_metadata_stamp and validate_project_structure, or              *)
(* validate_vector_structure; then integrity, foreign keys and full text.  *)
StructureOk(f) == db[f].has \in {"v1", "current", "damaged"}
Sound(o, f) == StructureOk(f) /\ (db[f].has = "damaged" => o \in Searchers /\ store = "vectors")

(* An immutable inspection takes no lock: what it reads while somebody     *)
(* writes may be anything.                                                 *)
Unsettled(o) == \E p \in Openers \ {o} : openPc[p] \in {"committing", "writing", "closing"}
Inspections(o) ==
    (IF Unsettled(o) THEN {"torn", "refused"} ELSE {})
        \cup {IF ~StructureOk(dbName) THEN "refused" ELSE IF ~Sound(o, dbName) THEN "torn" ELSE Verdict(o)}

InspectEarly(o) ==
    /\ OpenStep(o, "inspect early")
    /\ \E found \in Inspections(o) :
        \/ found # "ok" /\ FailOpen(o, found)
        \/ /\ found = "ok" /\ OpenGoto(o, "lock")
           /\ UNCHANGED <<storeDir, dbName, db, side, initLock, openConn, thePins>>

(* A bug: the coordination lock excludes nobody. *)
AwaitNothing(o) ==
    /\ OpenStep(o, "lock")
    /\ \/ OpenGoto(o, "coordinated") /\ initLock' = o
          /\ UNCHANGED <<storeDir, dbName, db, side, openConn, thePins>>
       \/ initLock # NoDb /\ FailOpen(o, "busy")

(* flock_for polls the coordination lock, five seconds at most. *)
AwaitLock(o) ==
    /\ OpenStep(o, "lock")
    /\ \/ initLock = NoDb /\ initLock' = o /\ OpenGoto(o, "coordinated")
          /\ UNCHANGED <<storeDir, dbName, db, side, openConn, thePins>>
       \/ initLock # NoDb /\ FailOpen(o, "busy")

(* refuse_sidecars, or pin_empty_vector_reader_sidecars. *)
Adoptable == {"none"} \cup IF store = "vectors" THEN {"reader"} ELSE {}
ClassifySidecars(o) ==
    /\ OpenStep(o, "coordinated")
    /\ \/ Verdict(o) # "ok" /\ FailOpen(o, Verdict(o))
       \/ Verdict(o) = "ok" /\ side \notin Adoptable /\ FailOpen(o, "sidecar")
       \/ /\ Verdict(o) = "ok" /\ side \in Adoptable
          /\ openReader' = [openReader EXCEPT ![o] = side = "reader"]
          /\ OpenGoto(o, IF /\ openState[o] = "Existing"
                            /\ store = "project" \/ ~openAlone[o] \/ side = "reader"
                         THEN "inspect" ELSE "connect")
          /\ UNCHANGED <<storeDir, dbName, db, side, initLock, openFd, openConn, openState,
                         openAlone, openNew>>

(* PinnedVectorReaderSidecars::revalidate. *)
ReaderKept(o) == openReader[o] => side = "reader"

InspectLocked(o) ==
    /\ OpenStep(o, "inspect")
    /\ \E found \in Inspections(o) :
        \/ found # "ok" /\ FailOpen(o, found)
        \/ found = "ok" /\ ~ReaderKept(o) /\ FailOpen(o, "sidecar")
        \/ /\ found = "ok" /\ store = "project" /\ db[dbName].journal # "delete"
           /\ FailOpen(o, "wrong journal")
        \/ /\ found = "ok" /\ ReaderKept(o)
           /\ store = "project" => db[dbName].journal = "delete"
           /\ OpenGoto(o, "connect")
           /\ UNCHANGED <<storeDir, dbName, db, side, initLock, openConn, thePins>>

(* Connection::open_with_flags, by name: what the vector cache revalidates *)
(* before may have changed by now.                                         *)
Connect(o) ==
    /\ OpenStep(o, "connect")
    /\ \/ store = "vectors" /\ Verdict(o) # "ok" /\ FailOpen(o, Verdict(o))
       \/ Verdict(o) = "ok" /\ ~ReaderKept(o) /\ FailOpen(o, "sidecar")
       \/ /\ store = "vectors" => Verdict(o) = "ok" /\ ReaderKept(o)
          /\ openConn' = [openConn EXCEPT ![o] = dbName]
          /\ OpenGoto(o, "connected")
          /\ UNCHANGED <<storeDir, dbName, db, side, initLock, thePins>>

WriteLocked(o) ==
    \E p \in Openers \ {o} : openPc[p] \in InTransaction \cup {"writing"} /\ openConn[p] = openConn[o]

(* What was opened is revalidated, and the transaction begun: after five   *)
(* seconds of another writer SQLite gives up.                              *)
Begin(o) ==
    /\ OpenStep(o, "connected")
    /\ \/ Verdict(o) # "ok" /\ FailOpen(o, Verdict(o))
       \/ Verdict(o) = "ok" /\ ~ReaderKept(o) /\ FailOpen(o, "sidecar")
       \/ Verdict(o) = "ok" /\ WriteLocked(o) /\ FailOpen(o, IF openReader[o] THEN "sidecar" ELSE "locked")
       \/ /\ Verdict(o) = "ok" /\ ReaderKept(o) /\ ~WriteLocked(o)
          /\ side' = IF db[openConn[o]].journal = "wal" /\ side = "none" THEN "reader" ELSE side
          /\ OpenGoto(o, "recheck")
          /\ UNCHANGED <<storeDir, dbName, db, initLock, openConn, thePins>>

(* A bug: an old schema is taken for the current one. *)
RecheckUnmigrated(o) ==
    /\ OpenStep(o, "recheck")
    /\ LET has == db[openConn[o]].has IN
        \/ has \notin {"empty", "v1", "current", "damaged"} /\ FailOpen(o, "refused")
        \/ /\ has # "empty" /\ StructureOk(openConn[o]) /\ OpenGoto(o, "post-commit")
           /\ UNCHANGED <<storeDir, dbName, db, side, initLock, openConn, thePins>>
        \/ /\ has = "empty"
           /\ side' = "journal" /\ OpenGoto(o, "committing")
           /\ openNew' = [openNew EXCEPT ![o] = TRUE]
           /\ UNCHANGED <<storeDir, dbName, db, initLock, openConn, openFd, openState, openAlone,
                          openReader>>

(* A bug: whatever is not a store of this program is taken for an empty    *)
(* file.                                                                   *)
RecheckTableOnly(o) ==
    /\ OpenStep(o, "recheck")
    /\ LET has == db[openConn[o]].has IN
        \/ has \in {"future", "wrong root"} /\ FailOpen(o, "refused")
        \/ /\ has \in {"current", "damaged"} /\ OpenGoto(o, "post-commit")
           /\ UNCHANGED <<storeDir, dbName, db, side, initLock, openConn, thePins>>
        \/ /\ has \in {"empty", "v1", "foreign"}
           /\ side' = "journal" /\ OpenGoto(o, "committing")
           /\ openNew' = [openNew EXCEPT ![o] = TRUE]
           /\ UNCHANGED <<storeDir, dbName, db, initLock, openConn, openFd, openState, openAlone,
                          openReader>>

(* In the transaction the schema is looked at again: a current one stays,  *)
(* the one before is migrated, nothing becomes a new schema, and all else  *)
(* is refused.                                                             *)
RecheckSchema(o) ==
    /\ OpenStep(o, "recheck")
    /\ LET has == db[openConn[o]].has IN
        \/ has # "empty" /\ ~StructureOk(openConn[o]) /\ FailOpen(o, "refused")
        \/ /\ has \in {"current", "damaged"} /\ OpenGoto(o, "post-commit")
           /\ UNCHANGED <<storeDir, dbName, db, side, initLock, openConn, thePins>>
        \/ /\ has \in {"empty", "v1"}
           /\ side' = "journal" /\ OpenGoto(o, "committing")
           /\ openNew' = [openNew EXCEPT ![o] = TRUE]
           /\ UNCHANGED <<storeDir, dbName, db, initLock, openConn, openFd, openState, openAlone,
                          openReader>>

(* create_project_schema, migrate_project_schema_v1_to_v2_with_hook or     *)
(* VECTOR_SCHEMA takes effect, all of it or nothing.                       *)
Commit(o) ==
    /\ OpenStep(o, "committing")
    /\ db' = [db EXCEPT ![openConn[o]].has = "current"]
    /\ side' = "none"
    /\ OpenGoto(o, "post-commit")
    /\ UNCHANGED <<storeDir, dbName, initLock, openConn, thePins>>

(* A new or migrated store is validated in full, over the connection. *)
ValidateCommitted(o) ==
    /\ OpenStep(o, "post-commit")
    /\ \/ openNew[o] /\ ~Sound(o, openConn[o]) /\ FailOpen(o, "torn")
       \/ /\ openState[o] = "Empty" /\ store = "project" /\ db[openFd[o]].journal # "delete"
          /\ FailOpen(o, "wrong journal")
       \/ /\ openNew[o] => Sound(o, openConn[o])
          /\ openState[o] = "Empty" /\ store = "project" => db[openFd[o]].journal = "delete"
          /\ OpenGoto(o, IF store = "project" THEN "last check" ELSE "journal mode")
          /\ UNCHANGED <<storeDir, dbName, db, side, initLock, openConn, thePins>>

(* PRAGMA journal_mode = WAL, the header that must say so, and an empty    *)
(* transaction that makes SQLite create the pair of sidecars.              *)
EnableWal(o) ==
    /\ OpenStep(o, "journal mode")
    /\ \/ WriteLocked(o) /\ FailOpen(o, "locked")
       \/ /\ ~WriteLocked(o)
          /\ db' = [db EXCEPT ![openConn[o]].journal = "wal"]
          /\ side' = IF side = "none" THEN "reader" ELSE side
          /\ OpenGoto(o, "last check")
          /\ UNCHANGED <<storeDir, dbName, initLock, openConn, thePins>>

(* The last look at name and sidecars, and the lock guard is dropped. *)
LastCheck(o) ==
    /\ OpenStep(o, "last check")
    /\ LET calm == side \in IF store = "project" THEN {"none"} ELSE {"reader", "wal"} IN
        \/ Verdict(o) # "ok" /\ FailOpen(o, Verdict(o))
        \/ Verdict(o) = "ok" /\ ~calm /\ FailOpen(o, "sidecar")
        \/ /\ Verdict(o) = "ok" /\ calm
           /\ initLock' = IF initLock = o THEN NoDb ELSE initLock
           /\ OpenGoto(o, "open")
           /\ UNCHANGED <<storeDir, dbName, db, side, openConn, thePins>>

-----------------------------------------------------------------------------
(* What the callers do with the connection: write transactions of which a  *)
(* WAL keeps the frames, and closing, where the last one out writes the    *)
(* frames back and removes the two files, one after the other.             *)
StartWrite(o) ==
    /\ openPc[o] \in {"open", "used"} /\ ~WriteLocked(o)
    /\ OpenGoto(o, "writing")
    /\ side' = IF store = "project" THEN "journal" ELSE "wal"
    /\ UNCHANGED <<store, healthy, storeTroubles, storeDir, dbName, db, initLock, openConn, thePins>>

EndWrite(o) ==
    /\ OpenStep(o, "writing")
    /\ OpenGoto(o, "used")
    /\ side' = IF store = "project" THEN "none" ELSE side
    /\ UNCHANGED <<storeDir, dbName, db, initLock, openConn, thePins>>

CloseStore(o) ==
    /\ openPc[o] \in {"open", "used"}
    /\ LET last == store = "vectors" /\ Alone(o) IN
        /\ OpenGoto(o, IF last THEN "closing" ELSE "closed")
        /\ side' = IF last THEN "half" ELSE side
    /\ UNCHANGED <<store, healthy, storeTroubles, storeDir, dbName, db, initLock, openConn, thePins>>

EndClose(o) ==
    /\ OpenStep(o, "closing")
    /\ OpenGoto(o, "closed")
    /\ side' = IF side = "half" THEN "none" ELSE side
    /\ UNCHANGED <<storeDir, dbName, db, initLock, openConn, thePins>>

-----------------------------------------------------------------------------
StoreTrouble == storeTroubles < MaxStoreTroubles /\ storeTroubles' = storeTroubles + 1
Opening(o) == openPc[o] \notin {"open", "writing", "used", "closing", "closed", "crashed"}
                                    \cup Contention \cup Refusal \cup {"unavailable"}

(* A file system or SQLite call fails. *)
CallFails(o) ==
    /\ StoreTrouble /\ Opening(o)
    /\ FailOpen(o, "unavailable")
    /\ UNCHANGED <<store, healthy>>

(* A process dies: the kernel frees the lock, and sidecars stay. *)
Dies(o) ==
    /\ StoreTrouble
    /\ Opening(o) \/ openPc[o] \in {"open", "writing", "used", "closing"}
    /\ OpenGoto(o, "crashed")
    /\ openConn' = [openConn EXCEPT ![o] = NoDb]
    /\ initLock' = IF initLock = o THEN NoDb ELSE initLock
    /\ UNCHANGED <<store, healthy, storeDir, dbName, db, side, thePins>>

(* A foreign hand, while nobody has finished opening: it puts another file *)
(* at the name, puts another database into the empty file, or opens the    *)
(* directory to others.                                                    *)
ForeignHand ==
    /\ StoreTrouble
    /\ \A o \in Openers : openPc[o] \notin {"open", "writing", "used", "closing"}
    /\ \/ dbName # NoDb /\ dbName' = 2 /\ UNCHANGED <<db, storeDir>>
       \/ /\ dbName # NoDb /\ db[dbName].has = "empty"
          /\ \A o \in Openers : openPc[o] \notin InTransaction
          /\ \E has \in {"foreign", "damaged"}, journal \in {"delete", "wal"} :
                db' = [db EXCEPT ![dbName] = [has |-> has, journal |-> journal]]
          /\ UNCHANGED <<dbName, storeDir>>
       \/ storeDir = "private" /\ storeDir' = "public" /\ UNCHANGED <<db, dbName>>
    /\ UNCHANGED <<store, healthy, side, initLock, openPc, openConn, thePins>>

StoreOpenNext ==
    \/ \E o \in Openers :
        \/ OpenDirectory(o) \/ PrepareDatabase(o) \/ LookForSidecars(o) \/ InspectEarly(o)
        \/ AwaitLock(o) \/ ClassifySidecars(o) \/ InspectLocked(o) \/ Connect(o) \/ Begin(o)
        \/ RecheckSchema(o) \/ Commit(o) \/ ValidateCommitted(o) \/ EnableWal(o) \/ LastCheck(o)
        \/ StartWrite(o) \/ EndWrite(o) \/ CloseStore(o) \/ EndClose(o)
        \/ CallFails(o) \/ Dies(o)
    \/ ForeignHand

StoreOpenSpec == StoreOpenInit /\ [][StoreOpenNext]_openVars

-----------------------------------------------------------------------------
(* open_project and open_vectors return a connection only to the pinned    *)
(* file, of the current schema and the journal mode its kind of store      *)
(* needs, whatever it was at first and whoever else was creating or        *)
(* migrating it; only the search opener, which skips the integrity check,  *)
(* may return a damaged one.                                               *)
StoreOpenedIsCurrent ==
    \A o \in Openers :
        openPc[o] \in {"open", "writing", "used"} =>
            /\ openConn[o] = openFd[o]
            /\ db[openFd[o]].journal = JournalMode(store)
            /\ db[openFd[o]].has = "current" \/ (db[openFd[o]].has = "damaged" /\ o \in Searchers)

(* Racing openers of a healthy store do not fail each other: without       *)
(* troubles an open_project or open_vectors fails by the timeout of the    *)
(* coordination lock only, unless somebody who has the store open writes   *)
(* to it or closes it; then it fails as contention, never as a store of    *)
(* the wrong kind - but for what an immutable inspection of a vector cache *)
(* or index that is being written may read.                                *)
OpenersDoNotClash ==
    \A o \in Openers :
        /\ healthy /\ storeTroubles = 0
        /\ openPc[o] \in (Contention \cup Refusal \cup {"unavailable"}) \ {"busy"}
        => /\ \E p \in Openers \ {o} : openPc[p] \in {"writing", "used", "closing", "closed"}
           /\ openPc[o] \in Contention \cup {"refused"}

(* What is no store of this program is never written: a file changes only  *)
(* from nothing or the version before to the current schema, or to the WAL *)
(* mode of a vector cache, and only if the process that changes it has     *)
(* pinned it - or by the foreign hand itself.                              *)
ForeignStoreUntouched ==
    [][\A f \in DbFiles : db'[f] # db[f] /\ storeTroubles' = storeTroubles =>
        /\ db[f].has \in {"empty", "v1", "current"} \/ (db[f].has = "damaged" /\ db'[f].has = "damaged")
        /\ \E o \in Openers : openFd[o] = f /\ openPc'[o] # openPc[o]]_openVars
=============================================================================
