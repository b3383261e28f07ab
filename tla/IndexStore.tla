------------------------------ MODULE IndexStore ------------------------------
(***************************************************************************)
(* The search store: one index database per project and one vector cache   *)
(* all projects share.  Processes synchronize a project (plan, embed,      *)
(* publish), collect garbage in the cache, search a project and report     *)
(* statistics, beside an editor who changes the pages and a user who may   *)
(* lose the cache or replace the lease file.                               *)
(*                                                                         *)
(* Sources: yams-store/src/sync.rs, management.rs, vector.rs, the mutation *)
(* lease of secure.rs, retrieve.rs, and search and its retry in            *)
(* yams-cli/src/direct.rs.  A page is one chunk and its text is its        *)
(* content; a vector key is the pair (embedding scheme, content), as       *)
(* vector_key hashes both.  A file's metadata is one number, its stamp,    *)
(* and a directory's likewise: it changes when an entry is added or        *)
(* removed, not when a file is edited in place.                            *)
(***************************************************************************)
EXTENDS Naturals, FiniteSets

CONSTANTS
    Procs,         \* processes; each runs one operation
    Projects,      \* project roots
    Paths,         \* page paths of a project's corpus
    Contents,      \* texts a page can have
    Rejected,      \* content of an oversized or rejected file
    Unreadable,    \* content of a file that cannot be read
    Schemes,       \* embedding schemes (model signature and dimensions)
    None,
    InitFiles,     \* the content of every page at the start
    InitIndexed,   \* the projects whose pages are indexed at the start
    Requests,      \* the operations a process may run
    EnvOps,        \* what the editor, the user and the system may do
    FinalRace,     \* may they act between the last check and the commit?
    MaxGen,        \* the largest generation an index can have
    MaxTries,      \* attempts of retry_transient_store
    MaxQuarantines,\* names for a damaged cache
    MaxEdits,      \* bound on edits of pages
    MaxFaults,     \* bound on failing calls
    MaxCrashes,    \* bound on killed processes
    MaxLosses      \* bound on losses of the cache and of the lease file

ASSUME BoundsAssumption ==
    /\ MaxGen \in Nat \ {0}
    /\ {MaxTries, MaxQuarantines, MaxEdits, MaxFaults, MaxCrashes, MaxLosses} \subseteq Nat
    /\ FinalRace \in BOOLEAN

ASSUME ContentsAssumption ==
    /\ Rejected \notin Contents /\ Unreadable \notin Contents /\ Rejected # Unreadable
    /\ \A j \in Projects : \A f \in Paths : InitFiles[j][f] \in Contents \cup {None}

(* None is neither a lease, a document nor a file. *)
ASSUME NoneAssumption ==
    /\ None \notin [ino : Nat, mode : {"shared", "exclusive"}]
    /\ None \notin [hash : Contents, key : Schemes \X Contents, stamp : Nat]
    /\ None \notin [content : Contents \cup {Rejected, Unreadable}, stamp : Nat]

(* An operation is sync (of a project, in a mode, with the scheme of the   *)
(* embedder at hand), gc, search or stats.                                 *)
ASSUME RequestsAssumption ==
    \A r \in Requests :
        /\ r.op \in {"sync", "gc", "search", "stats"}
        /\ r.op # "gc" => r.project \in Projects
        /\ r.op = "sync" => r.scheme \in Schemes /\ r.mode \in {"incremental", "full"}

VARIABLES
    source,     \* the corpus of each project on disk
    index,      \* the committed contents of each project's database
    journal,    \* projects whose database has a -journal file
    cache,      \* keys of the vectors in the cache
    damaged,    \* is the cache file unreadable?
    quarantines,\* damaged caches set aside so far
    leaseIno,   \* the inode the lease file names
    held,       \* the lease a process holds
    pc, loc, out,
    lost,       \* history: keys the environment destroyed, not yet re-embedded
    losses,     \* history: how often it destroyed some
    edits, faults, crashes

store == <<index, journal, cache, damaged, quarantines, lost>>
bounds == <<losses, edits, faults, crashes>>
vars == <<source, index, journal, cache, damaged, quarantines, leaseIno, held,
          pc, loc, out, lost, losses, edits, faults, crashes>>

-----------------------------------------------------------------------------
(* Values *)

Keys == Schemes \X Contents
File == [content : Contents \cup {Rejected, Unreadable}, stamp : Nat]
Corpus == [dir : Nat, files : [Paths -> File \cup {None}]]
Doc == [hash : Contents, key : Keys, stamp : Nat]
Index == [gen : 0 .. MaxGen, scheme : Schemes \cup {None}, docs : [Paths -> Doc \cup {None}]]

KeysOf(docs) == {docs[f].key : f \in {g \in Paths : docs[g] # None}}
Published == UNION {KeysOf(index[j].docs) : j \in Projects}

Loc == [req : Requests \cup {None}, scan : Corpus \cup {None}, root : BOOLEAN,
        gen : 0 .. MaxGen, scheme : Schemes \cup {None},
        docs : [Paths -> Doc \cup {None}] \cup {None}, upserts : SUBSET Paths,
        metas : SUBSET Paths, deletions : SUBSET Paths, refs : SUBSET Paths,
        missing : SUBSET Keys, initial : SUBSET Keys, live : SUBSET Keys,
        snap : Index \cup {None}, tries : Nat, losses : Nat]
NoLoc == [req |-> None, scan |-> None, root |-> TRUE, gen |-> 0, scheme |-> None, docs |-> None,
          upserts |-> {}, metas |-> {}, deletions |-> {}, refs |-> {}, missing |-> {},
          initial |-> {}, live |-> {}, snap |-> None, tries |-> 0, losses |-> 0]

Proj(p) == loc[p].req.project
Full(p) == loc[p].req.mode = "full"
PlannedSteps == {"exec", "recheck", "embed", "lease", "insert", "begin", "final", "commit"}
SyncSteps == {"scan", "plan", "plan_scheme", "plan_docs"} \cup PlannedSteps
GcSteps == {"gc_lease", "gc_initial", "gc_first", "gc_second", "gc_sweep"}
ReadSteps == {"open", "lookup", "stats_lease", "stats_read"}
Steps == SyncSteps \cup GcSteps \cup ReadSteps
Running(p) == pc[p] \in Steps
Results == {"none", "ok", "busy", "changed", "refused", "failed", "missing"}

Init ==
    /\ source = [j \in Projects |->
         [dir |-> 0, files |-> [f \in Paths |->
            IF InitFiles[j][f] = None THEN None ELSE [content |-> InitFiles[j][f], stamp |-> 0]]]]
    /\ \E s \in Schemes :
         /\ index = [j \in Projects |->
              IF j \notin InitIndexed
              THEN [gen |-> 0, scheme |-> None, docs |-> [f \in Paths |-> None]]
              ELSE [gen |-> 1, scheme |-> s, docs |-> [f \in Paths |->
                      IF InitFiles[j][f] = None THEN None
                      ELSE [hash |-> InitFiles[j][f], key |-> <<s, InitFiles[j][f]>>, stamp |-> 0]]]]
         /\ cache = Published
    /\ journal = {} /\ damaged = FALSE /\ quarantines = 0
    /\ leaseIno = 0
    /\ held = [p \in Procs |-> None]
    /\ pc = [p \in Procs |-> "idle"]
    /\ loc = [p \in Procs |-> NoLoc]
    /\ out = [p \in Procs |-> "none"]
    /\ lost = {} /\ losses = 0 /\ edits = 0 /\ faults = 0 /\ crashes = 0

-----------------------------------------------------------------------------
(* Helpers of the process steps *)

Fault == faults < MaxFaults /\ faults' = faults + 1 /\ UNCHANGED <<losses, edits, crashes>>
NoFault == UNCHANGED bounds
Goto(p, step) == pc' = [pc EXCEPT ![p] = step] /\ UNCHANGED out

(* The operation returns; dropping its lease unlocks the file. *)
Return(p, result) ==
    /\ pc' = [pc EXCEPT ![p] = "done"]
    /\ out' = [out EXCEPT ![p] = result]
    /\ held' = [held EXCEPT ![p] = None]

Compatible(p, mode) ==
    \A q \in Procs \ {p} :
        held[q] # None /\ held[q].ino = leaseIno => mode = "shared" /\ held[q].mode = "shared"
LeaseCurrent(p) == held[p] # None /\ held[p].ino = leaseIno
Writing(p, j) == pc[p] \in {"final", "commit"} /\ loc[p].req.project = j
Reading(p, j) == pc[p] = "lookup" /\ loc[p].req.project = j

(* HeldVectorMutationLock::acquire: flock within the timeout, and the name *)
(* still that file's.                                                      *)
AcquireLease(p, step, mode, next) ==
    /\ pc[p] = step
    /\ \/ /\ Compatible(p, mode)
          /\ held' = [held EXCEPT ![p] = [ino |-> leaseIno, mode |-> mode]]
          /\ Goto(p, next)
       \/ ~Compatible(p, mode) /\ Return(p, "busy")
    /\ NoFault
    /\ UNCHANGED <<source, store, leaseIno, loc>>

(* Mutant: only the scheme is compared again. *)
PreconditionsSchemeOnly(p) == index[Proj(p)].scheme = loc[p].scheme

(* verify_project_preconditions *)
Preconditions(p) ==
    /\ index[Proj(p)].gen = loc[p].gen
    /\ index[Proj(p)].scheme = loc[p].scheme

-----------------------------------------------------------------------------
(* What a scan says about each path *)

Present(p) == {f \in Paths : loc[p].scan.files[f] # None /\ loc[p].scan.files[f].content \in Contents}
Unknown(p) == {f \in Paths : ~loc[p].root \/ (loc[p].scan.files[f] # None
                                              /\ loc[p].scan.files[f].content = Unreadable)}
RejectedIn(p) == {f \in Paths : loc[p].root /\ loc[p].scan.files[f] # None
                                /\ loc[p].scan.files[f].content = Rejected}
Existing(docs) == {f \in Paths : docs[f] # None}

(* positively_absent *)
Absent(p, docs) == (Existing(docs) \ Present(p)) \ Unknown(p)
Retained(p, docs) == (Existing(docs) \ Present(p)) \ Absent(p, docs)
NewScheme(p) == loc[p].scheme # loc[p].req.scheme

(* Mutant: a changed scheme does not stop at pages that were not read. *)
PlanRefusedKeepingScheme(p, docs) ==
    \/ /\ ~Full(p) /\ loc[p].root /\ Present(p) = {}
       /\ Existing(docs) \ RejectedIn(p) # {}
    \/ Full(p) /\ Unknown(p) \cup Retained(p, docs) # {}

(* IncompleteIncremental: an indexed corpus that is readable but empty;    *)
(* IncompleteFullRebuild: anything uninspected; IncompleteEmbeddingScheme: *)
(* pages kept from the old scheme.                                         *)
PlanRefused(p, docs) ==
    \/ /\ ~Full(p) /\ loc[p].root /\ Present(p) = {}
       /\ Existing(docs) \ RejectedIn(p) # {}
    \/ Full(p) /\ Unknown(p) \cup Retained(p, docs) # {}
    \/ ~Full(p) /\ NewScheme(p) /\ Retained(p, docs) # {}

(* Pages whose stored text is the scanned one; incremental mode keeps      *)
(* their chunks, provided the vectors are still there.                     *)
Unchanged(p, docs) ==
    IF Full(p) \/ NewScheme(p) THEN {}
    ELSE {f \in Present(p) : docs[f] # None /\ docs[f].hash = loc[p].scan.files[f].content}
MissingRefs(p, docs) == {f \in Unchanged(p, docs) : docs[f].key \notin cache}

Stale(p, docs) == (Present(p) \ Unchanged(p, docs)) \cup MissingRefs(p, docs)
Touched(p, docs) ==
    {f \in Present(p) \ Stale(p, docs) : docs[f].stamp # loc[p].scan.files[f].stamp}

(* Mutant: membership of the scanned directories is not looked at again. *)
SourcesCurrentPagesOnly(p) ==
    \A f \in loc[p].upserts \cup loc[p].metas : source[Proj(p)].files[f] = loc[p].scan.files[f]

(* revalidate_upserts (which also compares the directories above each      *)
(* page) and revalidate_deletion_namespaces.                               *)
SourcesCurrent(p) ==
    /\ \A f \in loc[p].upserts \cup loc[p].metas :
         source[Proj(p)].files[f] = loc[p].scan.files[f]
    /\ Full(p) \/ loc[p].upserts \cup loc[p].metas \cup loc[p].deletions # {}
         => source[Proj(p)].dir = loc[p].scan.dir

KeyFor(p, f) == <<loc[p].req.scheme, loc[p].scan.files[f].content>>
Requested(p) == {KeyFor(p, f) : f \in loc[p].upserts}
NeedsCommit(p, ups, metas) ==
    Full(p) \/ ups \cup metas \cup loc[p].deletions # {} \/ NewScheme(p)

-----------------------------------------------------------------------------
(* synchronize: scan_corpora, plan_synchronization, execute_sync_plan *)

Start(p) ==
    /\ pc[p] = "idle"
    /\ \E r \in Requests :
        /\ loc' = [loc EXCEPT ![p].req = r]
        /\ Goto(p, CASE r.op = "sync" -> "scan" [] r.op = "gc" -> "gc_lease"
                     [] r.op = "search" -> "open" [] r.op = "stats" -> "stats_lease")
    /\ NoFault
    /\ UNCHANGED <<source, store, leaseIno, held>>

(* The corpus as captured; or its directory could not be read, and then    *)
(* nothing is known of what it holds.                                      *)
Scan(p) ==
    /\ pc[p] = "scan"
    /\ \/ loc' = [loc EXCEPT ![p].scan = source[Proj(p)]] /\ NoFault
       \/ /\ loc' = [loc EXCEPT ![p].root = FALSE,
                       ![p].scan = [source[Proj(p)] EXCEPT !.files = [f \in Paths |-> None]]]
          /\ Fault
    /\ Goto(p, "plan")
    /\ UNCHANGED <<source, store, leaseIno, held>>

(* open_project refuses a database with a journal beside it; then the      *)
(* generation is read.                                                     *)
PlanOpen(p) ==
    /\ pc[p] = "plan"
    /\ IF Proj(p) \in journal THEN Return(p, "busy") /\ UNCHANGED loc
       ELSE /\ loc' = [loc EXCEPT ![p].gen = index[Proj(p)].gen]
            /\ Goto(p, "plan_scheme") /\ UNCHANGED held
    /\ NoFault
    /\ UNCHANGED <<source, store, leaseIno>>

(* The scheme and the documents are read by later statements of the same   *)
(* connection, each of which sees what is committed by then and rolls back *)
(* the journal of a process that died.                                     *)
PlanScheme(p) ==
    /\ pc[p] = "plan_scheme"
    /\ loc' = [loc EXCEPT ![p].scheme = index[Proj(p)].scheme]
    /\ Goto(p, "plan_docs")
    /\ journal' = IF \E q \in Procs : Writing(q, Proj(p)) THEN journal ELSE journal \ {Proj(p)}
    /\ NoFault
    /\ UNCHANGED <<source, index, cache, damaged, quarantines, lost, leaseIno, held>>

PlanDocs(p) ==
    /\ pc[p] = "plan_docs"
    /\ LET docs == index[Proj(p)].docs
       IN IF PlanRefused(p, docs) THEN Return(p, "refused") /\ UNCHANGED loc
          ELSE IF damaged /\ Unchanged(p, docs) # {} THEN Return(p, "failed") /\ UNCHANGED loc
          ELSE IF (Full(p) \/ Absent(p, docs) # {}) /\ source[Proj(p)].dir # loc[p].scan.dir
          THEN Return(p, "changed") /\ UNCHANGED loc
          ELSE /\ loc' = [loc EXCEPT ![p].docs = docs,
                            ![p].upserts = Stale(p, docs), ![p].metas = Touched(p, docs),
                            ![p].deletions = Absent(p, docs), ![p].refs = Unchanged(p, docs)]
               /\ Goto(p, "exec") /\ UNCHANGED held
    /\ journal' = IF \E q \in Procs : Writing(q, Proj(p)) THEN journal ELSE journal \ {Proj(p)}
    /\ NoFault
    /\ UNCHANGED <<source, index, cache, damaged, quarantines, lost, leaseIno>>

ExecCheck(p) ==
    /\ pc[p] = "exec"
    /\ IF Proj(p) \in journal THEN Return(p, "busy") /\ UNCHANGED loc
       ELSE IF ~Preconditions(p) THEN Return(p, "changed") /\ UNCHANGED loc
       ELSE /\ loc' = [loc EXCEPT ![p].losses = losses]
            /\ IF loc[p].refs # {} THEN Goto(p, "recheck") /\ UNCHANGED held
               ELSE IF NeedsCommit(p, loc[p].upserts, loc[p].metas)
               THEN Goto(p, "embed") /\ UNCHANGED held
               ELSE Return(p, "ok")
    /\ NoFault
    /\ UNCHANGED <<source, store, leaseIno>>

(* Mutant: the vectors of unchanged pages are not looked up again. *)
RecheckSkipped(p) ==
    /\ pc[p] = "recheck"
    /\ loc' = [loc EXCEPT ![p].losses = losses]
    /\ IF NeedsCommit(p, loc[p].upserts, loc[p].metas)
       THEN Goto(p, "embed") /\ UNCHANGED held
       ELSE Return(p, "ok")
    /\ NoFault
    /\ UNCHANGED <<source, store, leaseIno>>

(* The vectors of unchanged pages, under a lease of its own that is        *)
(* dropped again: pages that lost theirs are replaced too.                 *)
Recheck(p) ==
    /\ pc[p] = "recheck"
    /\ IF ~Compatible(p, "exclusive") THEN Return(p, "busy") /\ UNCHANGED loc
       ELSE IF damaged THEN Return(p, "failed") /\ UNCHANGED loc
       ELSE LET gone == {f \in loc[p].refs : loc[p].docs[f].key \notin cache}
                ups == loc[p].upserts \cup gone
                metas == loc[p].metas \ gone
            IN /\ loc' = [loc EXCEPT ![p].upserts = ups, ![p].metas = metas, ![p].losses = losses]
               /\ IF NeedsCommit(p, ups, metas) THEN Goto(p, "embed") /\ UNCHANGED held
                  ELSE Return(p, "ok")
    /\ NoFault
    /\ UNCHANGED <<source, store, leaseIno>>

(* Lookup and embedding outside the lease, then the first revalidation. *)
Embed(p) ==
    /\ pc[p] = "embed"
    /\ \/ /\ IF damaged /\ Requested(p) # {} THEN Return(p, "failed") /\ UNCHANGED loc
             ELSE IF ~SourcesCurrent(p) THEN Return(p, "changed") /\ UNCHANGED loc
             ELSE /\ loc' = [loc EXCEPT ![p].missing = Requested(p) \ cache]
                  /\ Goto(p, "lease") /\ UNCHANGED held
          /\ NoFault
       \/ Fault /\ Return(p, "failed") /\ UNCHANGED loc
    /\ UNCHANGED <<source, store, leaseIno>>

SyncLease(p) == AcquireLease(p, "lease", "exclusive", "insert")

(* Mutant: what was cached before the lease is not looked up again. *)
InsertMissingOnly(p) ==
    /\ pc[p] = "insert"
    /\ IF Proj(p) \in journal \/ ~Preconditions(p) \/ damaged
       THEN Return(p, "failed") /\ UNCHANGED <<cache, lost>>
       ELSE /\ cache' = cache \cup loc[p].missing /\ lost' = lost \ loc[p].missing
            /\ Goto(p, "begin") /\ UNCHANGED held
    /\ NoFault
    /\ UNCHANGED <<source, index, journal, damaged, quarantines, leaseIno, loc>>

(* Under the lease: preconditions again, then every requested key is       *)
(* looked up, embedded and inserted if absent, and verified.               *)
InsertVectors(p) ==
    /\ pc[p] = "insert"
    /\ \/ /\ Proj(p) \notin journal /\ Preconditions(p) /\ (damaged => Requested(p) = {})
          /\ cache' = cache \cup Requested(p) /\ lost' = lost \ Requested(p)
          /\ Goto(p, "begin") /\ UNCHANGED held
          /\ NoFault
       \/ /\ Return(p, IF Proj(p) \in journal THEN "busy"
                       ELSE IF Preconditions(p) THEN "failed" ELSE "changed")
          /\ (Proj(p) \in journal \/ ~Preconditions(p) \/ (damaged /\ Requested(p) # {}))
          /\ NoFault
          /\ UNCHANGED <<cache, lost>>
       \/ Fault /\ Return(p, "failed") /\ UNCHANGED <<cache, lost>>
    /\ UNCHANGED <<source, index, journal, damaged, quarantines, leaseIno, loc>>

(* Mutant: the next generation is not checked for overflow. *)
BeginWrapping(p) ==
    /\ pc[p] = "begin"
    /\ IF ~LeaseCurrent(p) \/ (\E q \in Procs : Writing(q, Proj(p)))
           \/ ~SourcesCurrent(p) \/ ~Preconditions(p)
       THEN Return(p, "busy") /\ UNCHANGED journal
       ELSE /\ journal' = journal \cup {Proj(p)}
            /\ Goto(p, "final") /\ UNCHANGED held
    /\ NoFault
    /\ UNCHANGED <<source, index, cache, damaged, quarantines, lost, leaseIno, loc>>

(* Lease and sources once more, the next generation, BEGIN IMMEDIATE, the  *)
(* preconditions inside it, and the writes, which create the journal.      *)
Begin(p) ==
    /\ pc[p] = "begin"
    /\ IF ~LeaseCurrent(p) THEN Return(p, "busy") /\ UNCHANGED journal
       ELSE IF ~SourcesCurrent(p) THEN Return(p, "changed") /\ UNCHANGED journal
       ELSE IF loc[p].gen = MaxGen THEN Return(p, "failed") /\ UNCHANGED journal
       ELSE IF \E q \in Procs : Writing(q, Proj(p)) THEN Return(p, "busy") /\ UNCHANGED journal
       ELSE IF ~Preconditions(p) THEN Return(p, "changed") /\ UNCHANGED journal
       ELSE /\ journal' = journal \cup {Proj(p)}
            /\ Goto(p, "final") /\ UNCHANGED held
    /\ NoFault
    /\ UNCHANGED <<source, index, cache, damaged, quarantines, lost, leaseIno, loc>>

(* The last revalidation; an error rolls the transaction back. *)
FinalRevalidation(p) ==
    /\ pc[p] = "final"
    /\ IF SourcesCurrent(p) /\ LeaseCurrent(p)
       THEN Goto(p, "commit") /\ UNCHANGED <<held, journal>>
       ELSE /\ Return(p, IF SourcesCurrent(p) THEN "busy" ELSE "changed")
            /\ journal' = journal \ {Proj(p)}
    /\ NoFault
    /\ UNCHANGED <<source, index, cache, damaged, quarantines, lost, leaseIno, loc>>

(* clear_project or delete_page, upsert_page, update_page_metadata. *)
NewDoc(p, f) ==
    LET file == loc[p].scan.files[f] old == index[Proj(p)].docs[f]
    IN IF f \in loc[p].upserts
       THEN [hash |-> file.content, key |-> KeyFor(p, f), stamp |-> file.stamp]
       ELSE IF Full(p) \/ f \in loc[p].deletions \/ old = None THEN None
       ELSE IF f \in loc[p].metas
       THEN [old EXCEPT !.hash = file.content, !.stamp = file.stamp]
       ELSE old

Publish(p) ==
    index' = [index EXCEPT ![Proj(p)] =
                [gen |-> loc[p].gen + 1, scheme |-> loc[p].req.scheme,
                 docs |-> [f \in Paths |-> NewDoc(p, f)]]]

(* Mutant: commit goes past open snapshots. *)
CommitPastReaders(p) ==
    /\ pc[p] = "commit"
    /\ Publish(p) /\ Return(p, "ok")
    /\ journal' = journal \ {Proj(p)}
    /\ NoFault
    /\ UNCHANGED <<source, cache, damaged, quarantines, lost, leaseIno, loc>>

(* A rollback-journal database commits only when no reader has it open;    *)
(* when one outlasts the busy timeout the transaction is rolled back.      *)
Commit(p) ==
    /\ pc[p] = "commit"
    /\ \/ ~(\E q \in Procs : Reading(q, Proj(p))) /\ Publish(p) /\ Return(p, "ok")
       \/ (\E q \in Procs : Reading(q, Proj(p))) /\ Return(p, "busy") /\ UNCHANGED index
    /\ journal' = journal \ {Proj(p)}
    /\ NoFault
    /\ UNCHANGED <<source, cache, damaged, quarantines, lost, leaseIno, loc>>

-----------------------------------------------------------------------------
(* gc *)

(* Without a cache there is nothing to collect, and no lease to take. *)
GcAbsent(p) ==
    /\ pc[p] = "gc_lease"
    /\ cache = {} /\ ~damaged
    /\ Return(p, "ok")
    /\ NoFault
    /\ UNCHANGED <<source, store, leaseIno, loc>>

GcLease(p) == AcquireLease(p, "gc_lease", "exclusive", "gc_initial")

(* cached_keys; a cache that cannot be read is set aside, bytes and all,   *)
(* as long as there is a free name for it; one that only failed that once  *)
(* stays, and the collection ends.                                         *)
GcInitial(p) ==
    /\ pc[p] = "gc_initial"
    /\ \/ /\ ~damaged /\ NoFault
          /\ loc' = [loc EXCEPT ![p].initial = cache]
          /\ Goto(p, "gc_first") /\ UNCHANGED <<held, damaged, quarantines>>
       \/ /\ ~damaged /\ Fault
          /\ Return(p, "failed") /\ UNCHANGED <<damaged, quarantines, loc>>
       \/ /\ damaged /\ quarantines < MaxQuarantines /\ NoFault
          /\ damaged' = FALSE /\ quarantines' = quarantines + 1
          /\ Goto(p, "gc_first") /\ UNCHANGED <<held, loc>>
       \/ /\ damaged /\ quarantines >= MaxQuarantines /\ NoFault
          /\ Return(p, "failed") /\ UNCHANGED <<damaged, quarantines, loc>>
    /\ UNCHANGED <<source, index, journal, cache, lost, leaseIno>>

(* live_keys, twice: an index that cannot be read ends the collection. *)
GcLive(p) ==
    /\ pc[p] \in {"gc_first", "gc_second"}
    /\ IF journal # {} THEN Return(p, "failed") /\ UNCHANGED loc
       ELSE /\ loc' = [loc EXCEPT ![p].live = @ \cup Published]
            /\ Goto(p, IF pc[p] = "gc_first" THEN "gc_second" ELSE "gc_sweep")
            /\ UNCHANGED held
    /\ NoFault
    /\ UNCHANGED <<source, store, leaseIno>>

(* sweep_snapshot; the lease is revalidated before its commit. *)
GcSweep(p) ==
    /\ pc[p] = "gc_sweep"
    /\ IF damaged THEN Return(p, "failed") /\ UNCHANGED cache
       ELSE IF ~LeaseCurrent(p) THEN Return(p, "busy") /\ UNCHANGED cache
       ELSE /\ cache' = cache \ (loc[p].initial \ loc[p].live)
            /\ Return(p, "ok")
    /\ NoFault
    /\ UNCHANGED <<source, index, journal, damaged, quarantines, lost, leaseIno, loc>>

-----------------------------------------------------------------------------
(* search and stats *)

(* Mutant: contention is retried for as long as it lasts. *)
AgainForever(p, step) == Goto(p, step) /\ UNCHANGED <<loc, held>>

(* retry_transient_store *)
Again(p, step) ==
    IF loc[p].tries + 1 < MaxTries
    THEN /\ loc' = [loc EXCEPT ![p].tries = @ + 1, ![p].snap = None]
         /\ pc' = [pc EXCEPT ![p] = step] /\ held' = [held EXCEPT ![p] = None]
         /\ UNCHANGED out
    ELSE Return(p, "busy") /\ UNCHANGED loc

(* open_index and RetrievalSnapshot::begin: one read transaction; without  *)
(* a scheme nothing was ever indexed.                                      *)
SearchOpen(p) ==
    /\ pc[p] = "open"
    /\ IF Proj(p) \in journal THEN Again(p, "open")
       ELSE IF index[Proj(p)].scheme = None THEN Return(p, "refused") /\ UNCHANGED loc
       ELSE /\ loc' = [loc EXCEPT ![p].snap = index[Proj(p)]]
            /\ Goto(p, "lookup") /\ UNCHANGED held
    /\ NoFault
    /\ UNCHANGED <<source, store, leaseIno>>

(* The query is embedded, the cache opened without any lease, and, if the  *)
(* embedder's scheme is the snapshot's, every vector of the snapshot is    *)
(* wanted (dense_candidates).  Some damage looks transient and is tried    *)
(* again, some does not.                                                   *)
SearchLookup(p) ==
    /\ pc[p] = "lookup"
    /\ \/ /\ ~damaged
          /\ Return(p, IF loc[p].snap.scheme # loc[p].req.scheme THEN "refused"
                       ELSE IF KeysOf(loc[p].snap.docs) \subseteq cache THEN "ok" ELSE "missing")
          /\ UNCHANGED loc /\ NoFault
       \/ damaged /\ Again(p, "open") /\ NoFault
       \/ damaged /\ Return(p, "failed") /\ UNCHANGED loc /\ NoFault
       \/ Fault /\ Return(p, "failed") /\ UNCHANGED loc
    /\ UNCHANGED <<source, store, leaseIno>>

StatsLease(p) ==
    /\ pc[p] = "stats_lease"
    /\ \/ /\ Compatible(p, "shared")
          /\ held' = [held EXCEPT ![p] = [ino |-> leaseIno, mode |-> "shared"]]
          /\ Goto(p, "stats_read") /\ UNCHANGED loc
       \/ ~Compatible(p, "shared") /\ Again(p, "stats_lease")
    /\ NoFault
    /\ UNCHANGED <<source, store, leaseIno>>

StatsRead(p) ==
    /\ pc[p] = "stats_read"
    /\ IF Proj(p) \in journal THEN Again(p, "stats_lease")
       ELSE Return(p, IF damaged THEN "failed" ELSE "ok") /\ UNCHANGED loc
    /\ NoFault
    /\ UNCHANGED <<source, store, leaseIno>>

-----------------------------------------------------------------------------
(* The environment *)

Crash(p) ==
    /\ Running(p) /\ crashes < MaxCrashes
    /\ crashes' = crashes + 1
    /\ pc' = [pc EXCEPT ![p] = "dead"]
    /\ held' = [held EXCEPT ![p] = None]
    /\ UNCHANGED <<source, store, leaseIno, loc, out, losses, edits, faults>>

OutsideLastWindow == FinalRace \/ \A p \in Procs : pc[p] # "commit"

(* A page is edited in place, added, or deleted (c = None); adding and     *)
(* deleting change the directory too.                                      *)
Edit(j, f) ==
    /\ "edit" \in EnvOps /\ OutsideLastWindow /\ edits < MaxEdits
    /\ edits' = edits + 1
    /\ \E c \in Contents \cup {Rejected, Unreadable, None} :
         LET old == source[j].files[f]
         IN /\ ~(old = None /\ c = None)
            /\ source' = [source EXCEPT ![j] =
                 [dir |-> IF old = None \/ c = None THEN edits + 1 ELSE source[j].dir,
                  files |-> [source[j].files EXCEPT ![f] =
                               IF c = None THEN None ELSE [content |-> c, stamp |-> edits + 1]]]]
    /\ UNCHANGED <<store, leaseIno, held, pc, loc, out, losses, faults, crashes>>

(* The cache file is deleted, or damaged. *)
LoseCache ==
    /\ losses < MaxLosses /\ losses' = losses + 1
    /\ \/ "delete_cache" \in EnvOps /\ damaged' = FALSE
       \/ "damage_cache" \in EnvOps /\ damaged' = TRUE
    /\ cache' = {} /\ lost' = lost \cup cache
    /\ UNCHANGED <<source, index, journal, quarantines, leaseIno, held, pc, loc, out, edits, faults,
                   crashes>>

(* The lease file is replaced under the processes that hold it. *)
RebindLease ==
    /\ "rebind" \in EnvOps /\ OutsideLastWindow
    /\ losses < MaxLosses /\ losses' = losses + 1
    /\ leaseIno' = leaseIno + 1
    /\ UNCHANGED <<source, store, held, pc, loc, out, edits, faults, crashes>>

(* The user lets SQLite roll back the journal a dead process left. *)
Recover(j) ==
    /\ "recover" \in EnvOps /\ j \in journal
    /\ ~(\E p \in Procs : Writing(p, j))
    /\ journal' = journal \ {j}
    /\ UNCHANGED <<source, index, cache, damaged, quarantines, lost, leaseIno, held, pc, loc, out,
                   losses, edits, faults, crashes>>

Process(p) ==
    \/ Start(p) \/ Scan(p) \/ PlanOpen(p) \/ PlanScheme(p) \/ PlanDocs(p) \/ ExecCheck(p)
    \/ Recheck(p) \/ Embed(p) \/ SyncLease(p) \/ InsertVectors(p) \/ Begin(p)
    \/ FinalRevalidation(p) \/ Commit(p)
    \/ GcAbsent(p) \/ GcLease(p) \/ GcInitial(p) \/ GcLive(p) \/ GcSweep(p)
    \/ SearchOpen(p) \/ SearchLookup(p) \/ StatsLease(p) \/ StatsRead(p)

Environment ==
    \/ \E j \in Projects, f \in Paths : Edit(j, f)
    \/ LoseCache \/ RebindLease
    \/ \E j \in Projects : Recover(j)

Terminated == (\A p \in Procs : pc[p] \in {"done", "dead"}) /\ UNCHANGED vars

Next ==
    \/ \E p \in Procs : Process(p) \/ Crash(p)
    \/ Environment
    \/ Terminated

Spec == Init /\ [][Next]_vars
FairSpec == Spec /\ \A p \in Procs : WF_vars(Process(p))

-----------------------------------------------------------------------------
(* Properties *)

(* What an operation knows at each step of its way. *)
ProcessOK(p) ==
    /\ pc[p] \in SyncSteps => loc[p].req \in Requests /\ loc[p].req.op = "sync"
    /\ pc[p] \in SyncSteps \ {"scan"} => loc[p].scan \in Corpus
    /\ pc[p] \in PlannedSteps => /\ loc[p].docs \in [Paths -> Doc \cup {None}]
                                 /\ loc[p].upserts \cup loc[p].metas \cup loc[p].refs
                                      \subseteq Present(p)
    /\ pc[p] \in {"final", "commit"} => loc[p].gen < MaxGen
    /\ pc[p] \in ReadSteps => loc[p].req \in Requests /\ loc[p].req.op \in {"search", "stats"}
    /\ pc[p] = "lookup" => loc[p].snap \in Index

(* Every variable keeps its type, the generation its range, and every      *)
(* process has what its next step reads.                                   *)
TypeOK ==
    /\ source \in [Projects -> Corpus]
    /\ index \in [Projects -> Index]
    /\ journal \subseteq Projects /\ damaged \in BOOLEAN /\ quarantines \in 0 .. MaxQuarantines
    /\ cache \subseteq Keys /\ lost \subseteq Keys
    /\ leaseIno \in Nat
    /\ held \in [Procs -> [ino : Nat, mode : {"shared", "exclusive"}] \cup {None}]
    /\ pc \in [Procs -> Steps \cup {"idle", "done", "dead"}]
    /\ loc \in [Procs -> Loc]
    /\ out \in [Procs -> Results]
    /\ losses \in 0 .. MaxLosses /\ edits \in 0 .. MaxEdits
    /\ faults \in 0 .. MaxFaults /\ crashes \in 0 .. MaxCrashes
    /\ \A p \in Procs : ProcessOK(p)

(* Every chunk of every published index has its vector in the cache,       *)
(* unless the cache itself was destroyed since: garbage collection never   *)
(* takes a vector that a concurrent synchronization found cached, and      *)
(* publication never outruns the vectors it needs.                         *)
NoDanglingVectors == Published \subseteq cache \cup lost

(* A search reads the cache without the lease.  All the same every vector  *)
(* of the index snapshot it has open stays cached until it is done, so     *)
(* `MissingVector` is only ever reported of a cache that was destroyed.    *)
OpenSnapshotsKeepTheirVectors ==
    \A p \in Procs : pc[p] = "lookup" => KeysOf(loc[p].snap.docs) \subseteq cache \cup lost

(* The strengthening that makes both inductive (see IndexStoreProofs).     *)
(* The lease is exclusive per inode, never newer than the file's name, and *)
(* current at every commit; under a current lease the vectors a process    *)
(* verified stay cached, and the live keys a collection gathered cover     *)
(* everything published; a snapshot open is still the index.               *)
LeaseInv ==
    \A p \in Procs :
        /\ held[p] # None => held[p].ino <= leaseIno
        /\ pc[p] \in {"insert", "begin", "final", "commit"} \cup (GcSteps \ {"gc_lease"})
             => held[p] # None /\ held[p].mode = "exclusive"
        /\ pc[p] = "commit" => LeaseCurrent(p)
        /\ \A q \in Procs \ {p} :
             held[p] # None /\ held[q] # None /\ held[p].ino = held[q].ino
                => held[p].mode = "shared" /\ held[q].mode = "shared"

VectorsInv ==
    \A p \in Procs :
        /\ pc[p] \in {"begin", "final", "commit"} /\ LeaseCurrent(p)
             => Requested(p) \subseteq cache \cup lost
        /\ pc[p] \in {"gc_second", "gc_sweep"} /\ LeaseCurrent(p) => Published \subseteq loc[p].live

SnapshotInv == \A p \in Procs : pc[p] = "lookup" => loc[p].snap = index[Proj(p)]

(* The stored text of a page and its chunks belong together, and all       *)
(* chunks of an index were embedded under the one scheme it is stamped     *)
(* with: a metadata-only renewal never covers a changed text, and a change *)
(* of scheme never leaves pages of the old one behind.                     *)
IndexIsUniform ==
    \A j \in Projects, f \in Paths :
        index[j].docs[f] # None => index[j].docs[f].key = <<index[j].scheme, index[j].docs[f].hash>>

(* An index changes only when a process commits, one generation at a time, *)
(* and what it replaces is exactly the documents its plan was computed     *)
(* from: no synchronization overwrites a result it has not seen.           *)
PublishReplacesItsBase ==
    [][\A j \in Projects :
         index'[j] # index[j] =>
            /\ index'[j].gen = index[j].gen + 1
            /\ \E p \in Procs : pc[p] = "commit" /\ Proj(p) = j /\ loc[p].docs = index[j].docs]_vars

(* The strengthening behind it: generations only grow, a plan whose        *)
(* generation is still the index's has the index's documents, a writer's   *)
(* generation is the index's, and a database has one writer.               *)
PlanOK(p) ==
    /\ pc[p] \in {"plan_scheme", "plan_docs"} \cup PlannedSteps => loc[p].gen <= index[Proj(p)].gen
    /\ pc[p] \in PlannedSteps =>
          (loc[p].gen = index[Proj(p)].gen => loc[p].docs = index[Proj(p)].docs)
    /\ pc[p] \in {"final", "commit"} => loc[p].gen = index[Proj(p)].gen
PlanInv ==
    \A p \in Procs :
        /\ PlanOK(p)
        /\ \A q \in Procs \ {p} :
             pc[p] \in {"final", "commit"} /\ pc[q] \in {"final", "commit"} => Proj(p) # Proj(q)

(* What a publication adds or renews is what the disk holds at that        *)
(* moment, and what it removes is not there, or was scanned as a file      *)
(* that cannot be indexed; what could not be read stays.                   *)
PublishesTheDisk ==
    [][\A j \in Projects, f \in Paths :
         LET old == index[j].docs[f] new == index'[j].docs[f] file == source[j].files[f]
         IN new # old =>
              IF new # None
              THEN file = [content |-> new.hash, stamp |-> new.stamp]
              ELSE \/ file = None
                   \/ \E p \in Procs : pc[p] = "commit" /\ Proj(p) = j /\ f \in RejectedIn(p)]_vars

(* The strengthening behind IndexIsUniform and PublishesTheDisk.  A page a *)
(* plan leaves alone is under the scheme at hand and, if its metadata is   *)
(* renewed, has the scanned text; what the plan removes was seen to be     *)
(* absent or rejected; an indexed page that was read is replaced or kept   *)
(* as a reference.                                                         *)
PlanContents(p) ==
    pc[p] \in PlannedSteps =>
        /\ \A f \in Existing(loc[p].docs) \ (loc[p].upserts \cup loc[p].deletions) :
             \/ Full(p)
             \/ /\ ~NewScheme(p)
                /\ f \in loc[p].metas => loc[p].docs[f].hash = loc[p].scan.files[f].content
        /\ \A f \in Existing(loc[p].docs) \ loc[p].upserts :
             Full(p) \/ f \in loc[p].deletions =>
                loc[p].root /\ (loc[p].scan.files[f] = None \/ f \in RejectedIn(p))
        /\ Present(p) \cap Existing(loc[p].docs) \subseteq loc[p].upserts \cup loc[p].refs
PlannedInv ==
    \A p \in Procs :
        /\ PlanContents(p)
        /\ pc[p] \in {"final", "commit"} => loc[p].scheme = index[Proj(p)].scheme

(* A directory stamp is never used twice, so an equal one means the same   *)
(* entries; the sources are as planned when a process commits.             *)
ScanOK(p) ==
    /\ loc[p].scan.dir <= edits
    /\ loc[p].root /\ loc[p].scan.dir = source[Proj(p)].dir =>
          \A f \in Paths : loc[p].scan.files[f] = None <=> source[Proj(p)].files[f] = None
DiskInv ==
    /\ \A j \in Projects : source[j].dir <= edits
    /\ \A p \in Procs : /\ pc[p] \in SyncSteps \ {"scan"} => ScanOK(p)
                        /\ pc[p] = "commit" => SourcesCurrent(p)

(* A synchronization that reports success leaves the project searchable:   *)
(* the pages it read that are in the index as it planned or published them *)
(* have their vectors, if no loss came after its last look, even when the  *)
(* cache was lost or set aside before.  (With nothing to publish it does   *)
(* not look at the index again: of a page that another synchronization     *)
(* published meanwhile its report, of the generation it planned from, says *)
(* nothing.)                                                               *)
SuccessMeansSearchable ==
    [][\A p \in Procs :
         pc[p] \in {"exec", "recheck", "commit"} /\ out'[p] = "ok" /\ losses = loc'[p].losses =>
            \A f \in Present(p) :
                LET doc == index'[Proj(p)].docs[f]
                IN doc # None /\ (pc[p] = "commit" \/ doc = loc[p].docs[f]) => doc.key \in cache]_vars

(* The strengthening behind it: until the next loss the vectors of the     *)
(* pages a plan keeps stay cached while the index is the one planned from, *)
(* and those it needs once they are verified, while its lease is current;  *)
(* a running operation has not reported.                                   *)
Searchable(p) ==
    pc[p] \in PlannedSteps \ {"exec", "recheck"} /\ losses = loc[p].losses =>
        /\ loc[p].gen = index[Proj(p)].gen =>
             \A f \in (Present(p) \cap Existing(loc[p].docs)) \ loc[p].upserts :
                loc[p].docs[f].key \in cache
        /\ pc[p] \in {"begin", "final", "commit"} /\ LeaseCurrent(p) => Requested(p) \subseteq cache
SearchableInv ==
    \A p \in Procs : /\ loc[p].losses <= losses
                     /\ pc[p] \in Steps \cup {"idle"} => out[p] = "none"
                     /\ Searchable(p)

(* Every operation that starts ends: lease waits, retries and transactions *)
(* are bounded, whatever the others do and whoever is killed.              *)
EveryOperationEnds ==
    \A p \in Procs : (pc[p] \in Steps) ~> (pc[p] \in {"done", "dead"})
=============================================================================
