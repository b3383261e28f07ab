# Yams: a TLA+ verification project

Yams keeps a project's knowledge as Markdown pages in the repository
(`.agents/memory/`) and makes them searchable offline.  What in it is hard to
get right and hard to test is what several processes, a person's editor, failing
system calls, kills and power cuts can do to it: **the wiki's durable writes**
(`yams-wiki write`, `yams-wiki catalog`); **init**, which applies several file
operations and undoes them when one fails; **the search store**, where
synchronization, garbage collection and search share one vector cache under a
file lease, and where racing processes create and migrate databases; **the
local service**, whose clients fall back to executing a request themselves; and
the locks, logs and caches around them.  This directory models these, checks
them with TLC, and proves with TLAPS, for every number of processes, what matters
most: that the two file locks implement one abstract lock, and the main safety
properties of the wiki's writes, the store, the service and its socket, and the
openers, logs and caches.

| file | what it is |
|---|---|
| `WikiWrite.tla` | page writes and catalog regeneration of `yams-wiki` |
| `MCWikiWrite.tla`, `WikiWrite*.cfg` | its instances for TLC |
| `WikiWriteProofs.tla` | proofs of its safety properties |
| `IndexStore.tla` | synchronization, garbage collection, search and statistics of `yams-store` |
| `MCIndexStore.tla`, `IndexStore*.cfg` | its instances for TLC |
| `IndexStoreProofs.tla` | proof of its type invariant |
| `IndexStoreSafety.tla` | proofs of its safety properties |
| `Service.tla` | the service loop, its workers and its clients |
| `MCService.tla`, `Service{Requests,Ends,Fallback}.cfg` | its instances for TLC |
| `ServiceProofs.tla` | proofs of its safety properties |
| `ServiceSocket.tla` | services that compete for one socket name |
| `MCServiceSocket.tla`, `ServiceSocketReuse.cfg` | an instance for TLC (the other is in `MCLocks`) |
| `NamedLock.tla` | what a lock on a file name promises: the abstract specification |
| `WikiLock.tla`, `ConstructionLock.tla` | the wiki's write lock and the model construction slots, which implement it |
| `MCLocks.tla`, `Locks.cfg` | the two locks and the socket for TLC |
| `LockProofs.tla` | proofs that the two locks implement it, and about the socket name |
| `WikiInit.tla` | inspect, plan, apply and recovery of `yams-wiki init` |
| `WikiInitProofs.tla` | its core invariant, and that it spares foreign work, proved |
| `WikiInitSafety.tla` | proofs about what it reports |
| `StoreOpen.tla` | racing openers of a project index or the vector cache |
| `ModelCache.tla` | loading and downloading the embedding model |
| `QueryLog.tla` | the query log |
| `MCWikiInit.tla`, `MCFiles.tla`, `Files.cfg` | these four for TLC |
| `FilesProofs.tla` | proofs about the last three |
| `PROJECT.json` | components, runs, the map from definitions to source lines, hazards, findings, theorems |

Check a run with `tlc -config WikiWriteRaces.cfg MCWikiWrite`, the proofs with
`tlapm IndexStoreSafety.tla`.

## 1. Inventory

State each part keeps, its operations, and who it interacts with.  Paths are
under `src/crates/`.

**Wiki (yams-wiki).**  A corpus directory holds `pages/*.md`, the generated
catalog `INDEX.md` and `.write.lock`.
- `write.rs`: `create` and `update` of one page.  Takes the exclusive lock,
  proves `INDEX.md` canonical, resolves the target, writes and flushes a
  temporary, installs it (`linkat` for create, `renameat` for update), flushes
  the directory, then calls `durable.rs` to regenerate the catalog.
- `durable.rs`: captures all pages and `INDEX.md`, rebuilds the catalog
  (`index.rs`), revalidates everything captured, replaces `INDEX.md` through a
  flushed temporary.  Also adoption of a legacy layout and a check-only mode.
- `lock.rs`: `flock` on `.write.lock` with a ten-second timeout, and a guard
  that can prove its name still leads to the locked inode.
- `schema.rs`, `index.rs`, `check.rs`: parsing, rendering and checking pages
  and catalog; no state.
- `init/`: inspect (read the repository, classify its layout, digest it), plan
  (build a candidate tree in a temporary directory and the operations that lead
  to it), apply (check the digest and every prestate, carry the operations out
  one by one with a journal in memory, validate the result, and undo in reverse
  when anything fails).
- Hard: people edit the same files without the lock; any call can fail; a kill
  or a power cut can strike between any two.  Correct means: no edit lost, no
  page overwritten by a create, answers that are true, success that is durable,
  nothing torn, every command ends.  For init: success leaves the approved tree,
  failure leaves what was there or says what remains, and nobody's edit is
  undone with it.

**Search store (yams-store).**  One SQLite database per project (documents,
chunks, generation, embedding scheme) and one vector cache shared by all.
- `sync.rs`: scan, plan, embed, insert vectors, publish in one transaction;
  incremental or full rebuild.
- `vector.rs`: lookup, insertion, sweep, the mutation lease.
- `management.rs`: garbage collection with quarantine of a damaged cache,
  statistics, reindex, inventory.
- `retrieve.rs`: a read transaction for a search.
- `secure.rs`, `project.rs`, `schema.rs`: opening files safely, the lease file,
  creation and migration of databases.
- Hard: vectors are inserted before the index that refers to them is
  published; gc decides from indexes it reads; searches take no lease; pages
  change while they are embedded; processes die inside a transaction.  Correct
  means: no index refers to a vector that is gone, no publication overwrites
  one it has not seen, what is published is what the disk holds, success means
  searchable, everything ends; an opener gets the store it pinned, at the current
  schema, and racing openers do not fail each other.

**Core (yams-core).**  `scan*`: what is in a corpus, with revisions that can be
revalidated.  `chunk`, `frontmatter`, `rank`, `select`, `search`, `snippet`:
pure.  `query_log`: one line appended to a log the user has made, without a
lock, while it may be rotated.

**Command line (yams-cli).**  `direct.rs` runs an operation in process, with
bounded retries on contention; `client.rs` asks the service first and falls
back.  `args`, `render`, `layout`, `fault`: text.

**Service (yams-service, yams-protocol).**  A Unix socket, one framed request
per connection.
- `service.rs`: one loop accepts connections, reads requests without blocking
  (64 pending at most, two seconds each), hands complete ones to worker threads
  (8 at most), receives their completions over a channel and a pipe, and stops
  on request or when idle, waiting thirty seconds for its workers.
- `socket.rs`: the socket's name: bind, probe for a live owner, removal of a
  stale one, cleanup, under a lock on the parent directory.
- `frame.rs`, `json.rs`, `message.rs`: frames, deadlines, strict decoding.
- Hard: clients hang up, stay silent or time out anywhere; a stop request races
  admission; services overlap in time.  Correct means: a request is executed
  once, a refusal is final, no slot is lost, shutdown drains and ends, a live
  service keeps its name.

**Embedding (yams-embed).**  `jina.rs` loads five artifacts of the pinned model
from the Hugging Face cache, downloads them at most once, and verifies their
digest; `construction_lock.rs` lets two processes construct at a time.  Correct
means: no model of mixed or foreign parts, never more than two builders, no
endless wait.

**yams-fs, yams-runtime.**  System call helpers and paths.

`PROJECT.json` lists the hazards of this code line by line, each with the
properties that would catch it.

## 2. WikiWrite

**State.**  `pages` maps a slug to a node (inode, stamp, link count, summary,
who wrote it, whether its bytes were flushed); `index` is `INDEX.md` as its
shape (one marked region, legacy layout, or neither), the hand-written text
around the catalog (`head`) and the catalog itself, a function from slugs to
summaries.  `dpages` and `dindex` are what a power cut leaves at the least.
`tmp` is each process's temporary, `lockIno` and `held` are the lock,
`pc`, `loc` and `out` a process's step, what it has read and what it answered.

**Actions.**  One action per system call others can see, or per capture that
the code proves stable:

| code | actions |
|---|---|
| `write_json`, `parse_input` | `Start` |
| `acquire_lock` | `Acquire`, `LockRefused` |
| `canonical_digest_locked`, `reindex_from_fd` | `ReadIndex`, `CaptureInputs`, `ValidateRead` |
| `locked_create`, `locked_update` | `ResolveTarget` |
| `install_create`, `install_update` | `CreateTemporary`, `WriteTemporary`, `CheckTarget`, `LinkPage` or `RenamePage`, `UnlinkTemporary`, `SyncPages` |
| `finish_index`, `write_and_replace` | `ReadIndex`, `CaptureInputs`, `CreateTemporary`, `WriteTemporary`, `ValidateReplace`, `RenameIndex`, `SyncIndex` |
| `cleanup_temporary`, `page_failure` | `CleanupTemporary` |

A failing call is a disjunct guarded by `Fault` (at most `MaxFaults`).  The
environment kills processes (`Crash`), cuts the power (`PowerLoss`), edits
pages and `INDEX.md`, and replaces the lock file.

**Abstractions.**  File metadata is one stamp, new on every change, so the
resolution of timestamps is not modelled.  A capture that compares metadata
before and after reading is atomic.  Rebinding of the pages directory or of a
temporary and failing `stat` calls are `Fault`s of the step that meets them.
The two consecutive validations of `write_and_replace` are one.  The
cleanup after `INDEX.md` was renamed still looks its temporary up, which may fail.  A page's text
is its summary; a page that does not parse has summary `Bad`.  How the lock is
acquired, the read-only corpus (`Unisolated`) included, is `WikiLock`; here
`Acquire` and `LockRefused` are its outcomes.
`FinalRace` says whether others may act between the last check and the rename:
the code documents that a program of the same user can (`durable.rs:803`,
`lock.rs:121`).  The properties that this window can break are checked with
it closed, the others with it open.  `SuccessIsDurable` is stated for `LockStays`:
the window closed, or nobody who replaces the lock file.  Otherwise a second
writer gets in while the first is about to rename, commits a page and a catalog
that lists it, and has its catalog overwritten by the first one's older one; the
page stays and the next command refuses the catalog as stale, but the second
writer's answer was wrong.  The attempt to prove the property found this; the
window is the one `lock.rs:121` documents.

**Runs.**

| run | question | bounds |
|---|---|---|
| `WikiWriteRaces` | Can two commands of any kind, an editor and a replaced lock file lose an edit or commit together?  No: `OneCommitter`, `UpdateReplacesWhatItRead`, `IndexReplacedByTruth`. | 2 processes, 2 slugs (one page exists), 2 summaries, 2 environment steps, `FinalRace = FALSE`; 1.6 million states, symmetric processes |
| `WikiWriteFailures` | Do failures lie, tear, leave residue or hang?  No: `ReportIsHonest` (residue included), `SuccessIsDurable`, `NeverTorn`, `CreateNeverOverwrites`, `EveryCommandEnds`. | 2 processes, 2 failing calls, 1 kill or power cut, 1 edit or added page, `FinalRace = TRUE`; 746 thousand states |
| `WikiWriteAllOrNothing` | Does a failed write change nothing?  **No** (finding below). | 1 process, 1 failing call |

Two processes are enough for every race on the lock (the third would wait or
repeat one of them); one existing and one free slug give create, update and
collision; two environment steps allow a change and a replaced lock in one
behaviour; two failing calls are any one and then that of its cleanup.
`CHECK_DEADLOCK FALSE`: every process runs one
command and then stops.

`EveryCommandEnds` assumes weak fairness of a started command's own steps: the
scheduler runs it and every wait in the code is bounded (the lock by ten
seconds).  Nothing is assumed of the environment.  A process runs one command,
so the property is that in the end none is running.

**Finding.**  The repository's README says "**Writes are all-or-nothing.** ...
If any step fails, nothing changes at all."  The code installs the page first
and regenerates `INDEX.md` after; when the regeneration or a directory flush
fails, the command answers exit 4, names the page it wrote, and leaves it.
`WikiWriteAllOrNothing` shows the shortest such behaviour.  The code's own
promise, that the answer says what happened, is `ReportIsHonest` and holds.

## 3. IndexStore

**State.**  `source` is each project's corpus on disk (a directory stamp and
per path content and stamp); `index` each database's committed generation,
scheme and documents; `journal` the databases with a `-journal` file; `cache`
the keys in the vector cache, `damaged` and `quarantines` its health;
`leaseIno` and `held` the lease.  `lost` and `losses` are history: keys the
environment destroyed.

**Actions.**

| code | actions |
|---|---|
| `synchronize` | `Start`, `Scan` |
| `plan_synchronization` | `PlanOpen` (generation), `PlanScheme`, `PlanDocs` (documents, refusals, cache lookup, namespace proof) |
| `execute_sync_plan` | `ExecCheck`, `Recheck` (unchanged pages' vectors), `Embed`, `SyncLease`, `InsertVectors`, `Begin`, `FinalRevalidation`, `Commit` |
| `gc` | `GcAbsent`, `GcLease`, `GcInitial` (with quarantine), `GcLive` (twice), `GcSweep` |
| `search_project` | `SearchOpen`, `SearchLookup`, with `Again` for `retry_transient_store` |
| `stats` | `StatsLease`, `StatsRead` |

The environment edits pages, deletes or damages the cache, replaces the lease
file, kills processes, and lets SQLite roll a dead process's journal back.

**Abstractions.**  A project has one corpus, a page one chunk; a vector key is
the pair of scheme and content, as `vector_key` hashes both.  A scan is atomic
(the code validates its snapshot as a whole).  Databases use a rollback
journal, so an open read transaction makes a commit time out and roll back,
and a process killed inside a transaction leaves a journal that every opener
refuses and every statement of a connection already open rolls back.  A damaged
cache may look like contention to a search (which then tries again) or not.
The plan's seal and the checks that plan and execution name the same
project cannot fail within `synchronize` and are left out.  Incremental mode is
the library's; the command line rebuilds.  Three things the code does not do are
part of the model and of the properties' wording: pages kept because they could
not be read keep references to lost vectors (`SuccessMeansSearchable` speaks of
pages that were read); a synchronization with nothing to publish reports the
generation it planned from and does not look at the index again, so it says
nothing of a page another one published meanwhile (the property speaks of pages
that are as it planned or published them); and a file scanned as rejected may be
edited in place before the commit without being noticed (`PublishesTheDisk`
excepts it).
`FinalRace` is the window between the last revalidation and the commit
(`project.rs:421`).

**Runs.**

| run | question | bounds |
|---|---|---|
| `IndexStoreRaces` | Do gc, search and synchronization of two projects that share a vector take each other's vectors or results?  No: `NoDanglingVectors`, `OpenSnapshotsKeepTheirVectors`, `PublishReplacesItsBase`. | 3 operations, 2 projects, 1 page each, 1 edit, 1 replaced lease; 1.0 million states |
| `IndexStorePages` | Is what is published what the disk holds, under one scheme?  Yes: `IndexIsUniform`, `PublishesTheDisk`. | 2 synchronizations in either mode and scheme, 2 pages, 2 edits (also unreadable, rejected, deleted), 1 failing call; 2.5 million states |
| `IndexStoreFaults` | Does success mean searchable, and does everything end?  Yes: `SuccessMeansSearchable`, `EveryOperationEnds`, `TypeOK`. | 2 operations, 1 page, 2 losses or replaced leases, 1 failing call, 1 kill, generation at most 2, one quarantine name, two tries; 177 thousand states |

Three operations are what the dangling vector needs (a synchronization, a gc,
and a publication that drops the other reference).  The generation and the
quarantine names are bounded by constants so that both limits are reached; the
code's are `i64::MAX` and a fixed number of names.  `EveryOperationEnds`
assumes weak fairness of each process's own steps: leases, retries and busy
timeouts are all bounded in the code.

## 4. Service

**State.**  Per connection: the client's step or outcome (`pc`), the time on it
(`clock`), what has arrived of its request (`req`), what it has not read yet
(`resp`), and the step of its worker.  The loop: `at`, the connection in hand
(`cur`), `backlog`, `pending`, `active`, `progressed`.  Between threads: the
channel (`done`), the pipe (`wake`), the stop token (`closed`).  `ran` and
`busied` are history.

| code | actions |
|---|---|
| `try_service_with`, `connect_system` | `Connect`, `BeginExchange` |
| `exchange_request_with_deadline` | `WriteRequest`, `FinishWrite`, `ReadResponse` |
| `receive_completion` | `ReadCompletion` |
| `serve_until` | `ReceiveCompletions`, `CheckShutdown`, `PollPending`, `EndPoll`, `ReserveExecution`, `AcceptConnection`, `RefusePeer`, `AdmitConnection`, `CheckIdle`, `WaitForServiceEvent`, `ListenerFails` |
| `spawn_execution`, `execute_request`, `SlotGuard` | `SendAccepted`, `RunHandler`, `SendCompleted`, `ReleaseSlot`, `WakeLoop` |
| `ShutdownToken::request`, `main` | `RequestShutdown`, `ExitProcess` |

Strangers connect and write anything or nothing; clients and the service can be
killed.

**Abstractions.**  Time is one number per connection: the client's two seconds
begin before it connects and the service's when it accepts, so `expires_at`
never precedes the client's deadline.  A check of the stop token directly after
a poll is one step with it; the reservation, which takes the token's lock, is
its own.  Output is not modelled: whatever the handler does, panic and output
over the limit included, one `Completed` is sent.  A small response fits the
socket's buffer, so sending fails when the peer has closed, or as the one failing
call of a run (`MayNotSend`).  The backlog
is unbounded.  `LoopStats` is left out.

| run | question | bounds |
|---|---|---|
| `ServiceRequests` | Are slots accounted for, refusals final, fallbacks before delivery safe, completions noticed, and does a stop drain, admit nothing, and come for idleness only when idle?  Yes: `SlotsAccounted`, `RefusedNeverRan` (rejected and undelivered requests), `NoLostWakeup`, `ShutdownDrains`, `NoAdmissionAfterShutdown`, `IdleShutdownIsIdle`. | 1 client, 1 stranger, 1 slot, 1 pending place, 1 kill or failing call; 3.0 million states |
| `ServiceEnds` | Does every admission and every shutdown end?  Yes: `AdmissionEnds`, `ShutdownEnds`. | 2 strangers, 1 slot, 1 pending place; 244 thousand states |
| `ServiceFallback` | Is a request the client executes itself never executed by the service?  **No** (finding). | 1 client |

With one slot and one pending place, two connections reach every limit: busy,
eviction, a stop between any two steps.  Fairness: the loop, the workers outside
the handler and the clock go on; nothing is assumed of peers or handlers.

**Finding.**  `write_all_nonblocking_with_deadline` checks the deadline again
after the last byte (`frame.rs:645`) and reports it like a request that was not
written.  The client then executes the request itself, although it has been
delivered in full; if the service answers `Accepted` before the client closes
the stream, both execute it.  `try_service` documents that `None` means "no
request could have been delivered."  Everything else the client does on a
deadline is safe: that is part of `RefusedNeverRan`.

## 5. ServiceSocket

**State.**  `entry` is the directory entry at the socket's path, an inode number
and the listener bound to it; `lock` the holder of the lock on the directory;
`pc` and `own` a service's step and the inode number it saw or recorded.

| code | actions |
|---|---|
| `lock_parent`, `lock_prepared_default_parent` | `LockParent` |
| `prepare_existing`, `remove_if_identity` | `StatExisting`, `Probe`, `RemoveStale` |
| `bind_locked` | `Bind`, `Listen`, `RecordIdentity` |
| `cleanup_owned_socket` | `Cleanup`, after `StopServing` |

Services can be killed and somebody else can delete the socket.  Ancestors and
permissions are taken to be safe (a start that finds them otherwise touches
nothing), the directory stays in place, and a `stat` and the `unlink` that
trusts it are one step: no program can close that window.  A probe's connection
is taken to succeed exactly when somebody listens.

| run | question | bounds |
|---|---|---|
| `Locks` (socket part) | Does a live service keep its name, and does nobody wait for ever?  Yes: `LiveNameKept`, `NobodyWaitsForever`, `SocketTypeOK`. | 3 services, 1 kill, 1 deletion, inode numbers not reused |
| `ServiceSocketReuse` | And if inode numbers are reused?  **No** (finding). | 2 services |

Three services give one that stops, one that starts and a leftover of a dead
one.  Fairness: a started or stopping process is scheduled.

**Finding.**  `cleanup_owned_socket` recognizes its socket by device and inode
number, after its listener is closed.  A service started in between removes the
stale name and binds it anew; where the file system hands out the freed inode
number, the cleanup takes the new socket for its own and deletes it.  The new
service then runs without a name.  Cleaning up before the listener is dropped
would keep the inode in use and the number taken.

## 6. The locks: NamedLock, WikiLock, ConstructionLock

Two parts of the program exclude processes by `flock` on a file found by name:
`yams-wiki/src/lock.rs` (readers and writers of a corpus) and
`yams-embed/src/construction_lock.rs` (two slots for building a model).  In both,
anybody with the same user id can move, unlink or replace the file or its
directory at any moment, and a holder of the old inode then excludes nobody.
What can be promised is `NamedLock`: a process is granted the lock in some mode
at some place (a directory); the holders whose file is still the one the name
denotes (`current`) are compatible with each other; only a rebinding of a name
changes who is current, never a grant that ignores a current holder.  `Allowed`
says which modes go together: any number of shared ones or one exclusive; or
one holder per slot.

| code | `WikiLock` |
|---|---|
| `acquire_with_runtime` | `BeginLock`, `TryFlock`, `CheckAfterFlock`, `Confirm`, `WaitForFlock`, `Reopen`, `FlockFails` |
| `open_target`, `open_lock_file` | `OpenCorpus`, `CheckCorpus`, `CreateLock`, `OpenExisting`, `VerifyLock` |
| `classify_lock_open_error`, `corpus_takes_no_writes` | `ClassifyRefusal` (the lease without isolation) |
| `LockGuard::drop` | `ReleaseLock` |

| code | `ConstructionLock` |
|---|---|
| `provision_lock_directory`, `create_private_directory` | `Provision`, `MakeDirectory` |
| `PinnedDirectory::open`, `open_slots` | `PinDirectory`, `OpenSlot`, `RevalidateOpened` |
| `acquire_with_wait` | `TrySlot`, `CheckSlot`, `ConfirmSlot`, `Poll` |
| `with_construction_lease`, `revalidate`, `Drop` | `Construct`, `FinishLoad` |

The environment renames, unlinks or restores lock files, rebinds the directory
(`RebindLock`, `RebindDirectory`, `RebindSlot`), makes calls fail and kills.

**Abstractions.**  The revalidation of a directory (several `stat`s from the
root) is one step; the check of a descriptor and of its name is another, so a
replacement between the two is reached.  Owner and mode checks are the link
count: what they refuse is refused whatever the interleaving.  A bound on the
files ever created (`MaxWikiFiles`, `MaxSlotFiles`) is large enough for every
rebinding the run allows.  `open_slot` creates a missing slot file at every
poll, not only at the first, and the model does the same; the doc comment of
`acquire_with_wait` says that a later poll "only opens what already exists",
which holds of the directory and not of the slot files in it.

**Refinement.**  `WikiLockImplements == Wiki!LockSpec` and
`ConstructionImplements == Construction!LockSpec`, with `holding` mapped to the
processes between the last check and the release, and `current` to those of
them whose file the name denotes.

**The run `Locks`** checks the two locks and the socket, one at a time: the
variable `which` picks the part whose processes move and the others stay in an
initial state, since they share nothing.  Bounds: a writer and a reader or a
second writer, two corpora, 3 lock files, 2 troubles; 3 loaders for 2 slots,
2 missing directories, 1 trouble; 3 services.  262 thousand states.
`WikiLockEnds`, `ConstructionEnds` and `NobodyWaitsForever` assume that a
process which acquires is scheduled (weak fairness of its own steps) and that
time passes: the deadline is a step enabled only where the code reads the clock,
weakly fair for the wiki lock, which reads it at every step of its retry loop,
and strongly fair for the slots, where a poller comes back to it again and
again.  Nobody is obliged to release.  Each process acquires once, so the
properties say that in the end nobody is acquiring.

## 7. WikiInit

**State.**  `disk` maps the twelve paths init owns or looks at to nodes (kind,
contents by kind, whether the owner may write, who made the inode); `head` what
git has committed; `temps`, `stale` and `staging` the temporaries of this
process, of a killed one, and of the plan's candidate.  `approved` is what the
inspection saw, `manifest` the plan; `todo` is the set of operations not yet done,
taken in the order of `sort_operations` (directories, files, the removal; each by
depth and name), and `journal` what recovery may have to undo; `report` is the
answer.  `touched` is history: paths the environment
changed since the inspection.

| code | actions |
|---|---|
| `inspect_repository` | `Inspect` with `Conflicts`, `LayoutOf`, `Attainable`, `Snapshot` |
| `plan_repository` | `Plan`, `CreateCandidateDir`, `CloseCandidateDir` with `desired_candidate`, `build_operations`, `sort_operations`, `validate_candidate` |
| `apply_manifest_classified` | `ApplyStart`, `AcquireExistingLock`, `CheckPrestates`, `BeginOperation`, `EndOperation`, `Validate`, `Revalidate`, `HandleFailure`, `Classify` |
| `apply_operation`, `replace_file` | `MakeDirectory`, `IdentifyDirectory`, `InstallDirectory`, `VerifyDirectory`; `OpenFile`, `FillFile`, `VerifyFile`; `OpenTemporary`, `FillTemporary`, `InstallReplacement`, `VerifyReplacement`; `RemoveFlat`, `VerifyRemoved`; `RestoreParentMode` |
| `recover` | `RecoverEntry` with `recover_created_file`, `recover_created_directory`, `recover_replaced`, `recover_removed`, `recover_parent_mode` |

The environment edits, creates and removes files, puts a file where a directory
is to be made (apply is refused then: `Blocked`), replaces or removes a directory
just made, kills the process, and starts over (`StartOver`: the user commits or cleans up and runs the command again).

**Abstractions.**  A check and the rename or unlink it guards are one step: the
code cannot close that window and says so.  A directory rebound under the
command is a fault of the step that notices it, except the directory just made,
which is modelled.  The recovery of one journal entry is one action with a
failure at any of its calls (`Interrupted`).  Captures are atomic, as the code
compares metadata around them.  A candidate directory left by a killed `plan`
is outside the repository's owned paths and is not tracked further.  Contents
are kinds ("policy", "catalog2", "page", "foreign").

**Properties** (in the run `Files`): `FailureIsAccounted`: after a failed apply
every owned path is as it was inspected, or touched by somebody else, or named
in the report, and the layout the report claims is the one a new inspection
finds, or the inspected one where apply changed nothing itself.
`SuccessIsApproved`: success left exactly the candidate.
`ForeignWorkSurvives`: neither installation nor rollback overwrites what
somebody put in place of an approved file.  `AcceptedPlanSucceeds`: what plan
accepts, apply carries out if nothing fails and nobody interferes, with one
exception: plan does not look at the write lock, so it accepts a wiki without
`.write.lock` in a directory that takes no new entry, where apply cannot create the
lock file, ends as an operational failure and changes nothing
(`AcquireExistingLock`, `Lockable`; the test `apply_refuses_an_unisolated_wiki_lock`
expects exactly this).
Bounds: seven repositories and requests (fresh, minimal in a read-only
directory with and without a lock file, full with a second page, half a wiki, in both
modes), 1 edit (of a file
or a directory: `SomeEdits`), 2 failing calls, 1 kill, 3 of them together: one
fault in an operation and one in its recovery.  All four are proved for every
repository and request, without these bounds (section 9).

## 8. StoreOpen, ModelCache, QueryLog

**StoreOpen** is how a process gets the open store that `IndexStore` takes for
granted: `open_project` and `open_vectors` with `secure.rs`.  A database is the
kind of its contents (empty, previous schema, current, damaged, foreign...) and
its journal mode; its sidecars are none, an idle pair, half a pair, a WAL with
frames or a journal.

| code | actions |
|---|---|
| `SecureStoreDirectory::open`, `prepare_database_without_sidecar_check` | `OpenDirectory`, `PrepareDatabase` |
| `open_project_with_hooks`, `open_vectors_with` | `LookForSidecars`, `InspectEarly`, `AwaitLock`, `ClassifySidecars`, `InspectLocked`, `Connect`, `Begin`, `RecheckSchema`, `Commit`, `ValidateCommitted`, `EnableWal`, `LastCheck` |
| callers and SQLite | `StartWrite`, `EndWrite`, `CloseStore`, `EndClose` |

SQLite is external: one writer at a time, a rollback journal or WAL with its two
files, the last connection out removing them one by one.  An inspection of an
immutable database takes no lock, so what it reads while somebody writes may be
anything.  A foreign hand replaces the file, fills an empty one or opens the
directory to others, but only while nobody has finished opening: the
documentation of `open_project` excludes later races.  The file of the
coordination lock itself is not replaced.  `StoreOpenedIsCurrent`: what is
returned is the pinned file at the current schema and the right journal mode.
`OpenersDoNotClash`: without troubles, openers of a healthy store fail each
other only by the lock's timeout; one that meets a caller's write or close fails
as contention, which callers retry, or, through the unlocked inspection, as a
refusal.  `ForeignStoreUntouched`: what is no store of this program is never
written.  Bounds: 2 openers, one of them a searcher, every kind of store and
sidecar at first, 2 troubles.

**ModelCache**: loaders that hold a construction slot resolve the snapshot, open
and read each artifact, recheck all, verify the digest and construct; an online
one downloads once when something is missing (`BeginBuild`, `ResolveSnapshot`,
`OpenArtifact`, `ReadArtifact`, `Recheck`, `VerifyProvenance`, `ConstructModel`,
`Download`).  A stamp stands for what `EntryState` compares; `hf-hub` is
external: it keeps entries that exist, and may serve another commit.
`LoadedIsPinned`: a loaded model has the release bytes of every artifact, and
they stood in the cache together at one moment.  Bounds: 2 loaders, 2 artifacts,
1 edit.

**QueryLog**: `append_query_log` inspects the name, opens the file, validates
both again and writes once in append mode (`ComposeLine`, `InspectName`,
`OpenLog`, `FinalValidation`, `WriteRecord`, and `InspectionFails` for a failing
call of the first three), while the log is rotated, removed
or made unsafe.  `QueryLogHonest`: the outcome says what is in which file.
Bounds: 2 searches, 2 files, 3 troubles.

**The run `Files`** checks `WikiInit` and these three, again one at a time by
`which`; 744 thousand states.  `CHECK_DEADLOCK FALSE`: each process acts once.

## 9. Proofs

For every set of processes, projects, paths, contents, schemes and requests and
all bounds, from the named assumptions of `IndexStore.tla` (bounds are
naturals, special contents differ from texts, `None` is no lease, document or
file, requests are well formed):

| theorem | says |
|---|---|
| `TypeCorrect` | `Spec => []TypeOK` |
| `VectorsKept` | `FinalRace = FALSE` gives `Spec => []NoDanglingVectors` |
| `SnapshotsKept` | `FinalRace = FALSE` gives `Spec => []OpenSnapshotsKeepTheirVectors` |
| `PublicationsSerialized` | `Spec => PublishReplacesItsBase`, with the last window open or closed |
| `IndexesAreUniform` | `Spec => []IndexIsUniform`, likewise |
| `PublicationsMatchTheDisk` | `FinalRace = FALSE` gives `Spec => PublishesTheDisk` |
| `SuccessesAreSearchable` | `FinalRace = FALSE` gives `Spec => SuccessMeansSearchable` |

**The argument for vectors.**  `NoDanglingVectors` is not inductive: whether a
sweep is safe depends on what gc has read, and whether a commit is safe on what
the committer verified and on who holds the lease.  The invariant is
`Safe == LeaseInv /\ VectorsInv /\ NoDanglingVectors /\ SnapshotInv`:
- `LeaseInv`: no lease has a newer inode than the file, leases on one inode
  exclude each other unless both are shared, mutating steps hold an exclusive
  one, and at the commit it is the current one;
- `VectorsInv`: while its lease is current, a synchronization past insertion
  has all its vectors cached, and a gc past its first enumeration has everything
  published among its live keys;
- `SnapshotInv`: the snapshot a search has open is still the index, because a
  commit waits for readers.

A sweep under a current lease removes nothing live: nobody else can have
published under a current lease since.  A commit adds only vectors that were
verified under the current lease, so nobody swept.  A process whose lease file
was replaced may still insert or wait, and is stopped by the revalidation;
this is where `FinalRace = FALSE` is used, since a replacement after the last
revalidation would go unnoticed.

**The argument for publications.**  `PlanInv`: generations only grow; a plan
whose generation is still the index's has the index's documents (the
generation is read *before* the documents, so a publication in between makes
the plan stale rather than mixed); inside the transaction the generation is
the index's; a database has one writer.  None of this needs the lease.

**The argument for contents.**  `PlannedInv` adds what a plan says of the pages:
one it leaves alone is under the scheme at hand and, where its metadata is
renewed, has the scanned text; one it removes was seen to be absent or rejected;
an indexed page that was read is replaced or kept as a reference.  The rechecks
before the transaction only turn renewals into replacements.  With `PlanInv` a
commit applies the plan to the very documents and scheme it was made for, so the
index stays uniform, whatever is edited meanwhile.  For the disk, `DiskInv` says
that no directory stamp is used twice, so an equal one means the same entries,
and that the sources are as planned at the commit, which is where
`FinalRace = FALSE` is used.

**The argument for searchability.**  `SearchableInv`: until the next loss the
vectors of the pages a plan keeps stay cached while the index is the one planned
from (they are published, and a collection under a current lease spares what is
published), and the vectors it needs stay cached while its lease is current.
The property used to speak of every page in the index, and the proof failed: a
third process that embeds the old text of a page again after a loss lets a
synchronization with nothing to publish succeed, while the text another one
published for that page has lost its vector.  TLC confirms this with three
processes, two projects, one edit and one loss; the two processes of
`IndexStoreFaults` cannot reach it.

**The socket's name** (`LockProofs.tla`, from `SocketAssumption`, for
any number of services, kills and deletions):

| theorem | says |
|---|---|
| `TypeCorrect` | `Spec => []SocketTypeOK`: types, and whoever is inside binding or cleanup holds the lock |
| `LiveNamesKept` | `Reuse = FALSE` gives `Spec => LiveNameKept` |

`NameInv` is what a step relies on: numbers in use have been used; an entry with
the number a service recorded at its own bind is its own; what a start found
stale is not the name of a bound service, because binding takes the lock the
start holds.  The second part needs fresh numbers, which is where reuse breaks
the property.

**The wiki's writes** (`WikiWriteProofs.tla`, from `WikiWriteAssumption`, for any
processes, pages, requests, edits, failing calls, kills and power cuts):

| theorem | says |
|---|---|
| `ReportsAreHonest` | `Spec => []ReportIsHonest` |
| `NothingIsTorn` | `Spec => []NeverTorn` |
| `CreatesNeverOverwrite` | `Spec => CreateNeverOverwrites` |
| `CommittersExclude` | `LockStays` gives `Spec => []OneCommitter` |
| `UpdatesReplaceWhatTheyRead` | `FinalRace = FALSE` gives `Spec => UpdateReplacesWhatItRead` |
| `CatalogsAreTrue` | `FinalRace = FALSE` gives `Spec => IndexReplacedByTruth` |
| `SuccessesAreDurable` | `LockStays`, and an editor that deletes nothing and leaves `INDEX.md` alone, give `Spec => []SuccessIsDurable` |

`Inv` relates a command's step to what it has: which requests and phases a step
belongs to (`Flow`), the lock it holds (`Locked`), that who has published a page
is on its way to say so (`Wrote`), where its temporary is (`Temps`), that what it
is about to publish is flushed (`Ready`); and to the disk: every page and catalog
with its name on it is one it has published, and a second link is that of a
temporary that still exists (`Disk`).  Honesty and wholeness follow at once.
`Exclusion` adds that two flocks on one inode are compatible and that a committer's
is on the inode the name denotes; `Window` that what was validated is still on
disk, since another committer is excluded and an edit is outside the window;
`Durable` that a page once flushed stays at that version or a later one, and
that the catalogs on disk list it from the moment its writer has said so.

**The locks** (`LockProofs.tla`): `WikiLockSpec => WikiLockImplements` and
`ConstructionSpec => ConstructionImplements`, the abstract specification
included whole (it states no fairness).  A step maps to a grant when the last
check passes, to a release, to a rebinding, or to a stutter.  What the grant
needs is that flocks on one file are compatible with each other (`FlockInv`,
`FlocksDiffer`): a holder that is current is on the file the name denotes, so a
process whose checks passed on that file is compatible with all of them.

**The service** (`ServiceProofs.tla`, from the assumptions of `Service.tla`, for
any clients, slots and pending places): `SlotsAreAccounted`, `WakeupsArrive`,
`RefusedRequestsNeverRun`, `ShutdownWaitsForWorkers`,
`NothingAdmittedAfterShutdown` and `IdleServiceWasIdle` prove `SlotsAccounted`,
`NoLostWakeup`, `RefusedNeverRan`, `ShutdownDrains`, `NoAdmissionAfterShutdown` and
`IdleShutdownIsIdle`.  The invariant's core is that a connection has one owner: it
is in the backlog, among the pending, with a worker or answered, and never in
two of these or twice in one (`Queues`, `Fresh`, `Answers`); `SlotsInv` counts the
workers against the completions, `Waking` follows a completion from the channel
to the pipe, `Drained` and `Idling` say what the loop has seen before it stops.

**Logs, caches and openers** (`FilesProofs.tla`, from `QueryLogAssumption`,
`ModelCacheAssumption` and `StoreOpenAssumption`, for any numbers):

| theorem | says | invariant |
|---|---|---|
| `QueryLogsAreHonest` | `QueryLogSpec => []QueryLogHonest` | the descriptor is of the file inspected first; a search that has not written has no line anywhere; no file has more lines than there were writers |
| `LoadedModelsArePinned` | `ModelCacheSpec => []LoadedIsPinned` | what is in memory is what was pinned, pins carry old stamps, so a cache that equals the pins at the recheck has not changed since the last artifact was read, and held them together |
| `OpenedStoresAreCurrent`, `ForeignStoresAreUntouched` | `StoreOpenSpec => []StoreOpenedIsCurrent`, `StoreOpenSpec => ForeignStoreUntouched` | the name only moves on, so a connection made by name that finds the pinned file there is to the pinned file; one transaction at a time per file, so what it found stays; a file that existed was inspected, one that was empty is validated after the commit |
| `RacingOpenersDoNotClash` | `StoreOpenSpec => []OpenersDoNotClash` | the holder of the coordination lock is alone; until somebody uses the store, sidecars change by the holder's hand only, a journal exists only while somebody commits, and a file found with contents has a schema or is being given one, so the inspection before the lock never reads an unsettled file |

The last row is why the vector cache looks for sidecars before it inspects
without the lock: the rollback journal of a process that creates the schema is
what keeps the inspection away from it.

**Initialization** (`WikiInitProofs.tla` and `WikiInitSafety.tla`, for any repositories, requests and
environment, and any number of edits, failing calls and kills):

| theorem | says |
|---|---|
| `CoreIsInvariant`, `SafeIsInvariant` | `Spec => []Core`, `Spec => []Safe`: the inductive invariant |
| `ForeignWorkIsSafe` | `Spec => ForeignWorkSurvives` |
| `FailuresAreAccounted` | `Spec => []FailureIsAccounted` |
| `SuccessesAreApproved` | `Spec => []SuccessIsApproved` |
| `AcceptedPlansSucceed` | `Spec => []AcceptedPlanSucceeds`, the refused lock file excepted |

They rest on two assumptions.  `CasesAssumption`: a repository init is run in is
a tree of files and directories, none made by a command at work, and a request
names a mode or none.  `EditPathsAssumption`: the environment leaves the lock
file to the commands that lock it, which `WikiLock` is about.

The invariant has layers, because none of the properties is inductive.  `Core`
ties four things together: the plan (`PlanInv`: what an operation starts from and
leads to, by its kind), the tree (`DiskInv`, `DirsInv`: whatever exists lies in a
directory, and until the first operation the directories are the inspected ones),
the operation under way (`OperationInv`: its phase, its target, its journal entry)
and the journal (`JournalInv`: each entry belongs to an operation of the plan, an
active widening of a mode is that of the parent at hand).  A step of the command
writes at its target or undoes an entry; `Core` says that the target was as
approved when the operation began or is the command's own node, and recovery
compares before it writes.  That is `ForeignWorkSurvives`, step by step.

`Safe` adds what a report relies on.  `AccountInv`: each owned path is as
inspected, touched, reported, or covered by a journal entry still to be undone;
when the journal is empty, that is `FailureIsAccounted`.  `FailureInv` says the
same of temporaries, the candidate directory and the layout; `LockInv` that the
write lock is held from the check on, or from the operation that makes the
directory; `SuccessInv` that a success is the last thing a
command reports, with the candidate on disk.

`AcceptedPlanSucceeds` needs an invariant of its own, `QuietInv`: as long as
nothing failed and nobody interfered, each path is as inspected or as planned,
according to whether its operation is in `todo`, except the target, whose state
follows from the phase; and past the lock there was one to take (`LockState`): where
`LockToTake` fails, the only report is the operational one, of an untouched
repository.  Then no check of apply can fail: a parent is there
because it ranks before its children (`operation_rank`, `PathPlace`), the
prestates are the approved ones, and the final validation compares the disk with
a candidate that validated when it was planned.  `QuietInv` was checked with TLC
as an invariant of `WikiInit` before it was proved.

Two attempts failed for a reason and changed the model.  An editor can put a file
where the memory directory or `.agents` is to be, between inspection and apply; the code
refuses to take the lock then (`acquire_existing_memory_lock`), and recovery counts
it as drift, which the model now has (`Blocked`).  And `ForeignWorkSurvives` said
nothing of a foreign node that equals the approved one in everything an inspection
compares: the command cannot tell them apart, so the property excludes it
(`~AsApproved(p)`).

**Only model-checked.**  Liveness (`EveryCommandEnds`, `EveryOperationEnds`,
`AdmissionEnds`, `ShutdownEnds`, `WikiLockEnds`, `ConstructionEnds`,
`NobodyWaitsForever`) is beyond the prover, which has no rules for fairness.
Every other property of the passing runs is stated by a theorem.

## 10. Not modelled

- the traversal behind a scan (`scan/traversal.rs`): its snapshot is validated
  as a whole, so `IndexStore` takes it as one step;
- pure text and number handling, which has no state and no concurrency: page
  schema and catalog layout, `check.rs`, chunking, frontmatter, ranking,
  snippets, strict JSON and framing, argument parsing, output, path layout, the
  Unicode tables of the query log's hash;
- inference (`jina.rs`, numeric library code);
- single permission and ownership checks of files, which no interleaving
  changes: a file that fails one is an unsafe file;
- two changes within one tick of the file system's clock: the code compares
  metadata and has no defence there, and the models give every change a new
  stamp.
