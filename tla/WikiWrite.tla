------------------------------ MODULE WikiWrite ------------------------------
(***************************************************************************)
(* The wiki's durable write transaction: `yams-wiki write` (create or      *)
(* update one page, then regenerate INDEX.md) and `yams-wiki catalog`      *)
(* (regenerate, adopt or only check INDEX.md), run by several processes    *)
(* against one corpus directory, beside a person who edits the same files  *)
(* with an ordinary editor and never takes the lock.                       *)
(*                                                                         *)
(* Sources: yams-wiki/src/write.rs, durable.rs, index.rs (what a catalog   *)
(* is) and the guard of lock.rs.  One action is one system call that other *)
(* processes can see, or one capture the code proves stable by comparing   *)
(* the metadata of every file before and after reading.  File metadata     *)
(* (inode, size, mtime, ctime) is one number, the stamp, new on every      *)
(* change.                                                                 *)
(***************************************************************************)
EXTENDS Naturals, FiniteSets

CONSTANTS
    Procs,       \* processes; each runs one command
    Slugs,       \* page names
    Summaries,   \* what a valid page contributes to the catalog
    Bad,         \* the summary of a page that does not parse
    Torn,        \* contents lost in a power cut before they were flushed
    None,        \* no file, no node, no inode
    InitPages,   \* the summaries of the pages there are at the start
    Requests,    \* the commands a process may run
    EditorOps,   \* which things the editor and other programs may do
    FinalRace,   \* may they act between the last check and the rename?
    MaxEdits,    \* bound on their steps
    MaxFaults,   \* bound on failing system calls
    MaxCrashes   \* bound on killed processes and power cuts

(* None is nobody, no file, no flock and no temporary. *)
ASSUME WikiWriteAssumption ==
    /\ None \notin Procs
    /\ None \notin [ino : Nat, stamp : Nat, nlink : Nat, sum : Summaries \cup {Bad},
                    by : Procs \cup {None}, synced : {TRUE}]
    /\ None \notin [ino : Nat, mode : {"shared", "exclusive"}]
    /\ None \notin [ino : Nat, dir : {"pages", "corpus"}]
    /\ Torn \notin Summaries \cup {Bad}
    /\ InitPages \in [Slugs -> Summaries \cup {None}]
    /\ \A r \in Requests :
        /\ r.op \in {"create", "update", "catalog", "malformed"}
        /\ r.op \in {"create", "update"} => r.slug \in Slugs /\ r.sum \in Summaries

VARIABLES
    pages,    \* pages/: each slug's node, or None
    index,    \* INDEX.md
    dpages,   \* pages/ as a power cut would leave it at the least
    dindex,   \* INDEX.md likewise
    tmp,      \* the temporary a process has on disk: its inode and directory
    lockIno,  \* the inode .write.lock names
    held,     \* the flock a process holds: inode and mode
    pc,       \* where each process is
    loc,      \* what it has read
    out,      \* what it reported
    clock, edits, faults, crashes

disk == <<pages, index, dpages, dindex>>
bounds == <<clock, edits, faults, crashes>>
vars == <<pages, index, dpages, dindex, tmp, lockIno, held, pc, loc, out,
          clock, edits, faults, crashes>>

-----------------------------------------------------------------------------
(* Values *)

Writes == {r \in Requests : r.op \in {"create", "update"}}
Catalogs == {r \in Requests : r.op = "catalog"}

(* NodeState: a page as lstat and a read of it tell it apart, who wrote it *)
(* and whether its contents were flushed; and INDEX.md likewise.           *)
Node(ino, stamp, links, sum, by, synced) ==
    [ino |-> ino, stamp |-> stamp, nlink |-> links, sum |-> sum, by |-> by, synced |-> synced]
IndexNode(stamp, ix, by, synced) ==
    [stamp |-> stamp, shape |-> ix.shape, head |-> ix.head, catalog |-> ix.catalog,
     by |-> by, synced |-> synced]

(* The generated region rebuild_index renders: one line per page.  A page  *)
(* that does not parse makes the whole rebuild an error.                   *)
Catalog(pp) == [s \in {x \in Slugs : pp[x] # None} |-> pp[s].sum]
Parses(pp) == \A s \in Slugs : pp[s] # None => pp[s].sum \in Summaries

(* What sha256 of INDEX.md tells apart: the bytes, not the metadata. *)
Digest(ix) == [shape |-> ix.shape, head |-> ix.head, catalog |-> ix.catalog]

(* check_index: the file equals its own rebuild. *)
Canonical(ix, pp) ==
    ix.shape = "marked" /\ Parses(pp) /\ ix.catalog = Catalog(pp)

(* rebuild_index needs one marked region; adoption turns the legacy layout *)
(* into one, and refuses a file that already has it.                       *)
CanRebuild(r, ix, pp) ==
    /\ Parses(pp)
    /\ ix.shape = IF r.op = "catalog" /\ r.adopt THEN "legacy" ELSE "marked"

Rebuilt(ix, pp) ==
    [shape |-> "marked", head |-> ix.head, catalog |-> Catalog(pp)]

IsWrite(p) == loc[p].req.op \in {"create", "update"}
CheckOnly(p) == loc[p].req.op = "catalog" /\ loc[p].req.check
LockModeOf(r) ==
    IF r.op = "catalog" /\ r.check /\ ~r.adopt THEN "shared" ELSE "exclusive"
Slug(p) == loc[p].req.slug

NoLoc == [req |-> None, phase |-> "none", expect |-> None, index |-> None,
          snap |-> None, digest |-> None, target |-> None, synced |-> FALSE,
          fail |-> "none", wrote |-> 0]
NoOut == [exit |-> None, page |-> FALSE, index |-> FALSE, residue |-> FALSE]

Steps == {"acquire", "read_index", "capture", "validate", "target", "temp",
          "write", "check", "install", "unlink", "sync_pages", "rx_temp",
          "rx_write", "rx_validate", "rx_rename", "rx_sync", "cleanup"}
Running(p) == pc[p] \in Steps

Init ==
    /\ pages = [s \in Slugs |->
         IF InitPages[s] = None THEN None
         ELSE Node(0, 0, 1, InitPages[s], None, TRUE)]
    /\ index = IndexNode(0, [shape |-> "marked", head |-> 0, catalog |-> Catalog(pages)], None, TRUE)
    /\ dpages = pages /\ dindex = index
    /\ tmp = [p \in Procs |-> None]
    /\ lockIno = 0
    /\ held = [p \in Procs |-> None]
    /\ pc = [p \in Procs |-> "idle"]
    /\ loc = [p \in Procs |-> NoLoc]
    /\ out = [p \in Procs |-> NoOut]
    /\ clock = 0 /\ edits = 0 /\ faults = 0 /\ crashes = 0

-----------------------------------------------------------------------------
(* Helpers of the process steps *)

Fault == faults < MaxFaults /\ faults' = faults + 1 /\ UNCHANGED <<clock, edits, crashes>>
NoFault == UNCHANGED bounds
Tick == clock' = clock + 1 /\ UNCHANGED <<edits, faults, crashes>>

Goto(p, step) == pc' = [pc EXCEPT ![p] = step] /\ UNCHANGED <<held, out>>

(* The command returns: its answer is printed and the guard is dropped.    *)
Return(p, exit, page, ix, residue) ==
    /\ pc' = [pc EXCEPT ![p] = "done"]
    /\ out' = [out EXCEPT ![p] =
                 [exit |-> exit, page |-> page, index |-> ix, residue |-> residue]]
    /\ held' = [held EXCEPT ![p] = None]

(* An error of reindex: after a page was installed it is always reported   *)
(* as exit 4 with the page's path; from `catalog` a refusal is exit 2.     *)
ReindexRefused(p) ==
    Return(p, IF IsWrite(p) THEN 4 ELSE 2, IsWrite(p), FALSE, FALSE)
ReindexFailed(p) ==
    Return(p, 4, IsWrite(p) /\ loc[p].phase = "reindex", FALSE, FALSE)

(* Mutant: the guard is trusted without looking at the name again. *)
GuardTrusted(p) == held[p] # None

(* LockGuard::revalidate_before_commit: .write.lock still names the inode  *)
(* whose flock is held.                                                    *)
GuardCurrent(p) == held[p] # None /\ held[p].ino = lockIno

(* Mutant: only INDEX.md is looked at again. *)
InputsCurrentIndexOnly(p) == index = loc[p].index

(* revalidate_inputs: every page entry and INDEX.md are the captured ones. *)
InputsCurrent(p) == pages = loc[p].snap /\ index = loc[p].index

Compatible(p, mode) ==
    \A q \in Procs \ {p} :
        held[q] # None /\ held[q].ino = lockIno => mode = "shared" /\ held[q].mode = "shared"

-----------------------------------------------------------------------------
(* The command starts.  An update may carry the digest of the page its     *)
(* author read (expected_sha256); a malformed request is refused before    *)
(* the lock is touched.                                                    *)
Start(p) ==
    /\ pc[p] = "idle"
    /\ \E r \in Requests :
        /\ loc' = [loc EXCEPT ![p] =
             [NoLoc EXCEPT !.req = r,
                           !.phase = IF r.op = "catalog" THEN "reindex" ELSE "digest",
                           !.expect = IF r.op = "update" /\ r.pinned
                                      THEN pages[r.slug] ELSE None]]
        /\ IF r.op = "malformed" THEN Return(p, 2, FALSE, FALSE, FALSE)
                                 ELSE Goto(p, "acquire")
    /\ NoFault
    /\ UNCHANGED <<disk, tmp, lockIno>>

Acquire(p) ==
    /\ pc[p] = "acquire"
    /\ Compatible(p, LockModeOf(loc[p].req))
    /\ held' = [held EXCEPT ![p] = [ino |-> lockIno, mode |-> LockModeOf(loc[p].req)]]
    /\ pc' = [pc EXCEPT ![p] = "read_index"]
    /\ NoFault
    /\ UNCHANGED <<disk, tmp, lockIno, loc, out>>

(* The ten seconds pass, or the lock file is unusable. *)
LockRefused(p) ==
    /\ pc[p] = "acquire"
    /\ \/ ~Compatible(p, LockModeOf(loc[p].req)) /\ NoFault
       \/ Fault
    /\ Return(p, 4, FALSE, FALSE, FALSE)
    /\ UNCHANGED <<disk, tmp, lockIno, loc>>

(* read_index, and reindex's comparison with the digest proved canonical   *)
(* before the page was written.                                            *)
ReadIndex(p) ==
    /\ pc[p] = "read_index"
    /\ \/ /\ loc' = [loc EXCEPT ![p].index = index]
          /\ IF IsWrite(p) /\ loc[p].phase = "reindex" /\ Digest(index) # loc[p].digest
             THEN ReindexRefused(p)
             ELSE Goto(p, "capture")
          /\ NoFault
       \/ Fault /\ ReindexFailed(p) /\ UNCHANGED loc
    /\ UNCHANGED <<disk, tmp, lockIno>>

(* capture_inputs; reindex then parses the pages and decides. *)
CaptureInputs(p) ==
    /\ pc[p] = "capture"
    /\ \/ /\ loc' = [loc EXCEPT ![p].snap = pages]
          /\ IF loc[p].phase = "digest" THEN Goto(p, "validate")
             ELSE IF ~CanRebuild(loc[p].req, loc[p].index, pages) THEN ReindexRefused(p)
             ELSE IF CheckOnly(p) \/ Rebuilt(loc[p].index, pages) = Digest(loc[p].index)
             THEN Goto(p, "validate")
             ELSE Goto(p, "rx_temp")
          /\ NoFault
       \/ Fault /\ ReindexFailed(p) /\ UNCHANGED loc
    /\ UNCHANGED <<disk, tmp, lockIno>>

(* The read-only end of canonical_digest_from_fd and of reindex_from_fd.   *)
(* canonical_digest_locked's None is the refusal "INDEX.md is not          *)
(* canonical".                                                             *)
ValidateRead(p) ==
    /\ pc[p] = "validate"
    /\ \/ /\ IF ~InputsCurrent(p) \/ ~GuardCurrent(p)
             THEN ReindexFailed(p) /\ UNCHANGED loc
             ELSE IF loc[p].phase = "digest"
             THEN /\ loc' = [loc EXCEPT ![p].digest = Digest(loc[p].index)]
                  /\ IF Canonical(loc[p].index, loc[p].snap)
                     THEN Goto(p, "target")
                     ELSE Return(p, 2, FALSE, FALSE, FALSE)
             ELSE /\ Return(p, IF CheckOnly(p)
                                  /\ Rebuilt(loc[p].index, loc[p].snap) # Digest(loc[p].index)
                               THEN 1 ELSE 0, IsWrite(p), FALSE, FALSE)
                  /\ UNCHANGED loc
          /\ NoFault
       \/ Fault /\ ReindexFailed(p) /\ UNCHANGED loc
    /\ UNCHANGED <<disk, tmp, lockIno>>

(* What sha256 of a page tells apart. *)
SameBytes(m, n) == m.sum = n.sum /\ m.by = n.by

(* locked_create needs a free name; read_update_target a file with one     *)
(* link, and render_update a valid page with the digest its author read.   *)
UsableTarget(p, n) ==
    IF loc[p].req.op = "create" THEN n = None
    ELSE /\ n # None /\ n.nlink = 1 /\ n.sum \in Summaries
         /\ (loc[p].expect = None \/ SameBytes(n, loc[p].expect))

(* page_slugs, then locked_create's collision test or read_update_target   *)
(* and render_update.                                                      *)
ResolveTarget(p) ==
    /\ pc[p] = "target"
    /\ \/ /\ loc' = [loc EXCEPT ![p].target = pages[Slug(p)]]
          /\ IF UsableTarget(p, pages[Slug(p)]) THEN Goto(p, "temp")
             ELSE LET unsafe == loc[p].req.op = "update" /\ pages[Slug(p)] # None
                                /\ pages[Slug(p)].nlink # 1
                  IN Return(p, IF unsafe THEN 4 ELSE 2, FALSE, FALSE, FALSE)
          /\ NoFault
       \/ Fault /\ Return(p, 4, FALSE, FALSE, FALSE) /\ UNCHANGED loc
    /\ UNCHANGED <<disk, tmp, lockIno>>

(* create_temporary: O_EXCL under a name no other process uses. *)
CreateTemporary(p) ==
    /\ pc[p] \in {"temp", "rx_temp"}
    /\ \/ /\ tmp' = [tmp EXCEPT ![p] =
                [ino |-> clock + 1, dir |-> IF pc[p] = "temp" THEN "pages" ELSE "corpus"]]
          /\ Goto(p, IF pc[p] = "temp" THEN "write" ELSE "rx_write")
          /\ Tick
       \/ /\ Fault
          /\ Return(p, 4, pc[p] = "rx_temp" /\ IsWrite(p), FALSE, FALSE)
          /\ UNCHANGED tmp
    /\ UNCHANGED <<disk, lockIno, loc>>

Fail(p, why) ==
    /\ loc' = [loc EXCEPT ![p].fail = why]
    /\ Goto(p, "cleanup")

(* Mutant: the temporary is not flushed. *)
WriteTemporaryUnflushed(p) ==
    /\ pc[p] \in {"write", "rx_write"}
    /\ Goto(p, IF pc[p] = "write" THEN "check" ELSE "rx_validate")
    /\ NoFault
    /\ UNCHANGED <<disk, tmp, lockIno, loc>>

(* validate_temporary, write_all, fchmod and its verification, fsync. *)
WriteTemporary(p) ==
    /\ pc[p] \in {"write", "rx_write"}
    /\ \/ /\ loc' = [loc EXCEPT ![p].synced = TRUE]
          /\ Goto(p, IF pc[p] = "write" THEN "check" ELSE "rx_validate")
          /\ NoFault
       \/ Fault /\ Fail(p, IF pc[p] = "write" THEN "before" ELSE "index_before")
    /\ UNCHANGED <<disk, tmp, lockIno>>

(* Mutant: the target is not compared with the file the page was rendered  *)
(* from.                                                                   *)
CheckTargetGuardOnly(p) ==
    /\ pc[p] = "check"
    /\ \/ GuardCurrent(p) /\ Goto(p, "install") /\ UNCHANGED loc
       \/ ~GuardCurrent(p) /\ Fail(p, "before")
    /\ NoFault
    /\ UNCHANGED <<disk, tmp, lockIno>>

(* The checks before the page becomes visible: the guard, the pages        *)
(* directory, the target, the temporary.                                   *)
CheckTarget(p) ==
    /\ pc[p] = "check"
    /\ \/ /\ GuardCurrent(p)
          /\ pages[Slug(p)] = loc[p].target
          /\ Goto(p, "install") /\ UNCHANGED loc
          /\ NoFault
       \/ /\ GuardCurrent(p)
          /\ pages[Slug(p)] # loc[p].target
          /\ Fail(p, IF loc[p].req.op = "create" THEN "collision" ELSE "before")
          /\ NoFault
       \/ ~GuardCurrent(p) /\ Fail(p, "before") /\ NoFault
       \/ Fault /\ Fail(p, "before")
    /\ UNCHANGED <<disk, tmp, lockIno>>

NewPage(p, links) ==
    Node(tmp[p].ino, clock + 1, links, loc[p].req.sum, p, loc[p].synced)

(* Mutant: the page is moved into place with rename. *)
LinkPageByRename(p) ==
    /\ pc[p] = "install" /\ loc[p].req.op = "create"
    /\ pages' = [pages EXCEPT ![Slug(p)] = NewPage(p, 2)]
    /\ loc' = [loc EXCEPT ![p].wrote = clock + 1]
    /\ Goto(p, "unlink") /\ Tick
    /\ UNCHANGED <<index, dpages, dindex, tmp, lockIno>>

(* Mutant: EEXIST is retried for as long as it lasts. *)
LinkPageRetrying(p) ==
    /\ pc[p] = "install" /\ loc[p].req.op = "create"
    /\ pages[Slug(p)] = None
    /\ pages' = [pages EXCEPT ![Slug(p)] = NewPage(p, 2)]
    /\ loc' = [loc EXCEPT ![p].wrote = clock + 1]
    /\ Goto(p, "unlink") /\ Tick
    /\ UNCHANGED <<index, dpages, dindex, tmp, lockIno>>

(* linkat never replaces a file: a page that appeared since the check is   *)
(* a collision.                                                            *)
LinkPage(p) ==
    /\ pc[p] = "install" /\ loc[p].req.op = "create"
    /\ \/ /\ pages[Slug(p)] = None
          /\ pages' = [pages EXCEPT ![Slug(p)] = NewPage(p, 2)]
          /\ loc' = [loc EXCEPT ![p].wrote = clock + 1]
          /\ Goto(p, "unlink")
          /\ Tick
       \/ /\ pages[Slug(p)] # None
          /\ Fail(p, "collision") /\ NoFault /\ UNCHANGED pages
       \/ Fault /\ Fail(p, "before") /\ UNCHANGED pages
    /\ UNCHANGED <<index, dpages, dindex, tmp, lockIno>>

(* renameat replaces whatever the name holds. *)
RenamePage(p) ==
    /\ pc[p] = "install" /\ loc[p].req.op = "update"
    /\ \/ /\ pages' = [pages EXCEPT ![Slug(p)] = NewPage(p, 1)]
          /\ tmp' = [tmp EXCEPT ![p] = None]
          /\ loc' = [loc EXCEPT ![p].wrote = clock + 1]
          /\ Goto(p, "sync_pages")
          /\ Tick
       \/ Fault /\ Fail(p, "before") /\ UNCHANGED <<pages, tmp>>
    /\ UNCHANGED <<index, dpages, dindex, lockIno>>

(* Removing a temporary's name takes one link from the page it became. *)
DropTemporary(p) ==
    /\ tmp' = [tmp EXCEPT ![p] = None]
    /\ pages' = [s \in Slugs |->
         IF pages[s] # None /\ tmp[p].dir = "pages" /\ pages[s].ino = tmp[p].ino
         THEN [pages[s] EXCEPT !.nlink = 1] ELSE pages[s]]

UnlinkTemporary(p) ==
    /\ pc[p] = "unlink"
    /\ \/ DropTemporary(p) /\ Goto(p, "sync_pages") /\ NoFault /\ UNCHANGED loc
       \/ Fault /\ Fail(p, "after") /\ UNCHANGED <<pages, tmp>>
    /\ UNCHANGED <<index, dpages, dindex, lockIno>>

(* Mutant: the pages directory is not flushed. *)
SyncPagesSkipped(p) ==
    /\ pc[p] = "sync_pages"
    /\ loc' = [loc EXCEPT ![p].phase = "reindex", ![p].synced = FALSE]
    /\ Goto(p, "read_index")
    /\ NoFault
    /\ UNCHANGED <<disk, tmp, lockIno>>

(* fsync of pages/; success enters finish_index. *)
SyncPages(p) ==
    /\ pc[p] = "sync_pages"
    /\ \/ /\ dpages' = pages
          /\ loc' = [loc EXCEPT ![p].phase = "reindex", ![p].synced = FALSE]
          /\ Goto(p, "read_index")
          /\ NoFault
       \/ Fault /\ Fail(p, "after") /\ UNCHANGED dpages
    /\ UNCHANGED <<pages, index, dindex, tmp, lockIno>>

(* write_and_replace's final validation (made twice in a row). *)
ValidateReplace(p) ==
    /\ pc[p] = "rx_validate"
    /\ \/ /\ InputsCurrent(p) /\ GuardCurrent(p)
          /\ Goto(p, "rx_rename") /\ UNCHANGED loc
          /\ NoFault
       \/ ~(InputsCurrent(p) /\ GuardCurrent(p)) /\ Fail(p, "index_before") /\ NoFault
       \/ Fault /\ Fail(p, "index_before")
    /\ UNCHANGED <<disk, tmp, lockIno>>

RenameIndex(p) ==
    /\ pc[p] = "rx_rename"
    /\ \/ /\ index' = IndexNode(clock + 1, Rebuilt(loc[p].index, loc[p].snap), p, loc[p].synced)
          /\ tmp' = [tmp EXCEPT ![p] = None]
          /\ Goto(p, "rx_sync") /\ UNCHANGED loc
          /\ Tick
       \/ Fault /\ Fail(p, "index_before") /\ UNCHANGED <<index, tmp>>
    /\ UNCHANGED <<pages, dpages, dindex, lockIno>>

SyncIndex(p) ==
    /\ pc[p] = "rx_sync"
    /\ \/ /\ dindex' = index
          /\ Return(p, 0, IsWrite(p), TRUE, FALSE) /\ UNCHANGED loc
          /\ NoFault
       \/ Fault /\ Fail(p, "index_after") /\ UNCHANGED dindex
    /\ UNCHANGED <<pages, index, dpages, tmp, lockIno>>

(* Mutant: page_visible does not look inside a composed cleanup failure.   *)
FailedShallow(p, residue) ==
    LET why == loc[p].fail IN
    Return(p, IF why = "collision" THEN 2 ELSE 4,
           ~residue /\ (why = "after" \/ (why \in {"index_before", "index_after"} /\ IsWrite(p))),
           why = "index_after", residue)

(* cleanup_temporary, then the answer the failure maps to: collision is    *)
(* exit 2; an error before the page was visible names no path; after it,   *)
(* the page's path; after INDEX.md was replaced, both.                     *)
Failed(p, residue) ==
    LET why == loc[p].fail IN
    Return(p, IF why = "collision" THEN 2 ELSE 4,
           why = "after" \/ (why \in {"index_before", "index_after"} /\ IsWrite(p)),
           why = "index_after", residue)

(* A page's temporary that was renamed or unlinked is known to be gone; an *)
(* index's is looked up, which may fail, even after it became INDEX.md.    *)
CleanupTemporary(p) ==
    /\ pc[p] = "cleanup"
    /\ \/ tmp[p] = None /\ Failed(p, FALSE) /\ NoFault /\ UNCHANGED <<tmp, pages>>
       \/ tmp[p] # None /\ DropTemporary(p) /\ Failed(p, FALSE) /\ NoFault
       \/ /\ tmp[p] # None \/ loc[p].fail = "index_after"
          /\ Fault /\ Failed(p, TRUE) /\ UNCHANGED <<tmp, pages>>
    /\ UNCHANGED <<index, dpages, dindex, lockIno, loc>>

-----------------------------------------------------------------------------
(* The environment *)

(* The process is killed: the kernel drops its flock, its files stay.      *)
Crash(p) ==
    /\ Running(p) /\ crashes < MaxCrashes
    /\ crashes' = crashes + 1
    /\ pc' = [pc EXCEPT ![p] = "crashed"]
    /\ held' = [held EXCEPT ![p] = None]
    /\ UNCHANGED <<disk, tmp, lockIno, loc, out, clock, edits, faults>>

Survivor(n) == IF n = None \/ n.synced THEN n ELSE [n EXCEPT !.sum = Torn]

(* The power fails: each directory entry changed since its directory was   *)
(* last flushed is either the old or the new one.                          *)
PowerLoss ==
    /\ crashes < MaxCrashes
    /\ crashes' = crashes + 1
    /\ pages' \in {pp \in [Slugs -> {Survivor(pages[s]) : s \in Slugs} \cup
                                    {dpages[s] : s \in Slugs}] :
                     \A s \in Slugs : pp[s] \in {Survivor(pages[s]), dpages[s]}}
    /\ index' \in {IF index.synced THEN index ELSE [index EXCEPT !.shape = "broken"], dindex}
    /\ dpages' = pages' /\ dindex' = index'
    /\ pc' = [p \in Procs |-> IF Running(p) THEN "crashed" ELSE pc[p]]
    /\ held' = [p \in Procs |-> None]
    /\ UNCHANGED <<tmp, lockIno, loc, out, clock, edits, faults>>

(* The window the code leaves open: a program without the lock that acts   *)
(* after the last check and before the rename.                             *)
Quiet == FinalRace \/ \A p \in Procs : pc[p] \notin {"install", "rx_rename"}

(* Nobody replaces the lock file in that window. *)
LockStays == ~FinalRace \/ "rebind" \notin EditorOps

Editor ==
    /\ edits < MaxEdits /\ Quiet
    /\ edits' = edits + 1 /\ clock' = clock + 1
    /\ UNCHANGED <<dpages, dindex, tmp, held, pc, loc, out, faults, crashes>>

EditPage(s) ==
    /\ "edit" \in EditorOps /\ Editor /\ pages[s] # None
    /\ \E m \in Summaries \cup {Bad} :
         pages' = [pages EXCEPT ![s].sum = m, ![s].by = None, ![s].stamp = clock + 1,
                                ![s].synced = TRUE]
    /\ UNCHANGED <<index, lockIno>>

AddPage(s) ==
    /\ "add" \in EditorOps /\ Editor /\ pages[s] = None
    /\ \E m \in Summaries :
         pages' = [pages EXCEPT ![s] = Node(clock + 1, clock + 1, 1, m, None, TRUE)]
    /\ UNCHANGED <<index, lockIno>>

DeletePage(s) ==
    /\ "delete" \in EditorOps /\ Editor /\ pages[s] # None
    /\ pages' = [pages EXCEPT ![s] = None]
    /\ UNCHANGED <<index, lockIno>>

EditIndex ==
    /\ "index" \in EditorOps /\ Editor
    /\ \/ index' = [index EXCEPT !.head = clock + 1, !.stamp = clock + 1, !.by = None,
                                 !.synced = TRUE]
       \/ \E sh \in {"marked", "legacy", "broken"} :
            index' = [index EXCEPT !.shape = sh, !.catalog = <<>>, !.stamp = clock + 1,
                                   !.by = None, !.synced = TRUE]
    /\ UNCHANGED <<pages, lockIno>>

(* Another program replaces .write.lock, so its name has a new inode.      *)
RebindLock ==
    /\ "rebind" \in EditorOps /\ Editor
    /\ lockIno' = lockIno + 1
    /\ UNCHANGED <<pages, index>>

-----------------------------------------------------------------------------
Step(p) ==
    \/ Start(p) \/ Acquire(p) \/ LockRefused(p)
    \/ ReadIndex(p) \/ CaptureInputs(p) \/ ValidateRead(p) \/ ResolveTarget(p)
    \/ CreateTemporary(p) \/ WriteTemporary(p) \/ CheckTarget(p)
    \/ LinkPage(p) \/ RenamePage(p) \/ UnlinkTemporary(p) \/ SyncPages(p)
    \/ ValidateReplace(p) \/ RenameIndex(p) \/ SyncIndex(p)
    \/ CleanupTemporary(p)

Environment ==
    \/ \E p \in Procs : Crash(p)
    \/ PowerLoss
    \/ \E s \in Slugs : EditPage(s) \/ AddPage(s) \/ DeletePage(s)
    \/ EditIndex \/ RebindLock

Next == (\E p \in Procs : Step(p)) \/ Environment

Spec == Init /\ [][Next]_vars

(* A started command keeps running: the scheduler and the kernel do not    *)
(* stop it for ever.  Nothing is assumed of the environment.               *)
Advance(p) == pc[p] # "idle" /\ Step(p)
FairSpec == Spec /\ \A p \in Procs : WF_vars(Advance(p))

-----------------------------------------------------------------------------
(* Properties *)

Returned(p) == pc[p] = "done"
Committing(p) == pc[p] \in {"install", "rx_rename"}

(* Two processes are never both past their last check: the flock on the    *)
(* inode .write.lock names now, and the guard's revalidation, admit one    *)
(* committer even when another program replaced the lock file in between   *)
(* (write.rs install_create/install_update, durable.rs write_and_replace). *)
OneCommitter ==
    \A p, q \in Procs : Committing(p) /\ Committing(q) => p = q

(* What a command says is what it did: unless its answer names the page's  *)
(* path no page on disk is its work, and unless it says INDEX.md was       *)
(* regenerated the catalog is not its work - on every failure path, with   *)
(* any system call failing (page_visible, index_was_replaced).  And unless *)
(* it says that its cleanup failed it leaves no temporary and no page with *)
(* a second link, which every later update would refuse                    *)
(* (cleanup_temporary, compose_cleanup); only a power cut may bring back a *)
(* name whose removal was not flushed.                                     *)
ReportIsHonest ==
    \A p \in Procs : Returned(p) =>
        /\ ~out[p].page => \A s \in Slugs : pages[s] # None => pages[s].by # p
        /\ ~out[p].index => index.by # p
        /\ ~out[p].residue =>
             /\ tmp[p] = None
             /\ crashes = 0 => \A s \in Slugs :
                  pages[s] # None /\ pages[s].by = p => pages[s].nlink = 1

(* Exit 0 promises durability: the page's directory entry was flushed, so  *)
(* a power cut leaves this version or a later one, and a catalog reported  *)
(* regenerated lists it (install_*'s fsync of pages/, write_and_replace's  *)
(* fsync of the corpus).  Stated for an editor that deletes nothing and    *)
(* leaves INDEX.md alone, and with LockStays: a lock file replaced in the  *)
(* last window lets a second writer in, whose catalog the first one then   *)
(* overwrites with its own, older one.                                     *)
SuccessIsDurable ==
    \A p \in Procs : Returned(p) /\ out[p].exit = 0 /\ IsWrite(p) =>
        /\ dpages[Slug(p)] # None
        /\ dpages[Slug(p)].stamp >= loc[p].wrote
        /\ out[p].index => Slug(p) \in DOMAIN dindex.catalog

(* No power cut, at any moment, leaves a page or an INDEX.md with lost     *)
(* contents: every temporary is flushed before its name is published.      *)
NeverTorn ==
    /\ \A s \in Slugs : pages[s] # None => pages[s].sum # Torn
    /\ "index" \notin EditorOps => index.shape # "broken"

(* Only an update replaces a page: whatever made the page, and however     *)
(* late it appeared, a create leaves it alone (linkat, not rename:         *)
(* a_link_time_winner_is_never_overwritten...).                            *)
CreateNeverOverwrites ==
    [][\A p \in Procs, s \in Slugs :
         (/\ crashes' = crashes
          /\ pages[s] # None /\ pages[s].by # p
          /\ pages'[s] # None /\ pages'[s].by = p)
         => loc[p].req.op = "update"]_vars

(* An update replaces the very file it was rendered from, and when its     *)
(* author named a digest, the contents that author read.                   *)
UpdateReplacesWhatItRead ==
    [][\A p \in Procs :
         (pc[p] = "install" /\ pc'[p] = "sync_pages") =>
            /\ pages[Slug(p)] = loc[p].target
            /\ loc[p].expect # None => SameBytes(pages[Slug(p)], loc[p].expect)]_vars

(* INDEX.md is replaced only by the catalog of the pages that exist at     *)
(* that moment, and the hand-written text around it is the text it         *)
(* replaces: no edit is lost (revalidate_inputs before renameat).          *)
IndexReplacedByTruth ==
    [][index' # index /\ index'.by # None /\ crashes' = crashes =>
         /\ index'.catalog = Catalog(pages)
         /\ index'.head = index.head]_vars

(* Every command that starts is answered, or is killed: no failure path    *)
(* leaves it waiting.  A process runs one command, so in the end none is   *)
(* under way.                                                              *)
EveryCommandEnds == <>[](\A p \in Procs : ~Running(p))

(* README.md: "Writes are all-or-nothing ... If any step fails, nothing    *)
(* changes at all."                                                        *)
FailureChangesNothing ==
    \A p \in Procs : Returned(p) /\ IsWrite(p) /\ out[p].exit # 0 =>
        /\ \A s \in Slugs : pages[s] # None => pages[s].by # p
        /\ index.by # p
=============================================================================
