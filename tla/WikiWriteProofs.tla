---------------------------- MODULE WikiWriteProofs ----------------------------
(***************************************************************************)
(* Proofs about the wiki's write transaction, for any processes, pages and *)
(* requests, and any number of edits, failing calls, kills and power cuts. *)
(***************************************************************************)
EXTENDS WikiWrite, TLAPS

-----------------------------------------------------------------------------
(* What each process knows and has.                                        *)

WriteSteps == {"target", "temp", "write", "check", "install", "unlink", "sync_pages"}
ReplaceSteps == {"rx_temp", "rx_write", "rx_validate", "rx_rename", "rx_sync"}

(* Steps with a temporary on disk: beside the page, beside INDEX.md. *)
PageTemporary == {"write", "check", "install", "unlink"}
IndexTemporary == {"rx_write", "rx_validate", "rx_rename"}

LocFields == {"req", "phase", "expect", "index", "snap", "digest", "target",
              "synced", "fail", "wrote"}

Nodes == [ino : Nat, stamp : Nat, nlink : Nat, sum : Summaries \cup {Bad},
          by : Procs \cup {None}, synced : {TRUE}]
Flocks == [ino : Nat, mode : {"shared", "exclusive"}]
Temporaries == [ino : Nat, dir : {"pages", "corpus"}]

Shapes ==
    /\ DOMAIN pc = Procs /\ DOMAIN loc = Procs /\ DOMAIN out = Procs
    /\ held \in [Procs -> Flocks \cup {None}]
    /\ tmp \in [Procs -> Temporaries \cup {None}]
    /\ \A p \in Procs : DOMAIN loc[p] = LocFields
    /\ lockIno \in Nat /\ clock \in Nat /\ crashes \in Nat

(* Where a command can be with which request, and after which phase. *)
Flow(p) ==
    /\ pc[p] = "idle" \/ (loc[p].req \in Requests /\ loc[p].phase \in {"digest", "reindex"})
    /\ pc[p] \in WriteSteps => IsWrite(p) /\ loc[p].phase = "digest"
    /\ pc[p] \in ReplaceSteps => loc[p].phase = "reindex" /\ ~CheckOnly(p)
    /\ pc[p] \in {"idle", "acquire"} \cup WriteSteps => loc[p].phase # "reindex" \/ ~IsWrite(p)
    /\ pc[p] # "idle" /\ ~IsWrite(p) => loc[p].phase = "reindex" \/ pc[p] = "done"
    /\ pc[p] = "cleanup" =>
         (loc[p].phase = "reindex" <=> loc[p].fail \in {"index_before", "index_after"})
    /\ pc[p] = "done" /\ IsWrite(p) =>
         /\ loc[p].phase = "reindex" => out[p].page
         /\ out[p].exit = 0 => loc[p].phase = "reindex"

(* A flock is the one the request asks for; no one waiting has one. *)
Locked(p) ==
    held[p] # None =>
        /\ pc[p] \in Steps \ {"acquire"}
        /\ held[p].mode = LockModeOf(loc[p].req) /\ held[p].ino <= lockIno

(* A process that has published a page is on its way to say so. *)
Wrote(p) ==
    loc[p].wrote # 0 =>
        /\ pc[p] # "idle"
        /\ \/ loc[p].phase = "reindex" /\ IsWrite(p)
           \/ pc[p] \in {"unlink", "sync_pages", "crashed"}
           \/ pc[p] = "cleanup" /\ loc[p].fail = "after"
           \/ pc[p] = "done" /\ out[p].page

(* The temporary of a process is beside what it is about to replace, and   *)
(* no answer leaves one behind without saying so.                          *)
Temps(p) ==
    /\ pc[p] \in PageTemporary => tmp[p] # None /\ tmp[p].dir = "pages"
    /\ pc[p] \in IndexTemporary => tmp[p] # None /\ tmp[p].dir = "corpus"
    /\ tmp[p] # None =>
         \/ pc[p] \in PageTemporary \cup IndexTemporary \cup {"cleanup", "crashed"}
         \/ pc[p] = "done" /\ out[p].residue

(* What is about to be published has been flushed, and an update knows the *)
(* page it replaces.                                                       *)
Ready(p) ==
    /\ pc[p] \in {"check", "install", "rx_validate", "rx_rename"} => loc[p].synced
    /\ pc[p] \in {"temp", "write", "check", "install"} => UsableTarget(p, loc[p].target)

Local(p) == Flow(p) /\ Locked(p) /\ Wrote(p) /\ Temps(p) /\ Ready(p)

-----------------------------------------------------------------------------
(* What is on disk.                                                        *)

Directory(pp) ==
    /\ pp \in [Slugs -> Nodes \cup {None}]
    /\ \A s \in Slugs : pp[s] # None =>
         /\ pp[s].stamp <= clock
         /\ \A p \in Procs : pp[s].by = p => loc[p].wrote # 0

(* The process has put its catalog in place and is on its way to say so. *)
Replaced(p) ==
    \/ pc[p] \in {"rx_sync", "crashed"}
    \/ pc[p] = "cleanup" /\ loc[p].fail = "index_after"
    \/ pc[p] = "done" /\ out[p].index

IndexFields == {"stamp", "shape", "head", "catalog", "by", "synced"}

IndexFile(ix) ==
    /\ DOMAIN ix = IndexFields /\ ix.synced
    /\ "index" \notin EditorOps => ix.shape # "broken"
    /\ ix.by = None \/ (ix.by \in Procs /\ Replaced(ix.by))

(* A page with a second link is the one its writer's temporary became. *)
Links ==
    crashes = 0 => \A p \in Procs, s \in Slugs :
        pages[s] # None /\ pages[s].by = p /\ pages[s].nlink # 1
            => tmp[p] # None /\ tmp[p].dir = "pages" /\ tmp[p].ino = pages[s].ino

Disk == Directory(pages) /\ Directory(dpages) /\ IndexFile(index) /\ IndexFile(dindex) /\ Links

(* The invariant, for whatever the editor does and whenever. *)
Inv == Shapes /\ (\A p \in Procs : Local(p)) /\ Disk

-----------------------------------------------------------------------------
(* The lock, when nothing moves it away in the last window.                *)

Exclusion ==
    /\ \A p, q \in Procs :
        p # q /\ held[p] # None /\ held[q] # None /\ held[p].ino = held[q].ino
            => held[p].mode = "shared"
    /\ \A p \in Procs : Committing(p) => GuardCurrent(p)

(* What was checked last is still so. *)
Window ==
    \A p \in Procs :
        /\ pc[p] = "install" => pages[Slug(p)] = loc[p].target
        /\ pc[p] = "rx_rename" => Catalog(pages) = Catalog(loc[p].snap) /\ index = loc[p].index

(* The page of process p is visible, and p has not failed. *)
Visible(p) ==
    pc[p] # "idle" /\ IsWrite(p) /\ (pc[p] \in {"unlink", "sync_pages"} \/ loc[p].phase = "reindex")

HasPage(pp, p) == pp[Slug(p)] # None /\ pp[Slug(p)].stamp >= loc[p].wrote
Listed(ix, p) == Slug(p) \in DOMAIN ix.catalog
Regenerated(p) == pc[p] = "rx_sync" \/ (pc[p] = "done" /\ out[p].exit = 0 /\ out[p].index)

Durable ==
    \A p \in Procs :
      Visible(p) =>
        /\ loc[p].wrote \in Nat
        /\ HasPage(pages, p)
        /\ loc[p].phase = "reindex" => HasPage(dpages, p)
        /\ \A q \in Procs : pc[q] = "rx_rename" => loc[q].snap[Slug(p)] # None
        /\ pc[p] \in ReplaceSteps => loc[p].snap[Slug(p)] # None
        /\ Regenerated(p) => Listed(index, p)
        /\ Regenerated(p) /\ pc[p] = "done" => Listed(dindex, p)

-----------------------------------------------------------------------------
(* What the helpers of the process steps do.                               *)

(* No other process is touched. *)
Alone(p) ==
    \A q \in Procs \ {p} :
        /\ pc'[q] = pc[q] /\ loc'[q] = loc[q] /\ out'[q] = out[q]
        /\ held'[q] = held[q] /\ tmp'[q] = tmp[q]

LEMMA GotoFacts ==
    ASSUME Shapes, NEW p \in Procs, NEW step, Goto(p, step)
    PROVE  /\ DOMAIN pc' = Procs /\ pc'[p] = step /\ UNCHANGED <<held, out>>
           /\ \A q \in Procs \ {p} : pc'[q] = pc[q]
BY DEF Goto, Shapes

(* The command has answered, and has let go of the lock. *)
Ended(p) ==
    /\ DOMAIN pc' = Procs /\ pc'[p] = "done"
    /\ held' \in [Procs -> Flocks \cup {None}] /\ held'[p] = None
    /\ DOMAIN out' = Procs
    /\ \A q \in Procs \ {p} : pc'[q] = pc[q] /\ held'[q] = held[q] /\ out'[q] = out[q]

LEMMA ReturnFacts ==
    ASSUME Shapes, NEW p \in Procs, NEW e, NEW page, NEW ix, NEW residue,
           Return(p, e, page, ix, residue)
    PROVE  /\ Ended(p) /\ out'[p].exit = e
           /\ out'[p].page = page /\ out'[p].index = ix /\ out'[p].residue = residue
BY DEF Return, Shapes, Ended

(* Setting a field of what p knows. *)
LocShape == DOMAIN loc = Procs /\ \A q \in Procs : DOMAIN loc[q] = LocFields
OtherLocs(p) == \A q \in Procs \ {p} : loc'[q] = loc[q]
Same(p, fields) == \A f \in fields : loc'[p][f] = loc[p][f]

LEMMA SetIndex ==
    ASSUME Shapes, NEW p \in Procs, NEW v,
           loc' = [loc EXCEPT ![p].index = v]
    PROVE  LocShape' /\ OtherLocs(p) /\ loc'[p].index = v
           /\ Same(p, {"req", "phase", "expect", "snap", "digest", "target", "synced", "fail", "wrote"})
BY DEF Shapes, LocFields, LocShape, OtherLocs, Same

LEMMA SetSnap ==
    ASSUME Shapes, NEW p \in Procs, NEW v,
           loc' = [loc EXCEPT ![p].snap = v]
    PROVE  LocShape' /\ OtherLocs(p) /\ loc'[p].snap = v
           /\ Same(p, {"req", "phase", "expect", "index", "digest", "target", "synced", "fail", "wrote"})
BY DEF Shapes, LocFields, LocShape, OtherLocs, Same

LEMMA SetDigest ==
    ASSUME Shapes, NEW p \in Procs, NEW v,
           loc' = [loc EXCEPT ![p].digest = v]
    PROVE  LocShape' /\ OtherLocs(p) /\ loc'[p].digest = v
           /\ Same(p, {"req", "phase", "expect", "index", "snap", "target", "synced", "fail", "wrote"})
BY DEF Shapes, LocFields, LocShape, OtherLocs, Same

LEMMA SetTarget ==
    ASSUME Shapes, NEW p \in Procs, NEW v,
           loc' = [loc EXCEPT ![p].target = v]
    PROVE  LocShape' /\ OtherLocs(p) /\ loc'[p].target = v
           /\ Same(p, {"req", "phase", "expect", "index", "snap", "digest", "synced", "fail", "wrote"})
BY DEF Shapes, LocFields, LocShape, OtherLocs, Same

LEMMA SetSynced ==
    ASSUME Shapes, NEW p \in Procs,
           loc' = [loc EXCEPT ![p].synced = TRUE]
    PROVE  LocShape' /\ OtherLocs(p) /\ loc'[p].synced = TRUE
           /\ Same(p, {"req", "phase", "expect", "index", "snap", "digest", "target", "fail", "wrote"})
BY DEF Shapes, LocFields, LocShape, OtherLocs, Same

LEMMA SetFail ==
    ASSUME Shapes, NEW p \in Procs, NEW v,
           loc' = [loc EXCEPT ![p].fail = v]
    PROVE  LocShape' /\ OtherLocs(p) /\ loc'[p].fail = v
           /\ Same(p, {"req", "phase", "expect", "index", "snap", "digest", "target", "synced", "wrote"})
BY DEF Shapes, LocFields, LocShape, OtherLocs, Same

LEMMA SetWrote ==
    ASSUME Shapes, NEW p \in Procs, NEW v,
           loc' = [loc EXCEPT ![p].wrote = v]
    PROVE  LocShape' /\ OtherLocs(p) /\ loc'[p].wrote = v
           /\ Same(p, {"req", "phase", "expect", "index", "snap", "digest", "target", "synced", "fail"})
BY DEF Shapes, LocFields, LocShape, OtherLocs, Same

LEMMA SetPhase ==
    ASSUME Shapes, NEW p \in Procs, NEW v,
           loc' = [loc EXCEPT ![p].phase = v, ![p].synced = FALSE]
    PROVE  LocShape' /\ OtherLocs(p) /\ loc'[p].phase = v
           /\ Same(p, {"req", "expect", "index", "snap", "digest", "target", "fail", "wrote"})
BY DEF Shapes, LocFields, LocShape, OtherLocs, Same

-----------------------------------------------------------------------------
(* Every step of a process keeps what the processes know and have.         *)

(* The counters: only the environment kills, and it alone moves the lock. *)
Ticks == clock' \in {clock, clock + 1} /\ UNCHANGED <<crashes, lockIno>>

LEMMA CountFacts ==
    ASSUME Fault \/ NoFault \/ Tick, UNCHANGED lockIno
    PROVE  Ticks
BY DEF Fault, NoFault, Tick, Ticks, bounds

(* What a step of p has to show. *)
Stepped(p) == Shapes' /\ Alone(p) /\ Local(p)'

(* The command returns: it names what it did, and has let go of the lock.  *)
LEMMA ReturnLocal ==
    ASSUME Inv, NEW p \in Procs, Ended(p), Ticks,
           LocShape', OtherLocs(p), Same(p, {"req", "phase", "wrote"}),
           tmp' \in [Procs -> Temporaries \cup {None}],
           \A q \in Procs \ {p} : tmp'[q] = tmp[q],
           loc[p].req \in Requests, loc[p].phase \in {"digest", "reindex"},
           IsWrite(p) /\ loc[p].phase = "reindex" => out'[p].page,
           IsWrite(p) /\ out'[p].exit = 0 => loc[p].phase = "reindex",
           loc[p].wrote # 0 => out'[p].page,
           tmp'[p] # None => out'[p].residue
    PROVE  Stepped(p)
<1>1. /\ pc'[p] = "done" /\ held'[p] = None
      /\ \A q \in Procs \ {p} : pc'[q] = pc[q] /\ held'[q] = held[q] /\ out'[q] = out[q]
  BY DEF Ended
<1>2. Shapes'
  BY DEF Shapes, LocShape, Ticks, Inv, Ended
<1>3. Alone(p)
  BY <1>1 DEF Alone, OtherLocs
<1>4. loc'[p].req = loc[p].req /\ loc'[p].phase = loc[p].phase /\ loc'[p].wrote = loc[p].wrote
  BY DEF Same
<1>5. Flow(p)'
  BY <1>1, <1>4 DEF Flow, WriteSteps, ReplaceSteps, IsWrite
<1>6. Locked(p)' /\ Wrote(p)' /\ Temps(p)' /\ Ready(p)'
  BY <1>1, <1>4 DEF Locked, Wrote, Temps, Ready, PageTemporary, IndexTemporary
<1> QED
  BY <1>2, <1>3, <1>5, <1>6 DEF Stepped, Local

(* A failure that leaves a temporary to be cleaned up. *)
LEMMA FailLocal ==
    ASSUME Inv, NEW p \in Procs, NEW why, Fail(p, why), Ticks, UNCHANGED tmp,
           pc[p] \in WriteSteps \cup ReplaceSteps,
           loc[p].phase = "reindex" <=> why \in {"index_before", "index_after"},
           loc[p].wrote # 0 /\ why # "after" => loc[p].phase = "reindex" /\ IsWrite(p)
    PROVE  Stepped(p)
<1>1. /\ DOMAIN pc' = Procs /\ pc'[p] = "cleanup" /\ UNCHANGED <<held, out>>
      /\ \A q \in Procs \ {p} : pc'[q] = pc[q]
  BY GotoFacts DEF Fail, Inv
<1>2. LocShape' /\ OtherLocs(p) /\ loc'[p].fail = why /\ Same(p, {"req", "phase", "wrote"})
  <2>1. Shapes /\ loc' = [loc EXCEPT ![p].fail = why]
    BY DEF Fail, Inv
  <2>2. /\ LocShape' /\ OtherLocs(p) /\ loc'[p].fail = why
        /\ Same(p, {"req", "phase", "expect", "index", "snap", "digest", "target", "synced", "wrote"})
    BY <2>1, SetFail
  <2> QED
    BY <2>2 DEF Same
<1>3. loc'[p].req = loc[p].req /\ loc'[p].phase = loc[p].phase /\ loc'[p].wrote = loc[p].wrote
  BY <1>2 DEF Same
<1>4. Shapes'
  BY <1>1, <1>2 DEF Shapes, LocShape, Ticks, Inv
<1>5. Alone(p)
  BY <1>1, <1>2 DEF Alone, OtherLocs
<1>6. pc[p] # "idle" /\ pc[p] \notin {"acquire", "done"} /\ "cleanup" \in Steps \ {"acquire"}
  BY DEF WriteSteps, ReplaceSteps, Steps
<1>7. Flow(p)'
  <2>1. /\ loc[p].req \in Requests /\ loc[p].phase \in {"digest", "reindex"}
        /\ ~IsWrite(p) => loc[p].phase = "reindex"
    BY <1>6 DEF Inv, Local, Flow
  <2> QED
    BY <1>1, <1>2, <1>3, <2>1 DEF Flow, WriteSteps, ReplaceSteps, IsWrite
<1>8. Locked(p)'
  BY <1>1, <1>3, <1>6 DEF Inv, Local, Locked, Ticks
<1>9. Wrote(p)' /\ Temps(p)' /\ Ready(p)'
  BY <1>1, <1>2, <1>3 DEF Wrote, Temps, Ready, PageTemporary, IndexTemporary, IsWrite
<1> QED
  BY <1>4, <1>5, <1>7, <1>8, <1>9 DEF Stepped, Local

(* A step within the command.  Its flow and what it has ready depend on    *)
(* the step, the rest is the same for all.                                 *)
LEMMA GotoLocal ==
    ASSUME Inv, NEW p \in Procs, NEW step, Goto(p, step), Ticks,
           LocShape', OtherLocs(p), Same(p, {"req"}),
           tmp' \in [Procs -> Temporaries \cup {None}],
           \A q \in Procs \ {p} : tmp'[q] = tmp[q],
           step \in Steps \ {"acquire"},
           Flow(p)', Wrote(p)', Temps(p)', Ready(p)'
    PROVE  Stepped(p)
<1>1. /\ DOMAIN pc' = Procs /\ pc'[p] = step /\ UNCHANGED <<held, out>>
      /\ \A q \in Procs \ {p} : pc'[q] = pc[q]
  BY GotoFacts DEF Inv
<1>2. Shapes'
  BY <1>1 DEF Shapes, LocShape, Ticks, Inv
<1>3. Alone(p)
  BY <1>1 DEF Alone, OtherLocs
<1>4. Locked(p)'
  BY <1>1 DEF Inv, Local, Locked, Ticks, Same
<1> QED
  BY <1>2, <1>3, <1>4 DEF Stepped, Local

(* Before the request is known to have a page, and while it only reads. *)
LEMMA ReadingFacts ==
    ASSUME Inv, NEW p \in Procs, pc[p] \in {"acquire", "read_index", "capture", "validate"}
    PROVE  /\ tmp[p] = None /\ loc[p].req \in Requests
           /\ loc[p].phase \in {"digest", "reindex"}
           /\ loc[p].wrote # 0 => loc[p].phase = "reindex" /\ IsWrite(p)
           /\ ~IsWrite(p) => loc[p].phase = "reindex"
BY DEF Inv, Local, Flow, Wrote, Temps, PageTemporary, IndexTemporary

(* While a page is prepared nothing has been published. *)
LEMMA WritingFacts ==
    ASSUME Inv, NEW p \in Procs, pc[p] \in {"target", "temp", "write", "check", "install"}
    PROVE  /\ loc[p].req \in Requests /\ IsWrite(p) /\ loc[p].phase = "digest"
           /\ loc[p].wrote = 0
BY DEF Inv, Local, Flow, Wrote, WriteSteps

(* While INDEX.md is replaced, a page there is has been flushed. *)
LEMMA ReplacingFacts ==
    ASSUME Inv, NEW p \in Procs, pc[p] \in ReplaceSteps
    PROVE  /\ loc[p].req \in Requests /\ loc[p].phase = "reindex" /\ ~CheckOnly(p)
           /\ loc[p].wrote # 0 => IsWrite(p)
BY DEF Inv, Local, Flow, Wrote, ReplaceSteps

(* When nothing of what p knows changes. *)
LEMMA SameLoc ==
    ASSUME Inv, NEW p \in Procs, UNCHANGED loc
    PROVE  LocShape' /\ OtherLocs(p) /\ Same(p, LocFields) /\ Same(p, {"req", "phase", "wrote"})
BY DEF Inv, Shapes, LocShape, OtherLocs, Same

LEMMA SameTmp ==
    ASSUME Inv, UNCHANGED tmp
    PROVE  /\ tmp' \in [Procs -> Temporaries \cup {None}]
           /\ \A q \in Procs : tmp'[q] = tmp[q]
BY DEF Inv, Shapes

LEMMA StartLocal ==
    ASSUME Inv, NEW p \in Procs, Start(p)
    PROVE  Stepped(p)
<1>1. /\ pc[p] = "idle" /\ Ticks /\ UNCHANGED tmp
  BY CountFacts DEF Start
<1>2. PICK r \in Requests :
        /\ loc' = [loc EXCEPT ![p] =
             [NoLoc EXCEPT !.req = r,
                           !.phase = IF r.op = "catalog" THEN "reindex" ELSE "digest",
                           !.expect = IF r.op = "update" /\ r.pinned
                                      THEN pages[r.slug] ELSE None]]
        /\ IF r.op = "malformed" THEN Return(p, 2, FALSE, FALSE, FALSE)
                                 ELSE Goto(p, "acquire")
  BY DEF Start
<1>3. /\ LocShape' /\ OtherLocs(p) /\ loc'[p].req = r /\ loc'[p].wrote = 0
      /\ loc'[p].phase = IF r.op = "catalog" THEN "reindex" ELSE "digest"
  BY <1>2 DEF Inv, Shapes, LocShape, OtherLocs, NoLoc, LocFields
<1>4. tmp[p] = None /\ held[p] = None
  BY <1>1 DEF Inv, Local, Temps, Locked, PageTemporary, IndexTemporary, Steps
<1>5. CASE r.op = "malformed"
  <2>1. Ended(p) /\ pc'[p] = "done" /\ held'[p] = None
    BY <1>2, <1>5 DEF Return, Ended, Inv, Shapes
  <2>2. Shapes' /\ Alone(p)
    BY <1>1, <1>3, <2>1 DEF Shapes, LocShape, Ticks, Inv, Alone, OtherLocs, Ended
  <2>3. Flow(p)'
    BY <1>3, <1>5, <2>1 DEF Flow, WriteSteps, ReplaceSteps, IsWrite
  <2>4. Locked(p)' /\ Wrote(p)' /\ Temps(p)' /\ Ready(p)'
    BY <1>1, <1>3, <1>4, <2>1 DEF Locked, Wrote, Temps, Ready, PageTemporary, IndexTemporary
  <2> QED
    BY <2>2, <2>3, <2>4 DEF Stepped, Local
<1>6. CASE r.op # "malformed"
  <2>1. /\ DOMAIN pc' = Procs /\ pc'[p] = "acquire" /\ UNCHANGED <<held, out>>
        /\ \A q \in Procs \ {p} : pc'[q] = pc[q]
    BY <1>2, <1>6, GotoFacts DEF Inv
  <2>2. Shapes' /\ Alone(p)
    BY <1>1, <1>3, <2>1 DEF Shapes, LocShape, Ticks, Inv, Alone, OtherLocs
  <2>3. Flow(p)'
    <3>1. r.op \in {"create", "update", "catalog"}
      BY <1>6, WikiWriteAssumption
    <3> QED
      BY <1>3, <2>1, <3>1 DEF Flow, WriteSteps, ReplaceSteps, IsWrite
  <2>4. Locked(p)' /\ Wrote(p)' /\ Temps(p)' /\ Ready(p)'
    BY <1>1, <1>3, <1>4, <2>1 DEF Locked, Wrote, Temps, Ready, PageTemporary, IndexTemporary
  <2> QED
    BY <2>2, <2>3, <2>4 DEF Stepped, Local
<1> QED
  BY <1>5, <1>6

LEMMA AcquireLocal ==
    ASSUME Inv, NEW p \in Procs, Acquire(p)
    PROVE  Stepped(p)
<1>1. pc[p] = "acquire" /\ Ticks /\ UNCHANGED <<tmp, loc, out, lockIno>>
  BY CountFacts DEF Acquire
<1>2. [ino |-> lockIno, mode |-> LockModeOf(loc[p].req)] \in Flocks
  BY DEF Flocks, LockModeOf, Inv, Shapes
<1>3. /\ held' \in [Procs -> Flocks \cup {None}]
      /\ held'[p] = [ino |-> lockIno, mode |-> LockModeOf(loc[p].req)]
      /\ DOMAIN pc' = Procs /\ pc'[p] = "read_index"
      /\ \A q \in Procs \ {p} : pc'[q] = pc[q] /\ held'[q] = held[q]
  BY <1>2 DEF Acquire, Inv, Shapes
<1>4. Shapes' /\ Alone(p)
  BY <1>1, <1>3 DEF Shapes, Ticks, Inv, Alone
<1>5. Flow(p)'
  BY <1>1, <1>3, ReadingFacts DEF Flow, WriteSteps, ReplaceSteps, IsWrite
<1>6. Locked(p)'
  BY <1>1, <1>3 DEF Locked, Steps, Inv, Shapes
<1>7. Wrote(p)' /\ Temps(p)' /\ Ready(p)'
  BY <1>1, <1>3, ReadingFacts DEF Wrote, Temps, Ready, PageTemporary, IndexTemporary, IsWrite
<1> QED
  BY <1>4, <1>5, <1>6, <1>7 DEF Stepped, Local

LEMMA LockRefusedLocal ==
    ASSUME Inv, NEW p \in Procs, LockRefused(p)
    PROVE  Stepped(p)
<1>1. pc[p] = "acquire" /\ Ticks /\ UNCHANGED <<tmp, loc>>
  BY CountFacts DEF LockRefused
<1>3. Ended(p) /\ out'[p].exit = 4
  BY DEF LockRefused, Return, Ended, Inv, Shapes
<1>2. loc[p].phase # "reindex" \/ ~IsWrite(p)
  BY <1>1 DEF Inv, Local, Flow
<1> QED
  BY <1>1, <1>2, <1>3, ReturnLocal, ReadingFacts, SameLoc, SameTmp

(* The answers of a reindex that was refused or failed. *)
LEMMA ReindexEndsLocal ==
    ASSUME Inv, NEW p \in Procs, ReindexRefused(p) \/ ReindexFailed(p), Ticks, UNCHANGED tmp,
           pc[p] \in {"read_index", "capture", "validate"},
           LocShape', OtherLocs(p), Same(p, {"req", "phase", "wrote"})
    PROVE  Stepped(p)
<1>1. /\ Ended(p) /\ out'[p].exit # 0
      /\ IsWrite(p) /\ loc[p].phase = "reindex" => out'[p].page
  <2>1. CASE ReindexRefused(p)
    BY <2>1 DEF ReindexRefused, Return, Ended, Inv, Shapes
  <2>2. CASE ReindexFailed(p)
    <3>1. PICK page : page = (IsWrite(p) /\ loc[p].phase = "reindex")
      OBVIOUS
    <3>2. Return(p, 4, page, FALSE, FALSE)
      BY <2>2, <3>1, Zenon DEF ReindexFailed
    <3>3. Ended(p) /\ out'[p].exit = 4 /\ out'[p].page = page
      BY <3>2 DEF Return, Ended, Inv, Shapes
    <3>4. IsWrite(p) /\ loc[p].phase = "reindex" => out'[p].page
      BY <3>1, <3>3, Zenon
    <3>5. out'[p].exit # 0
      BY <3>3
    <3> QED
      BY <3>3, <3>4, <3>5, Zenon
  <2> QED
    BY <2>1, <2>2
<1> QED
  BY <1>1, ReturnLocal, ReadingFacts, SameTmp

(* A reader goes on to another of its steps. *)
LEMMA ReadingGoesOn ==
    ASSUME Inv, NEW p \in Procs, NEW step \in {"capture", "validate"}, Goto(p, step), Ticks,
           UNCHANGED tmp, pc[p] \in {"read_index", "capture"},
           LocShape', OtherLocs(p), Same(p, {"req", "phase", "wrote"})
    PROVE  Stepped(p)
<1>1. pc'[p] = step /\ UNCHANGED out
  BY GotoFacts DEF Inv
<1>2. loc'[p].req = loc[p].req /\ loc'[p].phase = loc[p].phase /\ loc'[p].wrote = loc[p].wrote
  BY DEF Same
<1>3. Flow(p)'
  BY <1>1, <1>2, ReadingFacts DEF Flow, WriteSteps, ReplaceSteps, IsWrite
<1>4. Wrote(p)' /\ Temps(p)' /\ Ready(p)'
  BY <1>1, <1>2, ReadingFacts
     DEF Wrote, Temps, Ready, PageTemporary, IndexTemporary, IsWrite
<1>5. step \in Steps \ {"acquire"} /\ Same(p, {"req"})
  BY DEF Steps, Same
<1> QED
  BY <1>3, <1>4, <1>5, GotoLocal, SameTmp

LEMMA ReadIndexLocal ==
    ASSUME Inv, NEW p \in Procs, ReadIndex(p)
    PROVE  Stepped(p)
<1>1. pc[p] = "read_index" /\ Ticks /\ UNCHANGED tmp
  BY CountFacts DEF ReadIndex
<1>2. LocShape' /\ OtherLocs(p) /\ Same(p, {"req", "phase", "wrote"})
  <2>1. UNCHANGED loc \/ loc' = [loc EXCEPT ![p].index = index]
    BY DEF ReadIndex
  <2> QED
    BY <2>1, SetIndex, SameLoc DEF Inv, Same
<1>3. Goto(p, "capture") \/ ReindexRefused(p) \/ ReindexFailed(p)
  BY DEF ReadIndex
<1> QED
  BY <1>1, <1>2, <1>3, ReindexEndsLocal, ReadingGoesOn

LEMMA CaptureLocal ==
    ASSUME Inv, NEW p \in Procs, CaptureInputs(p)
    PROVE  Stepped(p)
<1>1. pc[p] = "capture" /\ Ticks /\ UNCHANGED tmp
  BY CountFacts DEF CaptureInputs
<1>2. LocShape' /\ OtherLocs(p) /\ Same(p, {"req", "phase", "wrote"})
  <2>1. UNCHANGED loc \/ loc' = [loc EXCEPT ![p].snap = pages]
    BY DEF CaptureInputs
  <2> QED
    BY <2>1, SetSnap, SameLoc DEF Inv, Same
<1>3. CASE Goto(p, "validate") \/ ReindexRefused(p) \/ ReindexFailed(p)
  BY <1>1, <1>2, <1>3, ReindexEndsLocal, ReadingGoesOn
<1>4. CASE Goto(p, "rx_temp") /\ loc[p].phase # "digest" /\ ~CheckOnly(p)
  <2>1. pc'[p] = "rx_temp" /\ UNCHANGED out
    BY <1>4, GotoFacts DEF Inv
  <2>2. loc'[p].req = loc[p].req /\ loc'[p].phase = loc[p].phase /\ loc'[p].wrote = loc[p].wrote
    BY <1>2 DEF Same
  <2>3. loc[p].phase = "reindex"
    BY <1>1, <1>4 DEF Inv, Local, Flow
  <2>4. Flow(p)'
    BY <1>1, <1>4, <2>1, <2>2, <2>3, ReadingFacts
       DEF Flow, WriteSteps, ReplaceSteps, IsWrite, CheckOnly
  <2>5. Wrote(p)' /\ Temps(p)' /\ Ready(p)'
    BY <1>1, <2>1, <2>2, ReadingFacts
       DEF Wrote, Temps, Ready, PageTemporary, IndexTemporary, IsWrite
  <2>6. "rx_temp" \in Steps \ {"acquire"} /\ Same(p, {"req"})
    BY <1>2 DEF Steps, Same
  <2> QED
    BY <1>1, <1>2, <1>4, <2>4, <2>5, <2>6, GotoLocal, SameTmp
<1> QED
  BY <1>3, <1>4 DEF CaptureInputs

(* A writer goes on to another step before its page is visible. *)
LEMMA WritingGoesOn ==
    ASSUME Inv, NEW p \in Procs, NEW step \in {"target", "temp", "write", "check", "install"},
           Goto(p, step), Ticks,
           LocShape', OtherLocs(p), Same(p, {"req", "phase", "wrote"}),
           tmp' \in [Procs -> Temporaries \cup {None}],
           \A q \in Procs \ {p} : tmp'[q] = tmp[q],
           loc[p].req \in Requests, IsWrite(p), loc[p].phase = "digest", loc[p].wrote = 0,
           Temps(p)', Ready(p)'
    PROVE  Stepped(p)
<1>1. pc'[p] = step /\ UNCHANGED out
  BY GotoFacts DEF Inv
<1>2. loc'[p].req = loc[p].req /\ loc'[p].phase = loc[p].phase /\ loc'[p].wrote = loc[p].wrote
  BY DEF Same
<1>3. Flow(p)'
  BY <1>1, <1>2 DEF Flow, WriteSteps, ReplaceSteps, IsWrite
<1>4. Wrote(p)'
  BY <1>1, <1>2 DEF Wrote
<1>5. step \in Steps \ {"acquire"} /\ Same(p, {"req"})
  BY DEF Steps, Same
<1> QED
  BY <1>3, <1>4, <1>5, GotoLocal

(* A process replacing INDEX.md goes on. *)
LEMMA ReplacingGoesOn ==
    ASSUME Inv, NEW p \in Procs, NEW step \in ReplaceSteps, pc[p] \in ReplaceSteps,
           Goto(p, step), Ticks,
           LocShape', OtherLocs(p), Same(p, {"req", "phase", "wrote"}),
           tmp' \in [Procs -> Temporaries \cup {None}],
           \A q \in Procs \ {p} : tmp'[q] = tmp[q],
           Temps(p)', Ready(p)'
    PROVE  Stepped(p)
<1>1. pc'[p] = step /\ UNCHANGED out
  BY GotoFacts DEF Inv
<1>2. loc'[p].req = loc[p].req /\ loc'[p].phase = loc[p].phase /\ loc'[p].wrote = loc[p].wrote
  BY DEF Same
<1>3. Flow(p)'
  BY <1>1, <1>2, ReplacingFacts DEF Flow, WriteSteps, ReplaceSteps, IsWrite, CheckOnly
<1>4. Wrote(p)'
  BY <1>1, <1>2, ReplacingFacts DEF Wrote, IsWrite, ReplaceSteps
<1>5. step \in Steps \ {"acquire"} /\ Same(p, {"req"})
  BY DEF Steps, Same, ReplaceSteps
<1> QED
  BY <1>3, <1>4, <1>5, GotoLocal

LEMMA ValidateReadLocal ==
    ASSUME Inv, NEW p \in Procs, ValidateRead(p)
    PROVE  Stepped(p)
<1>1. pc[p] = "validate" /\ Ticks /\ UNCHANGED tmp
  BY CountFacts DEF ValidateRead
<1>2. CASE ReindexFailed(p) /\ UNCHANGED loc
  BY <1>1, <1>2, ReindexEndsLocal, SameLoc
<1>3. CASE /\ loc[p].phase = "digest" /\ loc' = [loc EXCEPT ![p].digest = Digest(loc[p].index)]
           /\ Goto(p, "target") \/ Return(p, 2, FALSE, FALSE, FALSE)
  <2>1. LocShape' /\ OtherLocs(p) /\ Same(p, {"req", "phase", "wrote"})
    <3>1. Shapes
      BY DEF Inv
    <3>2. /\ LocShape' /\ OtherLocs(p)
          /\ Same(p, {"req", "phase", "expect", "index", "snap", "target", "synced", "fail", "wrote"})
      BY <1>3, <3>1, SetDigest
    <3> QED
      BY <3>2 DEF Same
  <2>2. loc[p].req \in Requests /\ IsWrite(p) /\ loc[p].wrote = 0 /\ tmp[p] = None
    BY <1>1, <1>3, ReadingFacts
  <2>3. CASE Goto(p, "target")
    <3>1. pc'[p] = "target"
      BY <2>3, GotoFacts DEF Inv
    <3>2. Temps(p)' /\ Ready(p)'
      BY <1>1, <2>2, <3>1 DEF Temps, Ready, PageTemporary, IndexTemporary
    <3> QED
      BY <1>1, <1>3, <2>1, <2>2, <2>3, <3>2, SameTmp, WritingGoesOn
  <2>4. CASE Return(p, 2, FALSE, FALSE, FALSE)
    <3>1. Ended(p) /\ out'[p].exit = 2
      BY <2>4 DEF Return, Ended, Inv, Shapes
    <3> QED
      BY <1>1, <1>3, <2>1, <2>2, <3>1, SameTmp, ReturnLocal
  <2> QED
    BY <1>3, <2>3, <2>4
<1>4. CASE /\ loc[p].phase # "digest" /\ UNCHANGED loc
           /\ Return(p, IF CheckOnly(p) /\ Rebuilt(loc[p].index, loc[p].snap) # Digest(loc[p].index)
                        THEN 1 ELSE 0, IsWrite(p), FALSE, FALSE)
  <2>1. Ended(p) /\ out'[p].page = IsWrite(p)
    BY <1>4 DEF Return, Ended, Inv, Shapes
  <2>2. loc[p].phase = "reindex" /\ tmp[p] = None /\ loc[p].req \in Requests
        /\ (loc[p].wrote # 0 => IsWrite(p))
    BY <1>1, <1>4, ReadingFacts
  <2>3. IsWrite(p) => out'[p].page
    BY <2>1, Zenon
  <2> QED
    BY <1>1, <1>4, <2>1, <2>2, <2>3, SameTmp, SameLoc, ReturnLocal
<1> QED
  BY <1>2, <1>3, <1>4 DEF ValidateRead

LEMMA ResolveTargetLocal ==
    ASSUME Inv, NEW p \in Procs, ResolveTarget(p)
    PROVE  Stepped(p)
<1>1. pc[p] = "target" /\ Ticks /\ UNCHANGED tmp
  BY CountFacts DEF ResolveTarget
<1>2. /\ loc[p].req \in Requests /\ IsWrite(p) /\ loc[p].phase = "digest" /\ loc[p].wrote = 0
      /\ tmp[p] = None
  BY <1>1, WritingFacts DEF Inv, Local, Temps, PageTemporary, IndexTemporary
<1>3. LocShape' /\ OtherLocs(p) /\ Same(p, {"req", "phase", "wrote"})
  <2>1. UNCHANGED loc \/ loc' = [loc EXCEPT ![p].target = pages[Slug(p)]]
    BY DEF ResolveTarget
  <2> QED
    BY <2>1, SetTarget, SameLoc DEF Inv, Same
<1>4. CASE /\ loc' = [loc EXCEPT ![p].target = pages[Slug(p)]]
           /\ UsableTarget(p, pages[Slug(p)]) /\ Goto(p, "temp")
  <2>1. pc'[p] = "temp"
    BY <1>4, GotoFacts DEF Inv
  <2>2. /\ loc'[p].req = loc[p].req /\ loc'[p].expect = loc[p].expect
        /\ loc'[p].target = pages[Slug(p)]
    <3>1. Shapes
      BY DEF Inv
    <3>2. /\ loc'[p].target = pages[Slug(p)]
          /\ Same(p, {"req", "phase", "expect", "index", "snap", "digest", "synced", "fail", "wrote"})
      BY <1>4, <3>1, SetTarget
    <3> QED
      BY <3>2 DEF Same
  <2>3. Temps(p)' /\ Ready(p)'
    BY <1>1, <1>2, <1>4, <2>1, <2>2
       DEF Temps, Ready, PageTemporary, IndexTemporary, UsableTarget
  <2> QED
    BY <1>1, <1>2, <1>3, <1>4, <2>3, SameTmp, WritingGoesOn
<1>5. CASE \E e \in {2, 4} : Return(p, e, FALSE, FALSE, FALSE)
  <2>1. Ended(p) /\ out'[p].exit # 0
    BY <1>5 DEF Return, Ended, Inv, Shapes
  <2> QED
    BY <1>1, <1>2, <1>3, <2>1, SameTmp, ReturnLocal
<1> QED
  BY <1>4, <1>5 DEF ResolveTarget

LEMMA CreateTemporaryLocal ==
    ASSUME Inv, NEW p \in Procs, CreateTemporary(p)
    PROVE  Stepped(p)
<1>1. pc[p] \in {"temp", "rx_temp"} /\ Ticks /\ UNCHANGED loc
  BY CountFacts DEF CreateTemporary
<1>2. /\ LocShape' /\ OtherLocs(p) /\ Same(p, {"req", "phase", "wrote"})
      /\ tmp[p] = None
  BY <1>1, SameLoc DEF Inv, Local, Temps, PageTemporary, IndexTemporary
<1>3. CASE /\ tmp' = [tmp EXCEPT ![p] =
                [ino |-> clock + 1, dir |-> IF pc[p] = "temp" THEN "pages" ELSE "corpus"]]
           /\ Goto(p, IF pc[p] = "temp" THEN "write" ELSE "rx_write")
  <2>1. [ino |-> clock + 1, dir |-> IF pc[p] = "temp" THEN "pages" ELSE "corpus"] \in Temporaries
    BY DEF Temporaries, Inv, Shapes
  <2>2. /\ tmp' \in [Procs -> Temporaries \cup {None}]
        /\ \A q \in Procs \ {p} : tmp'[q] = tmp[q]
        /\ tmp'[p] # None /\ tmp'[p].dir = IF pc[p] = "temp" THEN "pages" ELSE "corpus"
    BY <1>3, <2>1, WikiWriteAssumption DEF Inv, Shapes, Temporaries
  <2>3. pc'[p] = IF pc[p] = "temp" THEN "write" ELSE "rx_write"
    BY <1>3, GotoFacts DEF Inv
  <2>4. CASE pc[p] = "temp"
    <3>1. Temps(p)'
      BY <2>2, <2>3, <2>4 DEF Temps, PageTemporary, IndexTemporary
    <3>2. Ready(p)'
      BY <1>1, <2>3, <2>4 DEF Ready, UsableTarget, Inv, Local
    <3>3. Goto(p, "write")
      BY <1>3, <2>4
    <3> QED
      BY <1>1, <1>2, <2>2, <2>4, <3>1, <3>2, <3>3, WritingFacts, WritingGoesOn
  <2>5. CASE pc[p] = "rx_temp"
    <3>1. Temps(p)'
      BY <2>2, <2>3, <2>5 DEF Temps, PageTemporary, IndexTemporary
    <3>2. Ready(p)'
      BY <2>3, <2>5 DEF Ready
    <3>3. Goto(p, "rx_write") /\ "rx_write" \in ReplaceSteps /\ pc[p] \in ReplaceSteps
      BY <1>3, <2>5 DEF ReplaceSteps
    <3> QED
      BY <1>1, <1>2, <2>2, <3>1, <3>2, <3>3, ReplacingGoesOn
  <2> QED
    BY <1>1, <2>4, <2>5
<1>4. CASE Return(p, 4, pc[p] = "rx_temp" /\ IsWrite(p), FALSE, FALSE) /\ UNCHANGED tmp
  <2>1. PICK page : page = (pc[p] = "rx_temp" /\ IsWrite(p))
    OBVIOUS
  <2>2. Return(p, 4, page, FALSE, FALSE)
    BY <1>4, <2>1, Zenon
  <2>3. Ended(p) /\ out'[p].exit = 4 /\ out'[p].page = page
    BY <2>2 DEF Return, Ended, Inv, Shapes
  <2>4. pc[p] = "rx_temp" /\ IsWrite(p) => out'[p].page
    BY <2>1, <2>3, Zenon
  <2>5. Ended(p) /\ out'[p].exit # 0
    BY <2>3
  <2>6. /\ loc[p].req \in Requests /\ loc[p].phase \in {"digest", "reindex"}
        /\ loc[p].phase = "reindex" => pc[p] = "rx_temp"
        /\ loc[p].wrote # 0 => pc[p] = "rx_temp" /\ IsWrite(p)
    BY <1>1, WritingFacts, ReplacingFacts DEF ReplaceSteps
  <2> QED
    BY <1>1, <1>2, <1>4, <2>4, <2>5, <2>6, SameTmp, ReturnLocal
<1> QED
  BY <1>3, <1>4 DEF CreateTemporary

LEMMA WriteTemporaryLocal ==
    ASSUME Inv, NEW p \in Procs, WriteTemporary(p)
    PROVE  Stepped(p)
<1>1. pc[p] \in {"write", "rx_write"} /\ Ticks /\ UNCHANGED tmp
  BY CountFacts DEF WriteTemporary
<1>2. CASE /\ loc' = [loc EXCEPT ![p].synced = TRUE]
           /\ Goto(p, IF pc[p] = "write" THEN "check" ELSE "rx_validate")
  <2>1. LocShape' /\ OtherLocs(p) /\ Same(p, {"req", "phase", "wrote"}) /\ loc'[p].synced
    BY <1>2, SetSynced DEF Inv, Same
  <2>2. loc'[p].req = loc[p].req /\ loc'[p].target = loc[p].target /\ loc'[p].expect = loc[p].expect
    BY <1>2, SetSynced DEF Inv, Same
  <2>3. pc'[p] = IF pc[p] = "write" THEN "check" ELSE "rx_validate"
    BY <1>2, GotoFacts DEF Inv
  <2>4. Temps(p)'
    BY <1>1, <2>3 DEF Temps, PageTemporary, IndexTemporary, Inv, Local
  <2>5. Ready(p)'
    BY <1>1, <2>1, <2>2, <2>3 DEF Ready, UsableTarget, Inv, Local
  <2>6. CASE pc[p] = "write"
    <3>1. Goto(p, "check")
      BY <1>2, <2>6
    <3> QED
      BY <1>1, <2>1, <2>4, <2>5, <2>6, <3>1, SameTmp, WritingFacts, WritingGoesOn
  <2>7. CASE pc[p] = "rx_write"
    <3>1. Goto(p, "rx_validate") /\ "rx_validate" \in ReplaceSteps /\ pc[p] \in ReplaceSteps
      BY <1>2, <2>7 DEF ReplaceSteps
    <3> QED
      BY <1>1, <2>1, <2>4, <2>5, <3>1, SameTmp, ReplacingGoesOn
  <2> QED
    BY <1>1, <2>6, <2>7
<1>3. CASE pc[p] = "write" /\ Fail(p, "before")
  <2>1. pc[p] \in WriteSteps
    BY <1>3 DEF WriteSteps
  <2> QED
    BY <1>1, <1>3, <2>1, WritingFacts, FailLocal
<1>4. CASE pc[p] = "rx_write" /\ Fail(p, "index_before")
  <2>1. pc[p] \in ReplaceSteps
    BY <1>4 DEF ReplaceSteps
  <2> QED
    BY <1>1, <1>4, <2>1, ReplacingFacts, FailLocal
<1> QED
  BY <1>1, <1>2, <1>3, <1>4 DEF WriteTemporary

LEMMA CheckTargetLocal ==
    ASSUME Inv, NEW p \in Procs, CheckTarget(p)
    PROVE  Stepped(p)
<1>1. pc[p] = "check" /\ Ticks /\ UNCHANGED tmp /\ pc[p] \in WriteSteps
  BY CountFacts DEF CheckTarget, WriteSteps
<1>2. CASE Goto(p, "install") /\ UNCHANGED loc
  <2>1. pc'[p] = "install"
    BY <1>2, GotoFacts DEF Inv
  <2>2. Temps(p)'
    BY <1>1, <2>1 DEF Temps, PageTemporary, IndexTemporary, Inv, Local
  <2>3. Ready(p)'
    BY <1>1, <1>2, <2>1 DEF Ready, UsableTarget, Inv, Local
  <2> QED
    BY <1>1, <1>2, <2>2, <2>3, SameLoc, SameTmp, WritingFacts, WritingGoesOn
<1>3. CASE Fail(p, "collision") \/ Fail(p, "before")
  BY <1>1, <1>3, WritingFacts, FailLocal
<1> QED
  BY <1>2, <1>3 DEF CheckTarget

(* The page is visible and its directory has yet to be flushed. *)
LEMMA PublishedGoesOn ==
    ASSUME Inv, NEW p \in Procs, NEW step \in {"unlink", "sync_pages"},
           Goto(p, step), Ticks,
           LocShape', OtherLocs(p), Same(p, {"req", "phase"}),
           tmp' \in [Procs -> Temporaries \cup {None}],
           \A q \in Procs \ {p} : tmp'[q] = tmp[q],
           pc[p] \in WriteSteps, Temps(p)'
    PROVE  Stepped(p)
<1>1. pc'[p] = step /\ UNCHANGED out
  BY GotoFacts DEF Inv
<1>2. loc'[p].req = loc[p].req /\ loc'[p].phase = loc[p].phase
  BY DEF Same
<1>3. loc[p].req \in Requests /\ IsWrite(p) /\ loc[p].phase = "digest"
  BY DEF Inv, Local, Flow, WriteSteps
<1>4. Flow(p)'
  BY <1>1, <1>2, <1>3 DEF Flow, WriteSteps, ReplaceSteps, IsWrite
<1>5. Wrote(p)' /\ Ready(p)'
  BY <1>1 DEF Wrote, Ready
<1>6. step \in Steps \ {"acquire"} /\ Same(p, {"req"})
  BY DEF Steps, Same
<1> QED
  BY <1>4, <1>5, <1>6, GotoLocal

(* What removing p's temporary, or moving it into place, leaves. *)
LEMMA NoTemporary ==
    ASSUME Inv, NEW p \in Procs, tmp' = [tmp EXCEPT ![p] = None]
    PROVE  /\ tmp' \in [Procs -> Temporaries \cup {None}] /\ tmp'[p] = None
           /\ \A q \in Procs \ {p} : tmp'[q] = tmp[q]
BY DEF Inv, Shapes

LEMMA LinkPageLocal ==
    ASSUME Inv, NEW p \in Procs, LinkPage(p)
    PROVE  Stepped(p)
<1>1. pc[p] = "install" /\ Ticks /\ UNCHANGED tmp /\ pc[p] \in WriteSteps
  BY CountFacts DEF LinkPage, WriteSteps
<1>2. CASE loc' = [loc EXCEPT ![p].wrote = clock + 1] /\ Goto(p, "unlink")
  <2>1. pc'[p] = "unlink"
    BY <1>2, GotoFacts DEF Inv
  <2>2. LocShape' /\ OtherLocs(p) /\ Same(p, {"req", "phase"})
    <3>1. Shapes
      BY DEF Inv
    <3>2. /\ LocShape' /\ OtherLocs(p)
          /\ Same(p, {"req", "phase", "expect", "index", "snap", "digest", "target", "synced", "fail"})
      BY <1>2, <3>1, SetWrote
    <3> QED
      BY <3>2 DEF Same
  <2>3. Temps(p)'
    BY <1>1, <2>1 DEF Temps, PageTemporary, IndexTemporary, Inv, Local
  <2> QED
    BY <1>1, <1>2, <2>2, <2>3, SameTmp, PublishedGoesOn
<1>3. CASE Fail(p, "collision") \/ Fail(p, "before")
  BY <1>1, <1>3, WritingFacts, FailLocal
<1> QED
  BY <1>2, <1>3 DEF LinkPage

LEMMA RenamePageLocal ==
    ASSUME Inv, NEW p \in Procs, RenamePage(p)
    PROVE  Stepped(p)
<1>1. pc[p] = "install" /\ Ticks /\ pc[p] \in WriteSteps
  BY CountFacts DEF RenamePage, WriteSteps
<1>2. CASE /\ loc' = [loc EXCEPT ![p].wrote = clock + 1] /\ Goto(p, "sync_pages")
           /\ tmp' = [tmp EXCEPT ![p] = None]
  <2>1. pc'[p] = "sync_pages"
    BY <1>2, GotoFacts DEF Inv
  <2>2. LocShape' /\ OtherLocs(p) /\ Same(p, {"req", "phase"})
    <3>1. Shapes
      BY DEF Inv
    <3>2. /\ LocShape' /\ OtherLocs(p)
          /\ Same(p, {"req", "phase", "expect", "index", "snap", "digest", "target", "synced", "fail"})
      BY <1>2, <3>1, SetWrote
    <3> QED
      BY <3>2 DEF Same
  <2>3. Temps(p)'
    BY <1>2, <2>1, NoTemporary DEF Temps, PageTemporary, IndexTemporary
  <2> QED
    BY <1>1, <1>2, <2>2, <2>3, NoTemporary, PublishedGoesOn
<1>3. CASE Fail(p, "before") /\ UNCHANGED tmp
  BY <1>1, <1>3, WritingFacts, FailLocal
<1> QED
  BY <1>2, <1>3 DEF RenamePage

LEMMA UnlinkTemporaryLocal ==
    ASSUME Inv, NEW p \in Procs, UnlinkTemporary(p)
    PROVE  Stepped(p)
<1>1. pc[p] = "unlink" /\ Ticks /\ pc[p] \in WriteSteps
  BY CountFacts DEF UnlinkTemporary, WriteSteps
<1>2. CASE UNCHANGED loc /\ Goto(p, "sync_pages") /\ tmp' = [tmp EXCEPT ![p] = None]
  <2>1. pc'[p] = "sync_pages"
    BY <1>2, GotoFacts DEF Inv
  <2>2. LocShape' /\ OtherLocs(p) /\ Same(p, {"req", "phase"})
    BY <1>2, SameLoc DEF Same
  <2>3. Temps(p)'
    BY <1>2, <2>1, NoTemporary DEF Temps, PageTemporary, IndexTemporary
  <2> QED
    BY <1>1, <1>2, <2>2, <2>3, NoTemporary, PublishedGoesOn
<1>3. CASE Fail(p, "after") /\ UNCHANGED tmp
  <2>1. loc[p].phase = "digest"
    BY <1>1 DEF Inv, Local, Flow
  <2> QED
    BY <1>1, <1>3, <2>1, FailLocal
<1> QED
  BY <1>2, <1>3 DEF UnlinkTemporary, DropTemporary

LEMMA SyncPagesLocal ==
    ASSUME Inv, NEW p \in Procs, SyncPages(p)
    PROVE  Stepped(p)
<1>1. pc[p] = "sync_pages" /\ Ticks /\ pc[p] \in WriteSteps /\ UNCHANGED tmp
  BY CountFacts DEF SyncPages, WriteSteps
<1>2. loc[p].req \in Requests /\ IsWrite(p) /\ loc[p].phase = "digest" /\ tmp[p] = None
  BY <1>1 DEF Inv, Local, Flow, Temps, PageTemporary, IndexTemporary
<1>3. CASE /\ loc' = [loc EXCEPT ![p].phase = "reindex", ![p].synced = FALSE]
           /\ Goto(p, "read_index")
  <2>1. pc'[p] = "read_index" /\ UNCHANGED out
    BY <1>3, GotoFacts DEF Inv
  <2>2. LocShape' /\ OtherLocs(p) /\ loc'[p].phase = "reindex" /\ loc'[p].req = loc[p].req
    BY <1>3, SetPhase DEF Inv, Same
  <2>3. Flow(p)'
    BY <1>2, <2>1, <2>2 DEF Flow, WriteSteps, ReplaceSteps, IsWrite
  <2>4. Wrote(p)' /\ Temps(p)' /\ Ready(p)'
    BY <1>1, <1>2, <2>1, <2>2 DEF Wrote, Temps, Ready, PageTemporary, IndexTemporary, IsWrite
  <2>5. "read_index" \in Steps \ {"acquire"} /\ Same(p, {"req"})
    BY <2>2 DEF Steps, Same
  <2> QED
    BY <1>1, <1>3, <2>2, <2>3, <2>4, <2>5, SameTmp, GotoLocal
<1>4. CASE Fail(p, "after")
  BY <1>1, <1>2, <1>4, FailLocal
<1> QED
  BY <1>3, <1>4 DEF SyncPages

LEMMA ValidateReplaceLocal ==
    ASSUME Inv, NEW p \in Procs, ValidateReplace(p)
    PROVE  Stepped(p)
<1>1. pc[p] = "rx_validate" /\ Ticks /\ pc[p] \in ReplaceSteps /\ UNCHANGED tmp
  BY CountFacts DEF ValidateReplace, ReplaceSteps
<1>2. CASE Goto(p, "rx_rename") /\ UNCHANGED loc
  <2>1. pc'[p] = "rx_rename" /\ "rx_rename" \in ReplaceSteps
    BY <1>2, GotoFacts DEF Inv, ReplaceSteps
  <2>2. Temps(p)'
    BY <1>1, <2>1 DEF Temps, PageTemporary, IndexTemporary, Inv, Local
  <2>3. Ready(p)'
    BY <1>1, <1>2, <2>1 DEF Ready, Inv, Local
  <2> QED
    BY <1>1, <1>2, <2>1, <2>2, <2>3, SameLoc, SameTmp, ReplacingGoesOn
<1>3. CASE Fail(p, "index_before")
  BY <1>1, <1>3, ReplacingFacts, FailLocal
<1> QED
  BY <1>2, <1>3 DEF ValidateReplace

LEMMA RenameIndexLocal ==
    ASSUME Inv, NEW p \in Procs, RenameIndex(p)
    PROVE  Stepped(p)
<1>1. pc[p] = "rx_rename" /\ Ticks /\ pc[p] \in ReplaceSteps
  BY CountFacts DEF RenameIndex, ReplaceSteps
<1>2. CASE Goto(p, "rx_sync") /\ UNCHANGED loc /\ tmp' = [tmp EXCEPT ![p] = None]
  <2>1. pc'[p] = "rx_sync" /\ "rx_sync" \in ReplaceSteps
    BY <1>2, GotoFacts DEF Inv, ReplaceSteps
  <2>2. Temps(p)' /\ Ready(p)'
    BY <1>2, <2>1, NoTemporary DEF Temps, PageTemporary, IndexTemporary, Ready
  <2> QED
    BY <1>1, <1>2, <2>1, <2>2, SameLoc, NoTemporary, ReplacingGoesOn
<1>3. CASE Fail(p, "index_before") /\ UNCHANGED tmp
  BY <1>1, <1>3, ReplacingFacts, FailLocal
<1> QED
  BY <1>2, <1>3 DEF RenameIndex

LEMMA SyncIndexLocal ==
    ASSUME Inv, NEW p \in Procs, SyncIndex(p)
    PROVE  Stepped(p)
<1>1. pc[p] = "rx_sync" /\ Ticks /\ pc[p] \in ReplaceSteps /\ UNCHANGED tmp
  BY CountFacts DEF SyncIndex, ReplaceSteps
<1>2. CASE Return(p, 0, IsWrite(p), TRUE, FALSE) /\ UNCHANGED loc
  <2>1. Ended(p) /\ out'[p].page = IsWrite(p)
    BY <1>2 DEF Return, Ended, Inv, Shapes
  <2>2. IsWrite(p) => out'[p].page
    BY <2>1, Zenon
  <2>3. tmp[p] = None
    BY <1>1 DEF Inv, Local, Temps, PageTemporary, IndexTemporary
  <2> QED
    BY <1>1, <1>2, <2>1, <2>2, <2>3, ReplacingFacts, SameTmp, SameLoc, ReturnLocal
<1>3. CASE Fail(p, "index_after")
  BY <1>1, <1>3, ReplacingFacts, FailLocal
<1> QED
  BY <1>2, <1>3 DEF SyncIndex

(* The answer after a failure names the page if there is one. *)
LEMMA FailedFacts ==
    ASSUME Inv, NEW p \in Procs, NEW residue, Failed(p, residue)
    PROVE  /\ Ended(p) /\ out'[p].exit # 0 /\ out'[p].residue = residue
           /\ loc[p].fail = "after" => out'[p].page
           /\ loc[p].fail \in {"index_before", "index_after"} /\ IsWrite(p) => out'[p].page
           /\ loc[p].fail = "index_after" => out'[p].index
<1>1. PICK page : page = (loc[p].fail = "after"
                          \/ (loc[p].fail \in {"index_before", "index_after"} /\ IsWrite(p)))
  OBVIOUS
<1>2. PICK ix : ix = (loc[p].fail = "index_after")
  OBVIOUS
<1>3. Return(p, IF loc[p].fail = "collision" THEN 2 ELSE 4, page, ix, residue)
  BY <1>1, <1>2, Zenon DEF Failed
<1>4. /\ Ended(p) /\ out'[p].exit \in {2, 4} /\ out'[p].page = page /\ out'[p].index = ix
      /\ out'[p].residue = residue
  BY <1>3 DEF Return, Ended, Inv, Shapes
<1>5. out'[p].exit # 0
  BY <1>4
<1>6. /\ loc[p].fail = "after" => out'[p].page
      /\ loc[p].fail \in {"index_before", "index_after"} /\ IsWrite(p) => out'[p].page
      /\ loc[p].fail = "index_after" => out'[p].index
  BY <1>1, <1>2, <1>4, Zenon
<1> QED
  BY <1>4, <1>5, <1>6, Zenon

LEMMA CleanupTemporaryLocal ==
    ASSUME Inv, NEW p \in Procs, CleanupTemporary(p)
    PROVE  Stepped(p)
<1>1. pc[p] = "cleanup" /\ Ticks /\ UNCHANGED loc
  BY CountFacts DEF CleanupTemporary
<1>2. PICK residue \in BOOLEAN : Failed(p, residue) /\ (~residue => tmp'[p] = None)
  <2>1. CASE Failed(p, FALSE) /\ tmp'[p] = None
    BY <2>1
  <2>2. CASE Failed(p, TRUE)
    BY <2>2
  <2> QED
    BY <2>1, <2>2, NoTemporary DEF CleanupTemporary, DropTemporary
<1>3. /\ Ended(p) /\ out'[p].exit # 0 /\ out'[p].residue = residue
      /\ loc[p].fail = "after" => out'[p].page
      /\ loc[p].fail \in {"index_before", "index_after"} /\ IsWrite(p) => out'[p].page
  BY <1>2, FailedFacts
<1>4. /\ loc[p].req \in Requests /\ loc[p].phase \in {"digest", "reindex"}
      /\ loc[p].phase = "reindex" <=> loc[p].fail \in {"index_before", "index_after"}
      /\ loc[p].wrote # 0 => loc[p].fail = "after" \/ (loc[p].phase = "reindex" /\ IsWrite(p))
  BY <1>1 DEF Inv, Local, Flow, Wrote
<1>5. tmp'[p] # None => out'[p].residue
  BY <1>2, <1>3, Zenon
<1>6. /\ tmp' \in [Procs -> Temporaries \cup {None}]
      /\ \A q \in Procs \ {p} : tmp'[q] = tmp[q]
  BY NoTemporary, SameTmp DEF CleanupTemporary, DropTemporary
<1> QED
  BY <1>1, <1>3, <1>4, <1>5, <1>6, SameLoc, ReturnLocal

LEMMA StepLocal ==
    ASSUME Inv, NEW p \in Procs, Step(p)
    PROVE  Stepped(p)
BY StartLocal, AcquireLocal, LockRefusedLocal, ReadIndexLocal, CaptureLocal, ValidateReadLocal,
   ResolveTargetLocal, CreateTemporaryLocal, WriteTemporaryLocal, CheckTargetLocal,
   LinkPageLocal, RenamePageLocal, UnlinkTemporaryLocal, SyncPagesLocal, ValidateReplaceLocal,
   RenameIndexLocal, SyncIndexLocal, CleanupTemporaryLocal DEF Step

(* Nothing but the environment moves the lock file, kills a process or     *)
(* turns the clock by more than one.                                       *)
LEMMA StepTicks ==
    ASSUME NEW p \in Procs, Step(p)
    PROVE  Ticks
<1>1. (Fault \/ NoFault \/ Tick) /\ UNCHANGED lockIno
  <2>1. CASE Start(p) \/ Acquire(p) \/ LockRefused(p) \/ ReadIndex(p) \/ CaptureInputs(p)
             \/ ValidateRead(p) \/ ResolveTarget(p)
    BY <2>1 DEF Start, Acquire, LockRefused, ReadIndex, CaptureInputs, ValidateRead, ResolveTarget
  <2>2. CASE CreateTemporary(p) \/ WriteTemporary(p) \/ CheckTarget(p)
             \/ LinkPage(p) \/ RenamePage(p) \/ UnlinkTemporary(p)
    BY <2>2 DEF CreateTemporary, WriteTemporary, CheckTarget, LinkPage, RenamePage, UnlinkTemporary
  <2>3. CASE SyncPages(p) \/ ValidateReplace(p) \/ RenameIndex(p) \/ SyncIndex(p)
             \/ CleanupTemporary(p)
    BY <2>3 DEF SyncPages, ValidateReplace, RenameIndex, SyncIndex, CleanupTemporary
  <2> QED
    BY <2>1, <2>2, <2>3 DEF Step
<1> QED
  BY <1>1, CountFacts

LEMMA StepKeepsLocal ==
    ASSUME Inv, NEW p \in Procs, Step(p)
    PROVE  Shapes' /\ \A q \in Procs : Local(q)'
<1>1. Stepped(p) /\ lockIno' = lockIno
  BY StepLocal, StepTicks DEF Ticks
<1>2. ASSUME NEW q \in Procs, q # p PROVE Local(q)'
  <2>1. /\ pc'[q] = pc[q] /\ loc'[q] = loc[q] /\ out'[q] = out[q]
        /\ held'[q] = held[q] /\ tmp'[q] = tmp[q]
    BY <1>1, <1>2 DEF Stepped, Alone
  <2>2. Flow(q)'
    BY <2>1 DEF Inv, Local, Flow, IsWrite, CheckOnly
  <2>3. Locked(q)' /\ Wrote(q)' /\ Temps(q)'
    BY <1>1, <2>1 DEF Inv, Local, Locked, Wrote, Temps, IsWrite
  <2>4. Ready(q)'
    BY <2>1 DEF Inv, Local, Ready, UsableTarget
  <2> QED
    BY <2>2, <2>3, <2>4 DEF Local
<1> QED
  BY <1>1, <1>2 DEF Stepped

-----------------------------------------------------------------------------
(* Every step of a process keeps what is on disk.                          *)

(* What was published stays accounted for. *)
Ages == clock' \in Nat /\ clock <= clock' /\ \A q \in Procs : loc[q].wrote # 0 => loc'[q].wrote # 0

LEMMA StepAges ==
    ASSUME Inv, NEW p \in Procs, Step(p)
    PROVE  Ages
<1>1. loc[p].wrote # 0 => loc'[p].wrote # 0
  <2>1. CASE Start(p)
    BY <2>1 DEF Start, Inv, Local, Wrote
  <2>2. CASE Acquire(p) \/ LockRefused(p) \/ CreateTemporary(p) \/ CleanupTemporary(p)
    BY <2>2 DEF Acquire, LockRefused, CreateTemporary, CleanupTemporary
  <2>3. CASE ReadIndex(p) \/ CaptureInputs(p) \/ ValidateRead(p) \/ ResolveTarget(p)
    <3>1. \/ UNCHANGED loc \/ loc' = [loc EXCEPT ![p].index = index]
          \/ loc' = [loc EXCEPT ![p].snap = pages]
          \/ loc' = [loc EXCEPT ![p].digest = Digest(loc[p].index)]
          \/ loc' = [loc EXCEPT ![p].target = pages[Slug(p)]]
      BY <2>3 DEF ReadIndex, CaptureInputs, ValidateRead, ResolveTarget
    <3> QED
      BY <3>1, SetIndex, SetSnap, SetDigest, SetTarget DEF Inv, Same
  <2>4. CASE WriteTemporary(p) \/ CheckTarget(p) \/ UnlinkTemporary(p) \/ SyncPages(p)
             \/ ValidateReplace(p) \/ RenameIndex(p) \/ SyncIndex(p)
    <3>1. \/ UNCHANGED loc \/ loc' = [loc EXCEPT ![p].synced = TRUE]
          \/ \E why : loc' = [loc EXCEPT ![p].fail = why]
          \/ loc' = [loc EXCEPT ![p].phase = "reindex", ![p].synced = FALSE]
      BY <2>4, Zenon DEF WriteTemporary, CheckTarget, UnlinkTemporary, SyncPages, ValidateReplace,
         RenameIndex, SyncIndex, Fail
    <3>2. CASE \E why : loc' = [loc EXCEPT ![p].fail = why]
      BY <3>2, SetFail DEF Inv, Same
    <3>3. CASE loc' = [loc EXCEPT ![p].synced = TRUE]
      BY <3>3, SetSynced DEF Inv, Same
    <3>4. CASE loc' = [loc EXCEPT ![p].phase = "reindex", ![p].synced = FALSE]
      BY <3>4, SetPhase DEF Inv, Same
    <3> QED
      BY <3>1, <3>2, <3>3, <3>4
  <2>5. CASE LinkPage(p) \/ RenamePage(p)
    BY <2>5, WritingFacts DEF LinkPage, RenamePage
  <2> QED
    BY <2>1, <2>2, <2>3, <2>4, <2>5 DEF Step
<1>2. \A q \in Procs \ {p} : loc'[q] = loc[q]
  BY StepLocal DEF Stepped, Alone
<1>3. clock' \in Nat /\ clock <= clock'
  BY StepTicks DEF Ticks, Inv, Shapes
<1> QED
  BY <1>1, <1>2, <1>3 DEF Ages

LEMMA SameDirectory ==
    ASSUME Inv, Ages
    PROVE  /\ UNCHANGED pages => Directory(pages)'
           /\ UNCHANGED dpages => Directory(dpages)'
<1>1. ASSUME NEW s \in Slugs, NEW n, n \in Nodes, n.stamp <= clock
      PROVE  n.stamp <= clock'
  BY <1>1 DEF Nodes, Ages, Inv, Shapes
<1>2. UNCHANGED pages => Directory(pages)'
  BY <1>1 DEF Directory, Inv, Disk, Ages
<1>3. UNCHANGED dpages => Directory(dpages)'
  BY <1>1 DEF Directory, Inv, Disk, Ages
<1> QED
  BY <1>2, <1>3

(* A catalog in place is spoken for until its writer says so. *)
LEMMA StepReplaced ==
    ASSUME Inv, NEW p \in Procs, Step(p), NEW q \in Procs, Replaced(q)
    PROVE  Replaced(q)'
<1>1. CASE q # p
  BY <1>1, StepLocal DEF Stepped, Alone, Replaced
<1>2. CASE q = p
  <2>1. pc[p] \in {"rx_sync", "crashed", "cleanup", "done"}
    BY <1>2 DEF Replaced
  <2>2. SyncIndex(p) \/ CleanupTemporary(p)
    BY <2>1 DEF Step, Start, Acquire, LockRefused, ReadIndex, CaptureInputs, ValidateRead,
       ResolveTarget, CreateTemporary, WriteTemporary, CheckTarget, LinkPage, RenamePage,
       UnlinkTemporary, SyncPages, ValidateReplace, RenameIndex
  <2>3. CASE SyncIndex(p)
    <3>1. CASE Return(p, 0, IsWrite(p), TRUE, FALSE)
      BY <1>2, <3>1 DEF Return, Replaced, Inv, Shapes
    <3>2. CASE Fail(p, "index_after")
      BY <1>2, <3>2, GotoFacts, SetFail DEF Fail, Replaced, Inv
    <3> QED
      BY <2>3, <3>1, <3>2 DEF SyncIndex
  <2>4. CASE CleanupTemporary(p)
    <3>1. loc[p].fail = "index_after"
      BY <1>2, <2>4 DEF Replaced, CleanupTemporary
    <3>2. Ended(p) /\ out'[p].index
      BY <2>4, <3>1, FailedFacts DEF CleanupTemporary
    <3> QED
      BY <1>2, <3>2 DEF Ended, Replaced
  <2> QED
    BY <2>2, <2>3, <2>4
<1> QED
  BY <1>1, <1>2

LEMMA SameIndex ==
    ASSUME Inv, NEW p \in Procs, Step(p)
    PROVE  /\ UNCHANGED index => IndexFile(index)'
           /\ UNCHANGED dindex => IndexFile(dindex)'
           /\ dindex' = index => IndexFile(dindex)'
<1>1. \A q \in Procs : Replaced(q) => Replaced(q)'
  BY StepReplaced
<1>2. IndexFile(index) /\ IndexFile(dindex)
  BY DEF Inv, Disk
<1> QED
  BY <1>1, <1>2 DEF IndexFile

(* A second link is accounted for as long as its temporary stays. *)
LEMMA SameLinks ==
    ASSUME Inv, NEW p \in Procs, UNCHANGED <<pages, crashes>>,
           \A q \in Procs \ {p} : tmp'[q] = tmp[q],
           tmp'[p] = tmp[p] \/ tmp[p] = None \/ tmp[p].dir = "corpus"
    PROVE  Links'
<1>1. Links
  BY DEF Inv, Disk
<1> QED
  BY <1>1 DEF Links

(* The page a process is about to install. *)
LEMMA NewPageFacts ==
    ASSUME Inv, NEW p \in Procs, pc[p] = "install", NEW links \in {1, 2}
    PROVE  /\ NewPage(p, links) \in Nodes /\ NewPage(p, links) # None /\ Slug(p) \in Slugs
           /\ NewPage(p, links).stamp = clock + 1 /\ NewPage(p, links).by = p
           /\ NewPage(p, links).nlink = links /\ NewPage(p, links).ino = tmp[p].ino
           /\ tmp[p] # None /\ tmp[p].dir = "pages" /\ tmp[p].ino \in Nat
           /\ loc[p].wrote = 0
<1>1. tmp[p] # None /\ tmp[p].dir = "pages" /\ tmp[p] \in Temporaries
  BY DEF Inv, Local, Temps, PageTemporary, Shapes
<1>2. tmp[p].ino \in Nat /\ clock + 1 \in Nat
  BY <1>1 DEF Temporaries, Inv, Shapes
<1>3. loc[p].synced = TRUE
  BY DEF Inv, Local, Ready
<1>4. loc[p].req.sum \in Summaries /\ Slug(p) \in Slugs /\ loc[p].wrote = 0
  BY WritingFacts, WikiWriteAssumption DEF IsWrite, Slug
<1>5. NewPage(p, links) \in Nodes
  <2>1. ASSUME NEW i \in Nat, NEW t \in Nat, NEW l \in Nat, NEW m \in Summaries, NEW c \in {TRUE}
        PROVE  Node(i, t, l, m, p, c) \in Nodes
    BY DEF Node, Nodes
  <2>2. loc[p].synced \in {TRUE}
    BY <1>3, Zenon
  <2>3. links \in Nat
    OBVIOUS
  <2> QED
    BY <1>2, <1>4, <2>1, <2>2, <2>3 DEF NewPage
<1>6. NewPage(p, links) # None
  BY <1>5, WikiWriteAssumption DEF Nodes
<1> QED
  BY <1>1, <1>2, <1>4, <1>5, <1>6 DEF NewPage, Node

LEMMA InstalledDirectory ==
    ASSUME Inv, Ages, NEW p \in Procs, NEW n \in Nodes, NEW s \in Slugs,
           pages' = [pages EXCEPT ![s] = n], clock' = clock + 1,
           n.stamp = clock + 1, n.by = p, loc'[p].wrote = clock + 1
    PROVE  Directory(pages)'
<1>1. Directory(pages) /\ clock \in Nat
  BY DEF Inv, Disk, Shapes
<1>2. pages' \in [Slugs -> Nodes \cup {None}]
  BY <1>1 DEF Directory
<1>3. loc'[p].wrote # 0
  BY <1>1
<1>4. ASSUME NEW x \in Slugs, pages'[x] # None
      PROVE  pages'[x].stamp <= clock' /\ \A q \in Procs : pages'[x].by = q => loc'[q].wrote # 0
  <2>1. CASE x = s
    BY <1>1, <1>3, <2>1 DEF Directory
  <2>2. CASE x # s
    <3>1. pages'[x] = pages[x] /\ pages[x] \in Nodes
      BY <1>1, <1>4, <2>2 DEF Directory
    <3>2. pages[x].stamp <= clock'
      BY <1>1, <1>4, <3>1 DEF Directory, Nodes
    <3> QED
      BY <1>1, <1>4, <3>1, <3>2 DEF Directory, Ages
  <2> QED
    BY <2>1, <2>2
<1> QED
  BY <1>2, <1>4 DEF Directory

LEMMA LinkPageDisk ==
    ASSUME Inv, NEW p \in Procs, LinkPage(p), Ages
    PROVE  Directory(pages)' /\ Links'
<1>1. pc[p] = "install" /\ UNCHANGED <<tmp, crashes>>
  BY DEF LinkPage, Fault, NoFault, Tick, bounds
<1>2. CASE UNCHANGED pages
  BY <1>1, <1>2, SameDirectory, SameLinks
<1>3. CASE /\ pages' = [pages EXCEPT ![Slug(p)] = NewPage(p, 2)]
           /\ loc' = [loc EXCEPT ![p].wrote = clock + 1] /\ clock' = clock + 1
  <2>1. PICK n : n = NewPage(p, 2)
    OBVIOUS
  <2>2. /\ n \in Nodes /\ n # None /\ n.stamp = clock + 1 /\ n.by = p /\ Slug(p) \in Slugs
        /\ n.ino = tmp[p].ino /\ tmp[p] # None /\ tmp[p].dir = "pages"
    BY <1>1, <2>1, NewPageFacts
  <2>3. Directory(pages)'
    BY <1>3, <2>1, <2>2, SetWrote, InstalledDirectory DEF Inv
  <2>4. Links /\ pages \in [Slugs -> Nodes \cup {None}]
    BY DEF Inv, Disk, Directory
  <2>5. Links'
    BY <1>1, <1>3, <2>1, <2>2, <2>4 DEF Links
  <2> QED
    BY <2>3, <2>5
<1> QED
  BY <1>2, <1>3 DEF LinkPage, Tick

LEMMA RenamePageDisk ==
    ASSUME Inv, NEW p \in Procs, RenamePage(p), Ages
    PROVE  Directory(pages)' /\ Links'
<1>1. pc[p] = "install" /\ UNCHANGED crashes
  BY DEF RenamePage, Fault, Tick
<1>2. CASE UNCHANGED <<pages, tmp>>
  BY <1>1, <1>2, SameDirectory, SameLinks
<1>3. CASE /\ pages' = [pages EXCEPT ![Slug(p)] = NewPage(p, 1)]
           /\ tmp' = [tmp EXCEPT ![p] = None]
           /\ loc' = [loc EXCEPT ![p].wrote = clock + 1] /\ clock' = clock + 1
  <2>1. PICK n : n = NewPage(p, 1)
    OBVIOUS
  <2>2. /\ n \in Nodes /\ n # None /\ n.stamp = clock + 1 /\ n.by = p /\ Slug(p) \in Slugs
        /\ n.nlink = 1 /\ loc[p].wrote = 0
    BY <1>1, <2>1, NewPageFacts
  <2>3. Directory(pages)'
    BY <1>3, <2>1, <2>2, SetWrote, InstalledDirectory DEF Inv
  <2>4. /\ Links /\ pages \in [Slugs -> Nodes \cup {None}]
        /\ \A s \in Slugs : pages[s] # None => pages[s].by # p
    BY <2>2 DEF Inv, Disk, Directory
  <2>5. \A q \in Procs \ {p} : tmp'[q] = tmp[q]
    BY <1>3, NoTemporary
  <2>6. Links'
    BY <1>1, <1>3, <2>1, <2>2, <2>4, <2>5 DEF Links
  <2> QED
    BY <2>3, <2>6
<1> QED
  BY <1>2, <1>3 DEF RenamePage, Tick

(* Dropping a temporary changes no more than the number of links. *)
LEMMA DropFacts ==
    ASSUME Inv, NEW p \in Procs, DropTemporary(p)
    PROVE  /\ pages' \in [Slugs -> Nodes \cup {None}]
           /\ \A s \in Slugs :
                /\ pages'[s] = None <=> pages[s] = None
                /\ pages[s] # None =>
                     /\ pages'[s].stamp = pages[s].stamp /\ pages'[s].sum = pages[s].sum
                     /\ pages'[s].by = pages[s].by /\ pages'[s].ino = pages[s].ino
                     /\ pages'[s].nlink = 1 \/ pages'[s] = pages[s]
                     /\ tmp[p].dir = "pages" /\ pages[s].ino = tmp[p].ino => pages'[s].nlink = 1
<1>1. pages \in [Slugs -> Nodes \cup {None}]
  BY DEF Inv, Disk, Directory
<1>2. \A s \in Slugs : pages[s] # None => pages[s] \in Nodes
  BY <1>1
<1>3. ASSUME NEW n \in Nodes
      PROVE  /\ [n EXCEPT !.nlink = 1] \in Nodes /\ [n EXCEPT !.nlink = 1].nlink = 1
             /\ [n EXCEPT !.nlink = 1].stamp = n.stamp /\ [n EXCEPT !.nlink = 1].sum = n.sum
             /\ [n EXCEPT !.nlink = 1].by = n.by /\ [n EXCEPT !.nlink = 1].ino = n.ino
  BY DEF Nodes
<1>4. None \notin Nodes
  BY WikiWriteAssumption DEF Nodes
<1>5. ASSUME NEW s \in Slugs
      PROVE  /\ pages'[s] \in Nodes \cup {None}
             /\ pages'[s] = None <=> pages[s] = None
             /\ pages[s] # None =>
                     /\ pages'[s].stamp = pages[s].stamp /\ pages'[s].sum = pages[s].sum
                     /\ pages'[s].by = pages[s].by /\ pages'[s].ino = pages[s].ino
                     /\ pages'[s].nlink = 1 \/ pages'[s] = pages[s]
                     /\ tmp[p].dir = "pages" /\ pages[s].ino = tmp[p].ino => pages'[s].nlink = 1
  <2>1. pages'[s] = IF pages[s] # None /\ tmp[p].dir = "pages" /\ pages[s].ino = tmp[p].ino
                    THEN [pages[s] EXCEPT !.nlink = 1] ELSE pages[s]
    BY DEF DropTemporary
  <2> QED
    BY <1>2, <1>3, <1>4, <2>1
<1>6. pages' \in [Slugs -> Nodes \cup {None}]
  BY <1>5 DEF DropTemporary
<1> QED
  BY <1>5, <1>6

LEMMA DropDisk ==
    ASSUME Inv, NEW p \in Procs, DropTemporary(p), Ages, UNCHANGED crashes
    PROVE  Directory(pages)' /\ Links'
<1>1. /\ Directory(pages) /\ Links /\ clock \in Nat /\ clock' \in Nat /\ clock <= clock'
  BY DEF Inv, Disk, Shapes, Ages
<1>2. ASSUME NEW s \in Slugs, pages'[s] # None
      PROVE  pages'[s].stamp <= clock' /\ \A q \in Procs : pages'[s].by = q => loc'[q].wrote # 0
  <2>1. /\ pages[s] # None /\ pages'[s].stamp = pages[s].stamp /\ pages'[s].by = pages[s].by
        /\ pages[s] \in Nodes
    BY <1>1, <1>2, DropFacts DEF Directory
  <2>2. pages'[s].stamp <= clock'
    BY <1>1, <2>1 DEF Directory, Nodes
  <2> QED
    BY <1>1, <2>1, <2>2 DEF Directory, Ages
<1>3. Directory(pages)'
  BY <1>2, DropFacts DEF Directory
<1>4. \A q \in Procs \ {p} : tmp'[q] = tmp[q]
  BY NoTemporary DEF DropTemporary
<1>5. Links'
  BY <1>1, <1>4, DropFacts DEF Links
<1> QED
  BY <1>3, <1>5

LEMMA RenameIndexDisk ==
    ASSUME Inv, NEW p \in Procs, RenameIndex(p)
    PROVE  IndexFile(index)' /\ Links'
<1>1. pc[p] = "rx_rename" /\ UNCHANGED <<pages, crashes>>
  BY DEF RenameIndex, Fault, Tick
<1>2. Step(p)
  BY DEF Step
<1>3. tmp[p].dir = "corpus" /\ loc[p].synced
  BY <1>1 DEF Inv, Local, Temps, IndexTemporary, Ready
<1>4. Links'
  BY <1>1, <1>3, NoTemporary, SameLinks DEF RenameIndex
<1>5. CASE UNCHANGED index
  BY <1>2, <1>4, <1>5, SameIndex
<1>6. CASE /\ index' = IndexNode(clock + 1, Rebuilt(loc[p].index, loc[p].snap), p, loc[p].synced)
           /\ Goto(p, "rx_sync")
  <2>1. DOMAIN index' = IndexFields /\ index'.shape = "marked" /\ index'.by = p
    BY <1>6 DEF IndexNode, Rebuilt, IndexFields
  <2>2. index'.synced = loc[p].synced
    BY <1>6 DEF IndexNode
  <2>3. index'.synced
    BY <1>3, <2>2, Zenon
  <2>4. Replaced(p)'
    BY <1>6, GotoFacts DEF Inv, Replaced
  <2> QED
    BY <1>4, <2>1, <2>3, <2>4 DEF IndexFile
<1> QED
  BY <1>4, <1>5, <1>6 DEF RenameIndex

LEMMA StepDisk ==
    ASSUME Inv, NEW p \in Procs, Step(p)
    PROVE  Disk'
<1>1. Ages /\ UNCHANGED crashes
  BY StepAges, StepTicks DEF Ticks
<1>2. CASE UNCHANGED <<disk, tmp>>
  <2>1. Links'
    BY <1>1, <1>2, SameLinks DEF disk
  <2> QED
    BY <1>1, <1>2, <2>1, SameDirectory, SameIndex DEF Disk, disk
<1>3. CASE CreateTemporary(p)
  <2>1. tmp[p] = None /\ \A q \in Procs \ {p} : tmp'[q] = tmp[q]
    BY <1>3, StepLocal
       DEF Stepped, Alone, CreateTemporary, Inv, Local, Temps, PageTemporary, IndexTemporary
  <2>2. UNCHANGED disk
    BY <1>3 DEF CreateTemporary
  <2>3. Links'
    BY <1>1, <2>1, <2>2, SameLinks DEF disk
  <2> QED
    BY <1>1, <2>2, <2>3, SameDirectory, SameIndex DEF Disk, disk
<1>4. CASE LinkPage(p)
  BY <1>1, <1>4, LinkPageDisk, SameDirectory, SameIndex DEF LinkPage, Disk
<1>5. CASE RenamePage(p)
  BY <1>1, <1>5, RenamePageDisk, SameDirectory, SameIndex DEF RenamePage, Disk
<1>6. CASE UnlinkTemporary(p) \/ CleanupTemporary(p)
  <2>1. UNCHANGED <<index, dpages, dindex>>
    BY <1>6 DEF UnlinkTemporary, CleanupTemporary
  <2>2. DropTemporary(p) \/ UNCHANGED <<pages, tmp>>
    BY <1>6 DEF UnlinkTemporary, CleanupTemporary
  <2>3. Directory(pages)' /\ Links'
    BY <1>1, <2>2, DropDisk, SameDirectory, SameLinks
  <2> QED
    BY <1>1, <2>1, <2>3, SameDirectory, SameIndex DEF Disk
<1>7. CASE SyncPages(p)
  <2>1. UNCHANGED <<pages, index, dindex, tmp>> /\ (UNCHANGED dpages \/ dpages' = pages)
    BY <1>7 DEF SyncPages
  <2>2. Directory(pages)' /\ Links'
    BY <1>1, <2>1, SameDirectory, SameLinks
  <2>3. Directory(dpages)'
    BY <1>1, <2>1, <2>2, SameDirectory DEF Directory
  <2> QED
    BY <2>1, <2>2, <2>3, SameIndex DEF Disk
<1>8. CASE RenameIndex(p)
  BY <1>1, <1>8, RenameIndexDisk, SameDirectory, SameIndex DEF RenameIndex, Disk
<1>9. CASE SyncIndex(p)
  <2>1. UNCHANGED <<pages, index, dpages, tmp>> /\ (UNCHANGED dindex \/ dindex' = index)
    BY <1>9 DEF SyncIndex
  <2> QED
    BY <1>1, <2>1, SameDirectory, SameLinks, SameIndex DEF Disk
<1>10. CASE Start(p) \/ Acquire(p) \/ LockRefused(p) \/ ReadIndex(p) \/ CaptureInputs(p)
            \/ ValidateRead(p) \/ ResolveTarget(p)
  BY <1>2, <1>10 DEF Start, Acquire, LockRefused, ReadIndex, CaptureInputs, ValidateRead, ResolveTarget
<1>11. CASE WriteTemporary(p) \/ CheckTarget(p) \/ ValidateReplace(p)
  BY <1>2, <1>11 DEF WriteTemporary, CheckTarget, ValidateReplace
<1> QED
  BY <1>3, <1>4, <1>5, <1>6, <1>7, <1>8, <1>9, <1>10, <1>11 DEF Step

-----------------------------------------------------------------------------
(* The environment keeps it too.                                           *)

LEMMA CrashKeeps ==
    ASSUME Inv, NEW p \in Procs, Crash(p)
    PROVE  Inv'
<1>1. /\ pc[p] \in Steps /\ DOMAIN pc' = Procs /\ pc'[p] = "crashed"
      /\ held' \in [Procs -> Flocks \cup {None}] /\ held'[p] = None
      /\ \A q \in Procs \ {p} : pc'[q] = pc[q] /\ held'[q] = held[q]
      /\ UNCHANGED <<disk, tmp, lockIno, loc, out, clock>>
  BY DEF Crash, Running, Inv, Shapes
<1>2. crashes' \in Nat /\ crashes' # 0
  BY DEF Crash, Inv, Shapes
<1>3. Shapes'
  BY <1>1, <1>2 DEF Inv, Shapes
<1>4. Local(p)'
  <2>1. /\ loc[p].req \in Requests /\ loc[p].phase \in {"digest", "reindex"}
        /\ ~IsWrite(p) => loc[p].phase = "reindex"
    BY <1>1 DEF Inv, Local, Flow, Steps
  <2>2. Flow(p)'
    BY <1>1, <2>1 DEF Flow, WriteSteps, ReplaceSteps, IsWrite
  <2>3. Locked(p)' /\ Wrote(p)' /\ Temps(p)' /\ Ready(p)'
    BY <1>1 DEF Locked, Wrote, Temps, Ready, PageTemporary, IndexTemporary
  <2> QED
    BY <2>2, <2>3 DEF Local
<1>5. ASSUME NEW q \in Procs, q # p PROVE Local(q)'
  <2>1. pc'[q] = pc[q] /\ held'[q] = held[q]
    BY <1>1, <1>5
  <2>2. Flow(q)'
    BY <1>1, <2>1 DEF Inv, Local, Flow, IsWrite, CheckOnly
  <2>3. Locked(q)' /\ Wrote(q)' /\ Temps(q)' /\ Ready(q)'
    BY <1>1, <2>1 DEF Inv, Local, Locked, Wrote, Temps, IsWrite, Ready, UsableTarget
  <2> QED
    BY <2>2, <2>3 DEF Local
<1>6. \A q \in Procs : Replaced(q) => Replaced(q)'
  BY <1>1 DEF Replaced
<1>7. Disk'
  <2>1. Directory(pages)' /\ Directory(dpages)'
    BY <1>1 DEF Inv, Disk, Directory, disk
  <2>2. IndexFile(index)' /\ IndexFile(dindex)'
    BY <1>1, <1>6 DEF Inv, Disk, IndexFile, disk
  <2>3. Links'
    BY <1>2 DEF Links
  <2> QED
    BY <2>1, <2>2, <2>3 DEF Disk
<1> QED
  BY <1>3, <1>4, <1>5, <1>7 DEF Inv

(* What is published has been flushed, so a power cut tears nothing. *)
LEMMA PowerLossFiles ==
    ASSUME Inv, PowerLoss
    PROVE  /\ pages' \in [Slugs -> Nodes \cup {None}]
           /\ \A s \in Slugs : pages'[s] \in {pages[s], dpages[s]}
           /\ index' \in {index, dindex}
<1>1. pages \in [Slugs -> Nodes \cup {None}] /\ dpages \in [Slugs -> Nodes \cup {None}]
  BY DEF Inv, Disk, Directory
<1>2. ASSUME NEW n \in Nodes \cup {None} PROVE Survivor(n) = n
  <2>1. CASE n = None
    BY <2>1 DEF Survivor
  <2>2. CASE n \in Nodes
    <3>1. n.synced = TRUE
      BY <2>2 DEF Nodes
    <3> QED
      BY <3>1, Zenon DEF Survivor
  <2> QED
    BY <2>1, <2>2
<1>3. \A s \in Slugs : pages'[s] \in {Survivor(pages[s]), dpages[s]}
  BY DEF PowerLoss
<1>4. DOMAIN pages' = Slugs /\ pages' = [s \in Slugs |-> pages'[s]]
  BY DEF PowerLoss
<1>5. index' \in {index, dindex}
  <2>1. index.synced
    BY DEF Inv, Disk, IndexFile
  <2> QED
    BY <2>1 DEF PowerLoss
<1> QED
  BY <1>1, <1>2, <1>3, <1>4, <1>5

LEMMA PowerLossKeeps ==
    ASSUME Inv, PowerLoss
    PROVE  Inv'
<1>1. /\ pc' = [p \in Procs |-> IF Running(p) THEN "crashed" ELSE pc[p]]
      /\ held' = [p \in Procs |-> None]
      /\ UNCHANGED <<tmp, lockIno, loc, out, clock>>
      /\ dpages' = pages' /\ dindex' = index'
  BY DEF PowerLoss
<1>2. crashes' \in Nat /\ crashes' # 0
  BY DEF PowerLoss, Inv, Shapes
<1>3. Shapes'
  BY <1>1, <1>2 DEF Inv, Shapes
<1>4. ASSUME NEW p \in Procs PROVE Local(p)'
  <2>1. held'[p] = None /\ pc'[p] = IF pc[p] \in Steps THEN "crashed" ELSE pc[p]
    BY <1>1 DEF Running
  <2>2. CASE pc[p] \in Steps
    <3>1. /\ loc[p].req \in Requests /\ loc[p].phase \in {"digest", "reindex"}
          /\ ~IsWrite(p) => loc[p].phase = "reindex"
      BY <2>2 DEF Inv, Local, Flow, Steps
    <3>2. Flow(p)'
      BY <1>1, <2>1, <2>2, <3>1 DEF Flow, WriteSteps, ReplaceSteps, IsWrite
    <3>3. Locked(p)' /\ Wrote(p)' /\ Temps(p)' /\ Ready(p)'
      BY <1>1, <2>1, <2>2 DEF Locked, Wrote, Temps, Ready, PageTemporary, IndexTemporary
    <3> QED
      BY <3>2, <3>3 DEF Local
  <2>3. CASE pc[p] \notin Steps
    <3>1. pc'[p] = pc[p]
      BY <2>1, <2>3
    <3>2. Flow(p)'
      BY <1>1, <3>1 DEF Inv, Local, Flow, IsWrite, CheckOnly
    <3>3. Locked(p)' /\ Wrote(p)' /\ Temps(p)' /\ Ready(p)'
      BY <1>1, <2>1, <3>1 DEF Inv, Local, Locked, Wrote, Temps, IsWrite, Ready, UsableTarget
    <3> QED
      BY <3>2, <3>3 DEF Local
  <2> QED
    BY <2>2, <2>3
<1>5. /\ pages' \in [Slugs -> Nodes \cup {None}]
      /\ \A s \in Slugs : pages'[s] \in {pages[s], dpages[s]}
  BY PowerLossFiles
<1>6. Directory(pages)' /\ Directory(dpages)'
  <2>1. ASSUME NEW s \in Slugs, pages'[s] # None
        PROVE  pages'[s].stamp <= clock' /\ \A q \in Procs : pages'[s].by = q => loc'[q].wrote # 0
    BY <1>1, <1>5, <2>1 DEF Inv, Disk, Directory
  <2> QED
    BY <1>1, <1>5, <2>1 DEF Directory
<1>7. \A q \in Procs : Replaced(q) => Replaced(q)'
  <2>1. ASSUME NEW q \in Procs, Replaced(q) PROVE Replaced(q)'
    <3>1. pc'[q] = "crashed" \/ pc'[q] = pc[q]
      BY <1>1
    <3> QED
      BY <1>1, <2>1, <3>1 DEF Replaced
  <2> QED
    BY <2>1
<1>8. IndexFile(index)' /\ IndexFile(dindex)'
  <2>1. index' \in {index, dindex}
    BY PowerLossFiles
  <2> QED
    BY <1>1, <1>7, <2>1 DEF Inv, Disk, IndexFile
<1>9. Links'
  BY <1>2 DEF Links
<1> QED
  BY <1>3, <1>4, <1>6, <1>8, <1>9 DEF Inv, Disk

(* The editor touches no process. *)
LEMMA EditorFacts ==
    ASSUME Inv, Editor, lockIno' \in Nat, lockIno <= lockIno'
    PROVE  /\ Shapes' /\ Ages /\ UNCHANGED crashes /\ clock' = clock + 1
           /\ UNCHANGED <<tmp, loc, pc, out, dpages, dindex>>
           /\ \A p \in Procs : Local(p)' /\ (Replaced(p) => Replaced(p)')
           /\ Directory(dpages)' /\ IndexFile(dindex)'
<1>1. /\ UNCHANGED <<dpages, dindex, tmp, held, pc, loc, out, crashes>>
      /\ clock' = clock + 1 /\ clock \in Nat
  BY DEF Editor, Inv, Shapes
<1>2. Shapes'
  BY <1>1 DEF Inv, Shapes
<1>3. Ages
  BY <1>1 DEF Ages
<1>4. ASSUME NEW p \in Procs PROVE Local(p)'
  <2>1. Flow(p)'
    BY <1>1 DEF Inv, Local, Flow, IsWrite, CheckOnly
  <2>2. Locked(p)'
    <3>1. CASE held[p] # None
      <4>1. held[p].ino \in Nat /\ held[p].ino <= lockIno /\ lockIno \in Nat
        BY <3>1 DEF Inv, Shapes, Local, Locked, Flocks
      <4>2. held[p].ino <= lockIno'
        BY <4>1
      <4> QED
        BY <1>1, <4>2 DEF Inv, Local, Locked
    <3>2. CASE held[p] = None
      BY <1>1, <3>2 DEF Locked
    <3> QED
      BY <3>1, <3>2
  <2>3. Wrote(p)' /\ Temps(p)' /\ Ready(p)'
    BY <1>1 DEF Inv, Local, Wrote, Temps, IsWrite, Ready, UsableTarget
  <2> QED
    BY <2>1, <2>2, <2>3 DEF Local
<1>5. \A p \in Procs : Replaced(p) => Replaced(p)'
  BY <1>1 DEF Replaced
<1>6. Directory(dpages)'
  BY <1>1, <1>3, SameDirectory
<1>7. IndexFile(dindex)'
  BY <1>1, <1>5 DEF IndexFile, Inv, Disk
<1> QED
  BY <1>1, <1>2, <1>3, <1>4, <1>5, <1>6, <1>7

(* The editor's change of a page is nobody's work. *)
LEMMA EditedPages ==
    ASSUME Inv, Ages, clock' = clock + 1, UNCHANGED <<tmp, crashes>>, NEW s \in Slugs,
           NEW n, n = None \/ (n \in Nodes /\ n.stamp = clock + 1 /\ n.by = None),
           pages' = [pages EXCEPT ![s] = n]
    PROVE  Directory(pages)' /\ Links'
<1>1. /\ Directory(pages) /\ Links /\ clock \in Nat /\ pages \in [Slugs -> Nodes \cup {None}]
  BY DEF Inv, Disk, Shapes, Directory
<1>2. pages' \in [Slugs -> Nodes \cup {None}]
  BY <1>1
<1>3. ASSUME NEW x \in Slugs, pages'[x] # None
      PROVE  /\ pages'[x].stamp <= clock'
             /\ \A q \in Procs : pages'[x].by = q => loc'[q].wrote # 0 /\ pages'[x] = pages[x]
  <2>1. CASE x = s
    BY <1>1, <1>3, <2>1, WikiWriteAssumption
  <2>2. CASE x # s
    <3>1. pages'[x] = pages[x] /\ pages[x] \in Nodes
      BY <1>1, <1>3, <2>2
    <3>2. pages[x].stamp <= clock'
      BY <1>1, <1>3, <3>1 DEF Directory, Nodes
    <3> QED
      BY <1>1, <1>3, <3>1, <3>2 DEF Directory, Ages
  <2> QED
    BY <2>1, <2>2
<1>4. Directory(pages)'
  BY <1>2, <1>3 DEF Directory
<1>5. Links'
  BY <1>1, <1>3 DEF Links
<1> QED
  BY <1>4, <1>5

(* The file the editor leaves under a name, if it leaves one. *)
LEMMA EditedNode ==
    ASSUME Inv, NEW s \in Slugs, EditPage(s) \/ AddPage(s) \/ DeletePage(s)
    PROVE  \E n : /\ \/ n = None /\ "delete" \in EditorOps
                     \/ n \in Nodes /\ n.stamp = clock + 1 /\ n.by = None
                  /\ pages' = [pages EXCEPT ![s] = n]
<1>0. clock + 1 \in Nat
  BY DEF Inv, Shapes
<1>1. CASE EditPage(s)
  <2>1. PICK m \in Summaries \cup {Bad} :
          pages' = [pages EXCEPT ![s].sum = m, ![s].by = None, ![s].stamp = clock + 1,
                                 ![s].synced = TRUE]
    BY <1>1 DEF EditPage
  <2>2. pages[s] \in Nodes /\ pages \in [Slugs -> Nodes \cup {None}]
    BY <1>1 DEF EditPage, Inv, Disk, Directory
  <2>3. PICK n : n = [pages[s] EXCEPT !.sum = m, !.by = None, !.stamp = clock + 1,
                                      !.synced = TRUE]
    OBVIOUS
  <2>4. n \in Nodes /\ n.stamp = clock + 1 /\ n.by = None
    BY <1>0, <2>2, <2>3 DEF Nodes
  <2>5. pages' = [pages EXCEPT ![s] = n]
    BY <2>1, <2>2, <2>3
  <2> QED
    BY <2>4, <2>5
<1>2. CASE AddPage(s)
  <2>1. PICK m \in Summaries :
          pages' = [pages EXCEPT ![s] = Node(clock + 1, clock + 1, 1, m, None, TRUE)]
    BY <1>2 DEF AddPage
  <2>2. /\ Node(clock + 1, clock + 1, 1, m, None, TRUE) \in Nodes
        /\ Node(clock + 1, clock + 1, 1, m, None, TRUE).stamp = clock + 1
        /\ Node(clock + 1, clock + 1, 1, m, None, TRUE).by = None
    BY <1>0 DEF Node, Nodes
  <2> QED
    BY <2>1, <2>2
<1>3. CASE DeletePage(s)
  BY <1>3 DEF DeletePage
<1> QED
  BY <1>1, <1>2, <1>3

LEMMA EditorKeeps ==
    ASSUME Inv, NEW s \in Slugs, EditPage(s) \/ AddPage(s) \/ DeletePage(s)
    PROVE  Inv'
<1>1. Editor /\ UNCHANGED <<index, lockIno>>
  BY DEF EditPage, AddPage, DeletePage
<1>2. lockIno' \in Nat /\ lockIno <= lockIno' /\ clock + 1 \in Nat
  BY <1>1 DEF Inv, Shapes
<1>3. PICK n : /\ n = None \/ (n \in Nodes /\ n.stamp = clock + 1 /\ n.by = None)
               /\ pages' = [pages EXCEPT ![s] = n]
  BY EditedNode
<1>4. Directory(pages)' /\ Links'
  BY <1>1, <1>2, <1>3, EditorFacts, EditedPages
<1>5. IndexFile(index)'
  BY <1>1, <1>2, EditorFacts DEF IndexFile, Inv, Disk
<1> QED
  BY <1>1, <1>2, <1>4, <1>5, EditorFacts DEF Inv, Disk

LEMMA EditIndexKeeps ==
    ASSUME Inv, EditIndex
    PROVE  Inv'
<1>1. Editor /\ UNCHANGED <<pages, lockIno>> /\ "index" \in EditorOps
  BY DEF EditIndex
<1>2. lockIno' \in Nat /\ lockIno <= lockIno' /\ clock + 1 \in Nat
  BY <1>1 DEF Inv, Shapes
<1>3. IndexFile(index)'
  <2>1. DOMAIN index = IndexFields
    BY DEF Inv, Disk, IndexFile
  <2>2. DOMAIN index' = IndexFields /\ index'.by = None
    BY <2>1 DEF EditIndex, IndexFields
  <2>3. index'.synced
    BY <2>1 DEF EditIndex, IndexFields
  <2> QED
    BY <1>1, <2>2, <2>3 DEF IndexFile
<1>4. Directory(pages)' /\ Links'
  <2>1. Ages /\ UNCHANGED <<tmp, crashes>>
    BY <1>1, <1>2, EditorFacts
  <2>2. Directory(pages)'
    BY <1>1, <2>1, SameDirectory
  <2>3. Links'
    BY <1>1, <2>1 DEF Links, Inv, Disk
  <2> QED
    BY <2>2, <2>3
<1> QED
  BY <1>1, <1>2, <1>3, <1>4, EditorFacts DEF Inv, Disk

LEMMA RebindKeeps ==
    ASSUME Inv, RebindLock
    PROVE  Inv'
<1>1. Editor /\ UNCHANGED <<pages, index>>
  BY DEF RebindLock
<1>2. lockIno' \in Nat /\ lockIno <= lockIno'
  BY DEF RebindLock, Inv, Shapes
<1>3. IndexFile(index)'
  BY <1>1, <1>2, EditorFacts DEF IndexFile, Inv, Disk
<1>4. Directory(pages)' /\ Links'
  <2>1. Ages /\ UNCHANGED <<tmp, crashes>>
    BY <1>1, <1>2, EditorFacts
  <2>2. Directory(pages)'
    BY <1>1, <2>1, SameDirectory
  <2>3. Links'
    BY <1>1, <2>1 DEF Links, Inv, Disk
  <2> QED
    BY <2>2, <2>3
<1> QED
  BY <1>1, <1>2, <1>3, <1>4, EditorFacts DEF Inv, Disk

-----------------------------------------------------------------------------
(* The invariant.                                                          *)

LEMMA InitInv == Init => Inv
<1> SUFFICES ASSUME Init PROVE Inv
  OBVIOUS
<1>1. Shapes
  BY DEF Init, Shapes, NoLoc, LocFields
<1>2. ASSUME NEW p \in Procs PROVE Local(p)
  <2>1. /\ pc[p] = "idle" /\ loc[p].wrote = 0 /\ loc[p].phase = "none" /\ tmp[p] = None
        /\ held[p] = None
    BY DEF Init, NoLoc
  <2> QED
    BY <2>1 DEF Local, Flow, Locked, Wrote, Temps, Ready, WriteSteps, ReplaceSteps,
       PageTemporary, IndexTemporary
<1>3. clock = 0
  BY DEF Init
<1>4. /\ pages \in [Slugs -> Nodes \cup {None}]
      /\ \A s \in Slugs : pages[s] # None =>
           pages[s].stamp = 0 /\ pages[s].by = None /\ pages[s].nlink = 1
  <2>1. ASSUME NEW s \in Slugs, InitPages[s] # None
        PROVE  /\ Node(0, 0, 1, InitPages[s], None, TRUE) \in Nodes
               /\ Node(0, 0, 1, InitPages[s], None, TRUE).stamp = 0
               /\ Node(0, 0, 1, InitPages[s], None, TRUE).by = None
               /\ Node(0, 0, 1, InitPages[s], None, TRUE).nlink = 1
    BY <2>1, WikiWriteAssumption DEF Node, Nodes
  <2> QED
    BY <2>1 DEF Init
<1>5. Directory(pages) /\ Directory(dpages) /\ Links
  <2>1. dpages = pages
    BY DEF Init
  <2> QED
    BY <1>3, <1>4, <2>1, WikiWriteAssumption DEF Directory, Links
<1>6. IndexFile(index) /\ IndexFile(dindex)
  <2>1. /\ DOMAIN index = IndexFields /\ index.shape = "marked" /\ index.by = None /\ index.synced
        /\ dindex = index
    BY DEF Init, IndexNode, IndexFields
  <2> QED
    BY <2>1 DEF IndexFile
<1> QED
  BY <1>1, <1>2, <1>5, <1>6 DEF Inv, Disk

LEMMA NextInv == Inv /\ [Next]_vars => Inv'
<1> SUFFICES ASSUME Inv, [Next]_vars PROVE Inv'
  OBVIOUS
<1>1. ASSUME NEW p \in Procs, Step(p) PROVE Inv'
  BY <1>1, StepKeepsLocal, StepDisk DEF Inv
<1>2. CASE Environment
  BY <1>2, CrashKeeps, PowerLossKeeps, EditorKeeps, EditIndexKeeps, RebindKeeps DEF Environment
<1>3. CASE UNCHANGED vars
  <2>1. /\ UNCHANGED <<pages, index, dpages, dindex, tmp, lockIno, held>>
        /\ UNCHANGED <<pc, loc, out, clock, crashes>>
    BY <1>3 DEF vars
  <2>2. Shapes'
    BY <2>1 DEF Inv, Shapes
  <2>3. ASSUME NEW p \in Procs PROVE Local(p)' /\ (Replaced(p) => Replaced(p)')
    <3>1. Flow(p)'
      BY <2>1 DEF Inv, Local, Flow, IsWrite, CheckOnly
    <3>2. Locked(p)' /\ Wrote(p)' /\ Temps(p)' /\ Ready(p)'
      BY <2>1 DEF Inv, Local, Locked, Wrote, Temps, IsWrite, Ready, UsableTarget
    <3>3. Replaced(p) => Replaced(p)'
      BY <2>1 DEF Replaced
    <3> QED
      BY <3>1, <3>2, <3>3 DEF Local
  <2>4. Directory(pages)' /\ Directory(dpages)' /\ Links'
    BY <2>1 DEF Inv, Disk, Directory, Links
  <2>5. IndexFile(index)' /\ IndexFile(dindex)'
    BY <2>1, <2>3 DEF Inv, Disk, IndexFile
  <2> QED
    BY <2>2, <2>3, <2>4, <2>5 DEF Inv, Disk
<1> QED
  BY <1>1, <1>2, <1>3 DEF Next

LEMMA SpecInv == Spec => []Inv
BY InitInv, NextInv, PTL DEF Spec

(* What a command says is what it did (page_visible, index_was_replaced,   *)
(* compose_cleanup): for every failing call, kill and power cut, whatever  *)
(* is edited meanwhile.                                                    *)
THEOREM ReportsAreHonest == Spec => []ReportIsHonest
<1>1. Inv => ReportIsHonest
  <2> SUFFICES ASSUME Inv, NEW p \in Procs, Returned(p)
               PROVE  /\ ~out[p].page => \A s \in Slugs : pages[s] # None => pages[s].by # p
                      /\ ~out[p].index => index.by # p
                      /\ ~out[p].residue =>
                           /\ tmp[p] = None
                           /\ crashes = 0 => \A s \in Slugs :
                                pages[s] # None /\ pages[s].by = p => pages[s].nlink = 1
    BY DEF ReportIsHonest
  <2>1. pc[p] = "done" /\ Local(p) /\ Disk
    BY DEF Inv, Returned
  <2>2. loc[p].wrote # 0 => out[p].page
    BY <2>1 DEF Local, Wrote, Flow
  <2>3. ~out[p].page => \A s \in Slugs : pages[s] # None => pages[s].by # p
    BY <2>1, <2>2 DEF Disk, Directory
  <2>4. ~out[p].index => index.by # p
    BY <2>1, WikiWriteAssumption DEF Disk, IndexFile, Replaced
  <2>5. ~out[p].residue => tmp[p] = None
    BY <2>1 DEF Local, Temps, PageTemporary, IndexTemporary
  <2>6. ~out[p].residue /\ crashes = 0 => \A s \in Slugs :
          pages[s] # None /\ pages[s].by = p => pages[s].nlink = 1
    BY <2>1, <2>5 DEF Disk, Links
  <2> QED
    BY <2>3, <2>4, <2>5, <2>6
<1> QED
  BY <1>1, SpecInv, PTL

(* No power cut leaves lost contents under a published name: every         *)
(* temporary is flushed before it is linked or renamed.                    *)
THEOREM NothingIsTorn == Spec => []NeverTorn
<1>1. Inv => NeverTorn
  <2> SUFFICES ASSUME Inv PROVE NeverTorn
    OBVIOUS
  <2>1. ASSUME NEW s \in Slugs, pages[s] # None PROVE pages[s].sum # Torn
    <3>1. pages[s].sum \in Summaries \cup {Bad}
      BY <2>1 DEF Inv, Disk, Directory, Nodes
    <3> QED
      BY <3>1, WikiWriteAssumption
  <2>2. "index" \notin EditorOps => index.shape # "broken"
    BY DEF Inv, Disk, IndexFile
  <2> QED
    BY <2>1, <2>2 DEF NeverTorn
<1> QED
  BY <1>1, SpecInv, PTL

(* The steps that change pages/. *)
LEMMA PagesChange ==
    ASSUME NEW p \in Procs, Step(p)
    PROVE  \/ UNCHANGED pages
           \/ LinkPage(p) /\ pages[Slug(p)] = None
                /\ pages' = [pages EXCEPT ![Slug(p)] = NewPage(p, 2)]
           \/ RenamePage(p) /\ pages' = [pages EXCEPT ![Slug(p)] = NewPage(p, 1)]
           \/ DropTemporary(p)
<1>1. CASE Start(p) \/ Acquire(p) \/ LockRefused(p) \/ ReadIndex(p) \/ CaptureInputs(p)
           \/ ValidateRead(p) \/ ResolveTarget(p)
  BY <1>1 DEF Start, Acquire, LockRefused, ReadIndex, CaptureInputs, ValidateRead, ResolveTarget, disk
<1>2. CASE CreateTemporary(p) \/ WriteTemporary(p) \/ CheckTarget(p) \/ SyncPages(p)
           \/ ValidateReplace(p) \/ RenameIndex(p) \/ SyncIndex(p)
  BY <1>2 DEF CreateTemporary, WriteTemporary, CheckTarget, SyncPages, ValidateReplace,
     RenameIndex, SyncIndex, disk
<1>3. CASE LinkPage(p) \/ RenamePage(p)
  BY <1>3 DEF LinkPage, RenamePage
<1>4. CASE UnlinkTemporary(p) \/ CleanupTemporary(p)
  BY <1>4 DEF UnlinkTemporary, CleanupTemporary
<1> QED
  BY <1>1, <1>2, <1>3, <1>4 DEF Step

(* The editor's steps that change pages/ leave nobody's page. *)
LEMMA EditorChanges ==
    ASSUME Inv, Environment, crashes' = crashes
    PROVE  \A s \in Slugs : pages'[s] = pages[s] \/ pages'[s] = None \/ pages'[s].by = None
<1>1. crashes + 1 # crashes /\ pages \in [Slugs -> Nodes \cup {None}]
  BY DEF Inv, Shapes, Disk, Directory
<1>2. CASE \E p \in Procs : Crash(p)
  BY <1>1, <1>2 DEF Crash
<1>3. CASE PowerLoss
  BY <1>1, <1>3 DEF PowerLoss
<1>4. ASSUME NEW s \in Slugs, EditPage(s)
      PROVE  \A x \in Slugs : pages'[x] = pages[x] \/ pages'[x].by = None
  <2>1. pages[s] \in Nodes
    BY <1>1, <1>4 DEF EditPage
  <2> QED
    BY <1>1, <1>4, <2>1 DEF EditPage, Nodes
<1>5. ASSUME NEW s \in Slugs, AddPage(s)
      PROVE  \A x \in Slugs : pages'[x] = pages[x] \/ pages'[x].by = None
  BY <1>1, <1>5 DEF AddPage, Node
<1>6. ASSUME NEW s \in Slugs, DeletePage(s)
      PROVE  \A x \in Slugs : pages'[x] = pages[x] \/ pages'[x] = None
  BY <1>1, <1>6 DEF DeletePage
<1>7. CASE EditIndex \/ RebindLock
  BY <1>7 DEF EditIndex, RebindLock
<1> QED
  BY <1>2, <1>3, <1>4, <1>5, <1>6, <1>7 DEF Environment

(* Only an update replaces a page: linkat never does, however late the     *)
(* other page appeared.                                                    *)
THEOREM CreatesNeverOverwrite == Spec => CreateNeverOverwrites
<1> DEFINE A == \A p \in Procs, s \in Slugs :
         (/\ crashes' = crashes
          /\ pages[s] # None /\ pages[s].by # p
          /\ pages'[s] # None /\ pages'[s].by = p)
         => loc[p].req.op = "update"
<1>1. Inv /\ [Next]_vars => [A]_vars
  <2> SUFFICES ASSUME Inv, Next, NEW p \in Procs, NEW s \in Slugs,
                      crashes' = crashes, pages[s] # None, pages[s].by # p,
                      pages'[s] # None, pages'[s].by = p
               PROVE  loc[p].req.op = "update"
    OBVIOUS
  <2>1. CASE Environment
    BY <2>1, EditorChanges, WikiWriteAssumption
  <2>2. ASSUME NEW q \in Procs, Step(q) PROVE loc[p].req.op = "update"
    <3>1. CASE UNCHANGED pages
      BY <3>1
    <3>2. CASE /\ LinkPage(q) /\ pages[Slug(q)] = None
               /\ pages' = [pages EXCEPT ![Slug(q)] = NewPage(q, 2)]
      BY <3>2 DEF Inv, Disk, Directory
    <3>3. CASE RenamePage(q) /\ pages' = [pages EXCEPT ![Slug(q)] = NewPage(q, 1)]
      <4>1. pc[q] = "install" /\ loc[q].req.op = "update"
        BY <3>3 DEF RenamePage
      <4>2. NewPage(q, 1).by = q
        BY <4>1, NewPageFacts
      <4> QED
        BY <3>3, <4>1, <4>2 DEF Inv, Disk, Directory
    <3>4. CASE DropTemporary(q)
      BY <3>4, DropFacts
    <3> QED
      BY <2>2, <3>1, <3>2, <3>3, <3>4, PagesChange
  <2> QED
    BY <2>1, <2>2 DEF Next
<1> QED
  BY <1>1, SpecInv, PTL DEF Spec, CreateNeverOverwrites

-----------------------------------------------------------------------------
(* The lock.                                                               *)

(* Only taking the lock makes p hold one, and nothing moves it. *)
LEMMA StepHeld ==
    ASSUME NEW p \in Procs, Shapes, Step(p), ~Acquire(p)
    PROVE  held'[p] = None \/ held'[p] = held[p]
<1>1. ASSUME NEW e, NEW page, NEW ix, NEW residue, Return(p, e, page, ix, residue)
      PROVE  held'[p] = None
  BY <1>1, ReturnFacts DEF Ended
<1>2. CASE Start(p) \/ LockRefused(p) \/ ReadIndex(p) \/ CaptureInputs(p) \/ ValidateRead(p)
           \/ ResolveTarget(p) \/ CreateTemporary(p) \/ SyncIndex(p) \/ CleanupTemporary(p)
  <2>1. held' = held \/ held' = [held EXCEPT ![p] = None]
    BY <1>2 DEF Start, LockRefused, ReadIndex, CaptureInputs, ValidateRead, ResolveTarget,
       CreateTemporary, SyncIndex, CleanupTemporary, Failed, ReindexRefused, ReindexFailed,
       Return, Goto, Fail
  <2> QED
    BY <2>1 DEF Shapes
<1>3. CASE WriteTemporary(p) \/ CheckTarget(p) \/ LinkPage(p) \/ RenamePage(p)
           \/ UnlinkTemporary(p) \/ SyncPages(p) \/ ValidateReplace(p) \/ RenameIndex(p)
  BY <1>3 DEF WriteTemporary, CheckTarget, LinkPage, RenamePage, UnlinkTemporary, SyncPages,
     ValidateReplace, RenameIndex, Fail, Goto
<1> QED
  BY <1>2, <1>3 DEF Step

(* Whoever enters the last window has just looked at everything. *)
LEMMA EntersWindow ==
    ASSUME Inv, NEW p \in Procs, Step(p), Committing(p)'
    PROVE  /\ GuardCurrent(p) /\ UNCHANGED <<disk, loc, held>>
           /\ \/ Goto(p, "install") /\ pages[Slug(p)] = loc[p].target
              \/ Goto(p, "rx_rename") /\ InputsCurrent(p)
<1>1. pc'[p] \in {"install", "rx_rename"}
  BY DEF Committing
<1>2. DOMAIN pc = Procs
  BY DEF Inv, Shapes
<1>3. ~(Start(p) \/ Acquire(p) \/ LockRefused(p) \/ ReadIndex(p) \/ CaptureInputs(p))
  BY <1>1, <1>2 DEF Start, Acquire, LockRefused, ReadIndex, CaptureInputs, ReindexRefused,
     ReindexFailed, Return, Goto
<1>4. ~(ValidateRead(p) \/ ResolveTarget(p) \/ CreateTemporary(p) \/ WriteTemporary(p))
  BY <1>1, <1>2 DEF ValidateRead, ResolveTarget, CreateTemporary, WriteTemporary,
     ReindexFailed, Return, Goto, Fail
<1>7. ~(LinkPage(p) \/ RenamePage(p) \/ UnlinkTemporary(p) \/ SyncPages(p))
  BY <1>1, <1>2 DEF LinkPage, RenamePage, UnlinkTemporary, SyncPages, Goto, Fail
<1>8. ~(RenameIndex(p) \/ SyncIndex(p) \/ CleanupTemporary(p))
  BY <1>1, <1>2 DEF RenameIndex, SyncIndex, CleanupTemporary, Failed, Return, Goto, Fail
<1>5. CASE CheckTarget(p)
  BY <1>1, <1>2, <1>5 DEF CheckTarget, Fail, Goto
<1>6. CASE ValidateReplace(p)
  BY <1>1, <1>2, <1>6 DEF ValidateReplace, Fail, Goto
<1> QED
  BY <1>3, <1>4, <1>5, <1>6, <1>7, <1>8 DEF Step

LEMMA StepCommits ==
    ASSUME Inv, NEW p \in Procs, Step(p), Committing(p)'
    PROVE  GuardCurrent(p)'
BY EntersWindow, StepTicks DEF GuardCurrent, Ticks

LEMMA InitExclusion == Init => Exclusion
BY DEF Init, Exclusion, Committing

(* Nobody else holds the inode a flock is taken on, unless both share it;  *)
(* whoever passes the last check holds the inode the name has then, and    *)
(* the name keeps it until the window is closed.                           *)
LEMMA StepExclusion ==
    ASSUME Inv, Exclusion, NEW p \in Procs, Step(p)
    PROVE  Exclusion'
<1>1. Stepped(p) /\ lockIno' = lockIno
  BY StepLocal, StepTicks DEF Ticks
<1>2. \A q \in Procs \ {p} : pc'[q] = pc[q] /\ held'[q] = held[q]
  BY <1>1 DEF Stepped, Alone
<1>3. CASE Acquire(p)
  <2>1. /\ held'[p] = [ino |-> lockIno, mode |-> LockModeOf(loc[p].req)]
        /\ pc'[p] = "read_index" /\ Compatible(p, LockModeOf(loc[p].req))
    BY <1>3 DEF Acquire, Inv, Shapes
  <2>2. held'[p].ino = lockIno /\ held'[p].mode = LockModeOf(loc[p].req)
    BY <2>1
  <2>3. ASSUME NEW q \in Procs \ {p}, held[q] # None, held[q].ino = lockIno
        PROVE  held'[p].mode = "shared" /\ held[q].mode = "shared"
    BY <2>1, <2>2, <2>3 DEF Compatible
  <2> QED
    BY <1>1, <1>2, <2>1, <2>2, <2>3 DEF Exclusion, Committing, GuardCurrent
<1>4. CASE ~Acquire(p)
  <2>1. held'[p] = None \/ held'[p] = held[p]
    BY <1>4, StepHeld DEF Inv
  <2>2. Committing(p)' => GuardCurrent(p)'
    BY StepCommits
  <2> QED
    BY <1>1, <1>2, <2>1, <2>2 DEF Exclusion, Committing, GuardCurrent
<1> QED
  BY <1>3, <1>4

LEMMA EnvironmentExclusion ==
    ASSUME Inv, Exclusion, LockStays, Environment
    PROVE  Exclusion'
<1>1. DOMAIN pc = Procs /\ DOMAIN held = Procs
  BY DEF Inv, Shapes
<1>2. ASSUME NEW p \in Procs, Crash(p) PROVE Exclusion'
  <2>1. /\ pc'[p] = "crashed" /\ held'[p] = None /\ UNCHANGED lockIno
        /\ \A q \in Procs \ {p} : pc'[q] = pc[q] /\ held'[q] = held[q]
    BY <1>1, <1>2 DEF Crash
  <2> QED
    BY <2>1 DEF Exclusion, Committing, GuardCurrent
<1>3. CASE PowerLoss
  <2>1. \A p \in Procs : held'[p] = None /\ pc'[p] \notin {"install", "rx_rename"}
    BY <1>3 DEF PowerLoss, Running, Steps
  <2> QED
    BY <2>1 DEF Exclusion, Committing
<1>4. CASE RebindLock
  <2>1. \A p \in Procs : ~Committing(p)
    BY <1>4 DEF RebindLock, LockStays, Editor, Quiet, Committing
  <2> QED
    BY <1>4, <2>1 DEF RebindLock, Editor, Exclusion, Committing
<1>5. CASE EditIndex \/ \E s \in Slugs : EditPage(s) \/ AddPage(s) \/ DeletePage(s)
  <2>1. UNCHANGED <<pc, held, lockIno>>
    BY <1>5 DEF EditIndex, EditPage, AddPage, DeletePage, Editor
  <2> QED
    BY <2>1 DEF Exclusion, Committing, GuardCurrent
<1> QED
  BY <1>2, <1>3, <1>4, <1>5 DEF Environment

LEMMA NextExclusion ==
    ASSUME Inv, Exclusion, LockStays, [Next]_vars
    PROVE  Exclusion'
<1>1. CASE UNCHANGED vars
  BY <1>1 DEF vars, Exclusion, Committing, GuardCurrent
<1> QED
  BY <1>1, StepExclusion, EnvironmentExclusion DEF Next

LEMMA SpecExclusion == ASSUME LockStays PROVE Spec => []Exclusion
<1>1. Inv /\ Exclusion /\ [Next]_vars => Exclusion'
  BY NextExclusion
<1> QED
  BY <1>1, InitExclusion, SpecInv, PTL DEF Spec

(* A committer's flock is exclusive, and on the inode the name has now. *)
LEMMA ExclusionAdmitsOne ==
    ASSUME Inv, Exclusion
    PROVE  OneCommitter
<1> SUFFICES ASSUME NEW p \in Procs, NEW q \in Procs, Committing(p), Committing(q), p # q
             PROVE  FALSE
  BY DEF OneCommitter
<1>1. /\ held[p] # None /\ held[q] # None /\ held[p].ino = held[q].ino
  BY DEF Exclusion, GuardCurrent
<1>2. held[p].mode = "shared"
  BY <1>1 DEF Exclusion
<1>3. held[p].mode = LockModeOf(loc[p].req)
  BY <1>1 DEF Inv, Local, Locked
<1>4. IsWrite(p) \/ ~CheckOnly(p)
  BY DEF Committing, Inv, Local, Flow, WriteSteps, ReplaceSteps
<1>5. LockModeOf(loc[p].req) = "exclusive"
  BY <1>4 DEF LockModeOf, IsWrite, CheckOnly
<1> QED
  BY <1>2, <1>3, <1>5

(* At most one process is past its last check (LockGuard's                 *)
(* revalidate_before_commit), as long as no program replaces the lock file *)
(* between that check and the rename.                                      *)
THEOREM CommittersExclude == ASSUME LockStays PROVE Spec => []OneCommitter
<1>1. Inv /\ Exclusion => OneCommitter
  BY ExclusionAdmitsOne
<1> QED
  BY <1>1, SpecInv, SpecExclusion, PTL

-----------------------------------------------------------------------------
(* What was checked last is still so when it is replaced.                  *)

LEMMA SameCatalog ==
    ASSUME Inv, NEW p \in Procs, DropTemporary(p)
    PROVE  Catalog(pages)' = Catalog(pages)
<1>1. \A s \in Slugs : (pages'[s] = None <=> pages[s] = None)
                       /\ (pages[s] # None => pages'[s].sum = pages[s].sum)
  BY DropFacts
<1> QED
  BY <1>1 DEF Catalog

(* A target in use has one link, so dropping a temporary leaves it as it is. *)
LEMMA DropKeepsTargets ==
    ASSUME Inv, NEW p \in Procs, DropTemporary(p), NEW q \in Procs, pc[q] = "install",
           pages[Slug(q)] = loc[q].target
    PROVE  pages'[Slug(q)] = pages[Slug(q)]
<1>1. /\ UsableTarget(q, loc[q].target) /\ Slug(q) \in Slugs
      /\ loc[q].target = None \/ loc[q].target.nlink = 1
  <2>1. UsableTarget(q, loc[q].target)
    BY DEF Inv, Local, Ready
  <2>2. Slug(q) \in Slugs
    BY NewPageFacts
  <2> QED
    BY <2>1, <2>2 DEF UsableTarget
<1>2. CASE loc[q].target = None
  BY <1>1, <1>2, DropFacts
<1>3. CASE loc[q].target # None /\ loc[q].target.nlink = 1
  <2>1. PICK n : n = pages[Slug(q)]
    OBVIOUS
  <2>2. n \in Nodes /\ n.nlink = 1 /\ n # None
    BY <1>1, <1>3, <2>1 DEF Inv, Disk, Directory
  <2>3. [n EXCEPT !.nlink = 1] = n
    BY <2>2 DEF Nodes
  <2> QED
    BY <1>1, <2>1, <2>3 DEF DropTemporary
<1> QED
  BY <1>1, <1>2, <1>3

(* The steps that change INDEX.md. *)
LEMMA IndexChange ==
    ASSUME NEW p \in Procs, Step(p), index' # index
    PROVE  /\ pc[p] = "rx_rename" /\ RenameIndex(p)
           /\ index' = IndexNode(clock + 1, Rebuilt(loc[p].index, loc[p].snap), p, loc[p].synced)
<1>1. RenameIndex(p)
  <2>1. ~(Start(p) \/ Acquire(p) \/ LockRefused(p) \/ ReadIndex(p) \/ CaptureInputs(p)
          \/ ValidateRead(p) \/ ResolveTarget(p))
    BY DEF Start, Acquire, LockRefused, ReadIndex, CaptureInputs, ValidateRead, ResolveTarget, disk
  <2>2. ~(CreateTemporary(p) \/ WriteTemporary(p) \/ CheckTarget(p) \/ LinkPage(p)
          \/ RenamePage(p) \/ UnlinkTemporary(p))
    BY DEF CreateTemporary, WriteTemporary, CheckTarget, LinkPage, RenamePage, UnlinkTemporary, disk
  <2>3. ~(SyncPages(p) \/ ValidateReplace(p) \/ SyncIndex(p) \/ CleanupTemporary(p))
    BY DEF SyncPages, ValidateReplace, SyncIndex, CleanupTemporary, disk
  <2> QED
    BY <2>1, <2>2, <2>3 DEF Step
<1> QED
  BY <1>1 DEF RenameIndex

LEMMA StepWindow ==
    ASSUME Inv, Exclusion, Window, NEW p \in Procs, Step(p)
    PROVE  Window'
<1>1. ASSUME NEW q \in Procs, q # p, Committing(q)
      PROVE  /\ pc[q] = "install" => pages'[Slug(q)] = loc[q].target
             /\ pc[q] = "rx_rename" => Catalog(pages)' = Catalog(loc[q].snap) /\ index' = index
  <2>1. ~Committing(p)
    BY <1>1, ExclusionAdmitsOne DEF OneCommitter
  <2>2. index' = index
    BY <2>1, IndexChange DEF Committing
  <2>3. CASE UNCHANGED pages
    <3>1. Catalog(pages)' = Catalog(pages)
      BY <2>3 DEF Catalog
    <3> QED
      BY <1>1, <2>2, <2>3, <3>1 DEF Window
  <2>4. CASE DropTemporary(p)
    BY <1>1, <2>2, <2>4, DropKeepsTargets, SameCatalog DEF Window
  <2> QED
    BY <2>1, <2>3, <2>4, PagesChange DEF Committing, LinkPage, RenamePage
<1>2. \A q \in Procs \ {p} : pc'[q] = pc[q] /\ loc'[q] = loc[q]
  BY StepLocal DEF Stepped, Alone
<1>3. CASE Committing(p)'
  <2>1. /\ UNCHANGED <<disk, loc, held>>
        /\ \/ pc'[p] = "install" /\ pages[Slug(p)] = loc[p].target
           \/ pc'[p] = "rx_rename" /\ InputsCurrent(p)
    BY <1>3, EntersWindow, GotoFacts DEF Inv
  <2>2. Catalog(pages)' = Catalog(pages)
    BY <2>1 DEF Catalog, disk
  <2> QED
    BY <1>1, <1>2, <2>1, <2>2 DEF Window, Committing, Slug, InputsCurrent, disk
<1>4. CASE ~Committing(p)'
  BY <1>1, <1>2, <1>4 DEF Window, Committing, Slug
<1> QED
  BY <1>3, <1>4

LEMMA EnvironmentWindow ==
    ASSUME Inv, Window, ~FinalRace, Environment
    PROVE  Window'
<1>1. ASSUME NEW p \in Procs, Crash(p) PROVE Window'
  <2>1. UNCHANGED <<pages, index, loc>> /\ Catalog(pages)' = Catalog(pages)
    BY <1>1 DEF Crash, disk, Catalog
  <2>2. \A q \in Procs : pc'[q] = "crashed" \/ pc'[q] = pc[q]
    BY <1>1 DEF Crash, Inv, Shapes
  <2> QED
    BY <2>1, <2>2 DEF Window, Slug
<1>2. CASE PowerLoss
  <2>1. \A q \in Procs : pc'[q] \notin {"install", "rx_rename"}
    BY <1>2 DEF PowerLoss, Running, Steps
  <2> QED
    BY <2>1 DEF Window
<1>3. CASE Editor
  <2>1. \A q \in Procs : pc'[q] \notin {"install", "rx_rename"}
    BY <1>3 DEF Editor, Quiet
  <2> QED
    BY <2>1 DEF Window
<1> QED
  BY <1>1, <1>2, <1>3 DEF Environment, EditPage, AddPage, DeletePage, EditIndex, RebindLock

LEMMA SpecWindow == ASSUME ~FinalRace PROVE Spec => [](Exclusion /\ Window)
<1>1. LockStays
  BY DEF LockStays
<1>2. Init => Window
  BY DEF Init, Window
<1>3. Inv /\ Exclusion /\ Window /\ [Next]_vars => Window'
  <2> SUFFICES ASSUME Inv, Exclusion, Window, [Next]_vars PROVE Window'
    OBVIOUS
  <2>1. CASE UNCHANGED vars
    <3>1. UNCHANGED <<pages, index, loc, pc>> /\ Catalog(pages)' = Catalog(pages)
      BY <2>1 DEF vars, Catalog
    <3> QED
      BY <3>1 DEF Window, Slug
  <2> QED
    BY <2>1, StepWindow, EnvironmentWindow DEF Next
<1>4. Spec => []Exclusion
  BY <1>1, SpecExclusion
<1> QED
  BY <1>2, <1>3, <1>4, SpecInv, PTL DEF Spec

(* An update replaces the very file it was rendered from, with the         *)
(* contents its author named (read_update_target, render_update and the    *)
(* comparison before renameat), when nobody acts in the last window.       *)
THEOREM UpdatesReplaceWhatTheyRead == ASSUME ~FinalRace PROVE Spec => UpdateReplacesWhatItRead
<1> DEFINE A == \A p \in Procs :
         (pc[p] = "install" /\ pc'[p] = "sync_pages") =>
            /\ pages[Slug(p)] = loc[p].target
            /\ loc[p].expect # None => SameBytes(pages[Slug(p)], loc[p].expect)
<1>1. Inv /\ Window /\ [Next]_vars => [A]_vars
  <2> SUFFICES ASSUME Inv, Window, Next, NEW p \in Procs, pc[p] = "install", pc'[p] = "sync_pages"
               PROVE  /\ pages[Slug(p)] = loc[p].target
                      /\ loc[p].expect # None => SameBytes(pages[Slug(p)], loc[p].expect)
    OBVIOUS
  <2>1. pages[Slug(p)] = loc[p].target
    BY DEF Window
  <2>2. UsableTarget(p, loc[p].target)
    BY DEF Inv, Local, Ready
  <2>3. loc[p].req.op = "update"
    <3>1. ~Environment
      BY DEF Environment, Crash, PowerLoss, EditPage, AddPage, DeletePage, EditIndex, RebindLock,
         Editor, Inv, Shapes
    <3>2. ASSUME NEW q \in Procs, Step(q) PROVE q = p
      BY <3>2, StepLocal DEF Stepped, Alone
    <3>3. Step(p)
      BY <3>1, <3>2 DEF Next
    <3>4. LinkPage(p) \/ RenamePage(p)
      BY <3>3 DEF Step, Start, Acquire, LockRefused, ReadIndex, CaptureInputs, ValidateRead,
         ResolveTarget, CreateTemporary, WriteTemporary, CheckTarget, UnlinkTemporary, SyncPages,
         ValidateReplace, RenameIndex, SyncIndex, CleanupTemporary
    <3>5. ~LinkPage(p)
      BY DEF LinkPage, Goto, Fail, Inv, Shapes
    <3> QED
      BY <3>4, <3>5 DEF RenamePage
  <2> QED
    BY <2>1, <2>2, <2>3 DEF UsableTarget
<1>2. Spec => [](Exclusion /\ Window)
  BY SpecWindow
<1> QED
  BY <1>1, <1>2, SpecInv, PTL DEF Spec, UpdateReplacesWhatItRead

(* INDEX.md is replaced only by the catalog of the pages there are, around *)
(* the text it had (revalidate_inputs before renameat), when nobody acts   *)
(* in the last window.                                                     *)
THEOREM CatalogsAreTrue == ASSUME ~FinalRace PROVE Spec => IndexReplacedByTruth
<1> DEFINE A == index' # index /\ index'.by # None /\ crashes' = crashes =>
         /\ index'.catalog = Catalog(pages)
         /\ index'.head = index.head
<1>1. Inv /\ Window /\ [Next]_vars => [A]_vars
  <2> SUFFICES ASSUME Inv, Window, Next, index' # index, index'.by # None, crashes' = crashes
               PROVE  index'.catalog = Catalog(pages) /\ index'.head = index.head
    OBVIOUS
  <2>1. ~Environment
    <3>1. crashes + 1 # crashes /\ DOMAIN index = IndexFields
      BY DEF Inv, Shapes, Disk, IndexFile
    <3>2. ~((\E p \in Procs : Crash(p)) \/ PowerLoss)
      BY <3>1 DEF Crash, PowerLoss
    <3>3. ~(\E s \in Slugs : EditPage(s) \/ AddPage(s) \/ DeletePage(s)) /\ ~RebindLock
      BY DEF EditPage, AddPage, DeletePage, RebindLock
    <3>4. ~EditIndex
      BY <3>1 DEF EditIndex, IndexFields
    <3> QED
      BY <3>2, <3>3, <3>4 DEF Environment
  <2>2. PICK p \in Procs : Step(p)
    BY <2>1 DEF Next
  <2>3. /\ pc[p] = "rx_rename"
        /\ index' = IndexNode(clock + 1, Rebuilt(loc[p].index, loc[p].snap), p, loc[p].synced)
    BY <2>2, IndexChange
  <2>4. Catalog(pages) = Catalog(loc[p].snap) /\ index = loc[p].index
    BY <2>3 DEF Window
  <2> QED
    BY <2>3, <2>4 DEF IndexNode, Rebuilt
<1>2. Spec => [](Exclusion /\ Window)
  BY SpecWindow
<1> QED
  BY <1>1, <1>2, SpecInv, PTL DEF Spec, IndexReplacedByTruth

-----------------------------------------------------------------------------
(* What success promises.                                                  *)

(* Pages are replaced, never taken away, and each time by a later version. *)
Later(pp, qq) ==
    \A x \in Slugs : pp[x] # None => qq[x] # None /\ pp[x].stamp <= qq[x].stamp

LEMMA StepPages ==
    ASSUME Inv, NEW p \in Procs, Step(p)
    PROVE  Later(pages, pages')
<1>1. /\ pages \in [Slugs -> Nodes \cup {None}] /\ clock \in Nat
      /\ \A x \in Slugs : pages[x] # None => pages[x].stamp <= clock /\ pages[x].stamp \in Nat
  BY DEF Inv, Disk, Directory, Shapes, Nodes
<1>2. CASE UNCHANGED pages
  BY <1>1, <1>2 DEF Later
<1>3. CASE pc[p] = "install" /\ \E l \in {1, 2} : pages' = [pages EXCEPT ![Slug(p)] = NewPage(p, l)]
  <2>1. PICK l \in {1, 2} : pages' = [pages EXCEPT ![Slug(p)] = NewPage(p, l)]
    BY <1>3
  <2>2. NewPage(p, l) # None /\ NewPage(p, l).stamp = clock + 1
    BY <1>3, NewPageFacts
  <2>3. ASSUME NEW x \in Slugs, pages[x] # None
        PROVE  pages'[x] # None /\ pages[x].stamp <= pages'[x].stamp
    <3>1. pages'[x] = pages[x] \/ pages'[x] = NewPage(p, l)
      BY <1>1, <2>1
    <3> QED
      BY <1>1, <2>2, <2>3, <3>1
  <2> QED
    BY <2>3 DEF Later
<1>4. CASE DropTemporary(p)
  BY <1>1, <1>4, DropFacts DEF Later
<1> QED
  BY <1>2, <1>3, <1>4, PagesChange DEF LinkPage, RenamePage

LEMMA EditorPages ==
    ASSUME Inv, "delete" \notin EditorOps, NEW s \in Slugs, EditPage(s) \/ AddPage(s) \/ DeletePage(s)
    PROVE  Later(pages, pages')
<1>1. /\ pages \in [Slugs -> Nodes \cup {None}] /\ clock \in Nat
      /\ \A x \in Slugs : pages[x] # None =>
           pages[x].stamp <= clock /\ pages[x].stamp \in Nat /\ pages[x] \in Nodes
  BY DEF Inv, Disk, Directory, Shapes, Nodes
<1>2. PICK n : n \in Nodes /\ n.stamp = clock + 1 /\ pages' = [pages EXCEPT ![s] = n]
  BY EditedNode
<1>3. n # None
  BY <1>2, WikiWriteAssumption DEF Nodes
<1>4. ASSUME NEW x \in Slugs, pages[x] # None
      PROVE  pages'[x] # None /\ pages[x].stamp <= pages'[x].stamp
  <2>1. pages'[x] = pages[x] \/ pages'[x] = n
    BY <1>1, <1>2
  <2> QED
    BY <1>1, <1>2, <1>3, <1>4, <2>1
<1> QED
  BY <1>4 DEF Later

(* Only a command that starts is idle. *)
LEMMA StepStarts ==
    ASSUME NEW p \in Procs, Step(p), ~Start(p)
    PROVE  pc[p] # "idle"
BY DEF Step, Acquire, LockRefused, ReadIndex, CaptureInputs, ValidateRead, ResolveTarget,
   CreateTemporary, WriteTemporary, CheckTarget, LinkPage, RenamePage, UnlinkTemporary, SyncPages,
   ValidateReplace, RenameIndex, SyncIndex, CleanupTemporary

(* The request and the phase stay, and what was published is recorded once. *)
LEMMA StepSame ==
    ASSUME Inv, NEW p \in Procs, Step(p), ~Start(p), ~LinkPage(p), ~RenamePage(p), ~SyncPages(p)
    PROVE  /\ loc'[p].wrote = loc[p].wrote /\ loc'[p].req = loc[p].req
           /\ loc'[p].phase = loc[p].phase
<1>1. CASE Acquire(p) \/ LockRefused(p) \/ CreateTemporary(p) \/ CleanupTemporary(p)
  BY <1>1 DEF Acquire, LockRefused, CreateTemporary, CleanupTemporary
<1>2. CASE ReadIndex(p) \/ CaptureInputs(p) \/ ValidateRead(p) \/ ResolveTarget(p)
  <2>1. \/ UNCHANGED loc \/ loc' = [loc EXCEPT ![p].index = index]
        \/ loc' = [loc EXCEPT ![p].snap = pages]
        \/ loc' = [loc EXCEPT ![p].digest = Digest(loc[p].index)]
        \/ loc' = [loc EXCEPT ![p].target = pages[Slug(p)]]
    BY <1>2 DEF ReadIndex, CaptureInputs, ValidateRead, ResolveTarget
  <2> QED
    BY <2>1, SetIndex, SetSnap, SetDigest, SetTarget DEF Inv, Same
<1>3. CASE WriteTemporary(p) \/ CheckTarget(p) \/ UnlinkTemporary(p)
           \/ ValidateReplace(p) \/ RenameIndex(p) \/ SyncIndex(p)
  <2>1. \/ UNCHANGED loc \/ loc' = [loc EXCEPT ![p].synced = TRUE]
        \/ \E why : loc' = [loc EXCEPT ![p].fail = why]
    BY <1>3, Zenon DEF WriteTemporary, CheckTarget, UnlinkTemporary, ValidateReplace,
       RenameIndex, SyncIndex, Fail
  <2>2. CASE \E why : loc' = [loc EXCEPT ![p].fail = why]
    BY <2>2, SetFail DEF Inv, Same
  <2>3. CASE loc' = [loc EXCEPT ![p].synced = TRUE]
    BY <2>3, SetSynced DEF Inv, Same
  <2> QED
    BY <2>1, <2>2, <2>3
<1> QED
  BY <1>1, <1>2, <1>3 DEF Step

(* How a page becomes visible, and what stays of it. *)
LEMMA BecomesVisible ==
    ASSUME Inv, NEW p \in Procs, Step(p), Visible(p)'
    PROVE  \/ /\ Visible(p) /\ loc'[p].wrote = loc[p].wrote /\ loc'[p].req = loc[p].req
              /\ loc'[p].phase = loc[p].phase \/ dpages' = pages
           \/ /\ pc[p] = "install" /\ loc'[p].wrote = clock + 1 /\ loc'[p].req = loc[p].req
              /\ loc'[p].phase # "reindex" /\ pc'[p] \notin ReplaceSteps \cup {"done"}
              /\ \E l \in {1, 2} : pages' = [pages EXCEPT ![Slug(p)] = NewPage(p, l)]
<1>1. DOMAIN pc = Procs /\ DOMAIN loc = Procs /\ DOMAIN loc[p] = LocFields
  BY DEF Inv, Shapes
<1>2. ~Start(p)
  <2>1. ASSUME Start(p)
        PROVE  pc'[p] \in {"acquire", "done"} /\ ~(IsWrite(p)' /\ loc'[p].phase = "reindex")
    BY <1>1, <2>1 DEF Start, Goto, Return, IsWrite, NoLoc
  <2> QED
    BY <2>1 DEF Visible
<1>3. CASE LinkPage(p) \/ RenamePage(p)
  <2>1. pc[p] = "install" /\ IsWrite(p) /\ loc[p].phase = "digest"
    BY <1>3, WritingFacts DEF LinkPage, RenamePage
  <2>2. ~(\E why : Fail(p, why))
    <3>1. ASSUME NEW why, Fail(p, why)
          PROVE  pc'[p] = "cleanup" /\ loc'[p].phase = loc[p].phase
      BY <3>1, GotoFacts, SetFail DEF Fail, Inv, Same
    <3> QED
      BY <2>1, <3>1 DEF Visible
  <2>3. /\ loc' = [loc EXCEPT ![p].wrote = clock + 1]
        /\ \E l \in {1, 2} : pages' = [pages EXCEPT ![Slug(p)] = NewPage(p, l)]
        /\ Goto(p, "unlink") \/ Goto(p, "sync_pages")
    BY <1>3, <2>2 DEF LinkPage, RenamePage
  <2>4. pc'[p] \in {"unlink", "sync_pages"}
    BY <2>3, GotoFacts DEF Inv
  <2>5. loc'[p].wrote = clock + 1 /\ loc'[p].req = loc[p].req /\ loc'[p].phase = loc[p].phase
    <3>1. Shapes
      BY DEF Inv
    <3>2. /\ loc'[p].wrote = clock + 1
          /\ Same(p, {"req", "phase", "expect", "index", "snap", "digest", "target", "synced", "fail"})
      BY <2>3, <3>1, SetWrote
    <3> QED
      BY <3>2 DEF Same
  <2> QED
    BY <2>1, <2>3, <2>4, <2>5 DEF ReplaceSteps
<1>4. CASE SyncPages(p)
  <2>1. pc[p] = "sync_pages" /\ IsWrite(p) /\ Visible(p)
    BY <1>4 DEF SyncPages, Inv, Local, Flow, WriteSteps, Visible
  <2>2. CASE loc' = [loc EXCEPT ![p].phase = "reindex", ![p].synced = FALSE] /\ dpages' = pages
    BY <2>1, <2>2, SetPhase DEF Inv, Same
  <2>3. CASE Fail(p, "after")
    BY <2>1, <2>3, SetFail DEF Fail, Inv, Same
  <2> QED
    BY <1>4, <2>2, <2>3 DEF SyncPages
<1>5. CASE ~Start(p) /\ ~LinkPage(p) /\ ~RenamePage(p) /\ ~SyncPages(p)
  <2>1. /\ loc'[p].wrote = loc[p].wrote /\ loc'[p].req = loc[p].req
        /\ loc'[p].phase = loc[p].phase
    BY <1>5, StepSame
  <2>2. pc'[p] \in {"unlink", "sync_pages"} => UnlinkTemporary(p)
    <3>1. CASE Acquire(p) \/ LockRefused(p) \/ ReadIndex(p) \/ CaptureInputs(p)
      BY <1>1, <3>1 DEF Acquire, LockRefused, ReadIndex, CaptureInputs, ReindexRefused,
         ReindexFailed, Return, Goto
    <3>2. CASE ValidateRead(p) \/ ResolveTarget(p) \/ CreateTemporary(p) \/ WriteTemporary(p)
      BY <1>1, <3>2 DEF ValidateRead, ResolveTarget, CreateTemporary, WriteTemporary,
         ReindexFailed, Return, Goto, Fail
    <3>3. CASE CheckTarget(p) \/ ValidateReplace(p) \/ RenameIndex(p) \/ SyncIndex(p)
               \/ CleanupTemporary(p)
      BY <1>1, <3>3 DEF CheckTarget, ValidateReplace, RenameIndex, SyncIndex, CleanupTemporary,
         Failed, Return, Goto, Fail
    <3> QED
      BY <1>5, <3>1, <3>2, <3>3 DEF Step
  <2>3. pc[p] # "idle"
    BY <1>5, StepStarts
  <2>4. Visible(p)
    BY <2>1, <2>2, <2>3 DEF Visible, IsWrite, UnlinkTemporary
  <2> QED
    BY <2>1, <2>4
<1> QED
  BY <1>2, <1>3, <1>4, <1>5

(* How a process comes to replace INDEX.md. *)
LEMMA EntersReplace ==
    ASSUME Inv, NEW p \in Procs, Step(p), pc'[p] \in ReplaceSteps
    PROVE  \/ pc[p] \in ReplaceSteps /\ loc'[p].snap = loc[p].snap
           \/ loc'[p].snap = pages
<1>1. DOMAIN pc = Procs
  BY DEF Inv, Shapes
<1>2. ~(Start(p) \/ Acquire(p) \/ LockRefused(p) \/ ReadIndex(p))
  BY <1>1 DEF Start, Acquire, LockRefused, ReadIndex, ReindexRefused, ReindexFailed, Return,
     Goto, ReplaceSteps
<1>3. ~(ValidateRead(p) \/ ResolveTarget(p) \/ CheckTarget(p) \/ CleanupTemporary(p))
  BY <1>1 DEF ValidateRead, ResolveTarget, CheckTarget, CleanupTemporary, Failed,
     ReindexFailed, Return, Goto, Fail, ReplaceSteps
<1>4. ~(LinkPage(p) \/ RenamePage(p) \/ UnlinkTemporary(p) \/ SyncPages(p) \/ SyncIndex(p))
  BY <1>1 DEF LinkPage, RenamePage, UnlinkTemporary, SyncPages, SyncIndex, Return, Goto, Fail,
     ReplaceSteps
<1>5. CASE CaptureInputs(p)
  <2>1. loc' = [loc EXCEPT ![p].snap = pages]
    BY <1>1, <1>5 DEF CaptureInputs, ReindexFailed, Return, ReplaceSteps
  <2> QED
    BY <2>1, SetSnap DEF Inv
<1>6. CASE CreateTemporary(p)
  BY <1>1, <1>6 DEF CreateTemporary, Goto, Return, ReplaceSteps
<1>7. CASE WriteTemporary(p)
  <2>1. pc[p] = "rx_write" /\ loc' = [loc EXCEPT ![p].synced = TRUE]
    BY <1>1, <1>7 DEF WriteTemporary, Goto, Fail, ReplaceSteps
  <2> QED
    BY <2>1, SetSynced DEF Inv, Same, ReplaceSteps
<1>8. CASE ValidateReplace(p) \/ RenameIndex(p)
  BY <1>1, <1>8 DEF ValidateReplace, RenameIndex, Goto, Fail, ReplaceSteps
<1> QED
  BY <1>2, <1>3, <1>4, <1>5, <1>6, <1>7, <1>8 DEF Step

(* How a command comes to say that it regenerated the catalog. *)
LEMMA BecomesRegenerated ==
    ASSUME Inv, NEW p \in Procs, Step(p), Regenerated(p)'
    PROVE  \/ /\ pc[p] = "rx_rename" /\ pc'[p] = "rx_sync" /\ loc' = loc
              /\ index' = IndexNode(clock + 1, Rebuilt(loc[p].index, loc[p].snap), p, loc[p].synced)
           \/ pc[p] = "rx_sync" /\ loc' = loc /\ dindex' = index /\ index' = index
<1>1. DOMAIN pc = Procs /\ DOMAIN out = Procs
  BY DEF Inv, Shapes
<1>2. CASE RenameIndex(p)
  BY <1>1, <1>2 DEF RenameIndex, Goto, Fail, Regenerated
<1>3. CASE SyncIndex(p)
  BY <1>1, <1>3 DEF SyncIndex, Goto, Fail, Regenerated
<1>4. ~Start(p)
  <2>1. ASSUME Start(p) PROVE pc'[p] = "acquire" \/ (pc'[p] = "done" /\ out'[p].exit = 2)
    BY <1>1, <2>1 DEF Start, Return, Goto
  <2> QED
    BY <2>1 DEF Regenerated
<1>10. ~(Acquire(p) \/ LockRefused(p))
  BY <1>1 DEF Acquire, LockRefused, Return, Goto, Regenerated
<1>8. ~ReadIndex(p)
  BY <1>1 DEF ReadIndex, ReindexRefused, ReindexFailed, Return, Goto, Regenerated
<1>9. ~CaptureInputs(p)
  BY <1>1 DEF CaptureInputs, ReindexRefused, ReindexFailed, Return, Goto, Regenerated
<1>5. ~(ValidateRead(p) \/ ResolveTarget(p) \/ CreateTemporary(p) \/ WriteTemporary(p))
  BY <1>1 DEF ValidateRead, ResolveTarget, CreateTemporary, WriteTemporary,
     ReindexFailed, Return, Goto, Fail, Regenerated
<1>6. ~(LinkPage(p) \/ RenamePage(p) \/ UnlinkTemporary(p) \/ SyncPages(p) \/ CheckTarget(p)
        \/ ValidateReplace(p))
  BY <1>1 DEF LinkPage, RenamePage, UnlinkTemporary, SyncPages, CheckTarget, ValidateReplace,
     Goto, Fail, Regenerated
<1>7. ~CleanupTemporary(p)
  <2>1. ASSUME NEW residue, Failed(p, residue) PROVE ~Regenerated(p)'
    BY <2>1, FailedFacts DEF Ended, Regenerated
  <2> QED
    BY <2>1 DEF CleanupTemporary
<1> QED
  BY <1>2, <1>3, <1>4, <1>5, <1>6, <1>7, <1>8, <1>9, <1>10 DEF Step

(* What a directory's flush makes durable. *)
LEMMA FlushChange ==
    ASSUME NEW p \in Procs, Step(p)
    PROVE  /\ dpages' = dpages \/ dpages' = pages
           /\ dindex' = dindex \/ dindex' = index
<1>1. CASE Start(p) \/ Acquire(p) \/ LockRefused(p) \/ ReadIndex(p) \/ CaptureInputs(p)
           \/ ValidateRead(p) \/ ResolveTarget(p)
  BY <1>1 DEF Start, Acquire, LockRefused, ReadIndex, CaptureInputs, ValidateRead, ResolveTarget, disk
<1>2. CASE CreateTemporary(p) \/ WriteTemporary(p) \/ CheckTarget(p) \/ LinkPage(p)
           \/ RenamePage(p) \/ UnlinkTemporary(p)
  BY <1>2 DEF CreateTemporary, WriteTemporary, CheckTarget, LinkPage, RenamePage, UnlinkTemporary, disk
<1>3. CASE SyncPages(p) \/ ValidateReplace(p) \/ RenameIndex(p) \/ SyncIndex(p)
           \/ CleanupTemporary(p)
  BY <1>3 DEF SyncPages, ValidateReplace, RenameIndex, SyncIndex, CleanupTemporary, disk
<1> QED
  BY <1>1, <1>2, <1>3 DEF Step

(* The slug of a visible page is a page's name. *)
LEMMA VisibleSlug ==
    ASSUME Inv, NEW p \in Procs, Visible(p)
    PROVE  Slug(p) \in Slugs
BY WikiWriteAssumption DEF Inv, Local, Flow, Visible, IsWrite, Slug

(* A later version of a page serves as well. *)
LEMMA LaterPage ==
    ASSUME NEW pp \in [Slugs -> Nodes \cup {None}], NEW qq \in [Slugs -> Nodes \cup {None}],
           Later(pp, qq), NEW x \in Slugs, NEW w \in Nat, pp[x] # None, pp[x].stamp >= w
    PROVE  qq[x] # None /\ qq[x].stamp >= w
<1>1. qq[x] # None /\ pp[x].stamp <= qq[x].stamp
  BY DEF Later
<1>2. pp[x].stamp \in Nat /\ qq[x].stamp \in Nat
  BY <1>1 DEF Nodes
<1> QED
  BY <1>1, <1>2

LEMMA StepDurable ==
    ASSUME Inv, Inv', Exclusion, Durable, NEW a \in Procs, Step(a)
    PROVE  Durable'
<1> SUFFICES ASSUME NEW p \in Procs, Visible(p)'
             PROVE  /\ loc'[p].wrote \in Nat
                    /\ HasPage(pages, p)'
                    /\ loc'[p].phase = "reindex" => HasPage(dpages, p)'
                    /\ \A q \in Procs : pc'[q] = "rx_rename" => loc'[q].snap[Slug(p)'] # None
                    /\ pc'[p] \in ReplaceSteps => loc'[p].snap[Slug(p)'] # None
                    /\ Regenerated(p)' => Listed(index, p)'
                    /\ Regenerated(p)' /\ pc'[p] = "done" => Listed(dindex, p)'
  BY DEF Durable
<1>1. \A q \in Procs \ {a} : pc'[q] = pc[q] /\ loc'[q] = loc[q] /\ out'[q] = out[q]
  BY StepLocal DEF Stepped, Alone
<1>2. /\ pages \in [Slugs -> Nodes \cup {None}] /\ pages' \in [Slugs -> Nodes \cup {None}]
      /\ dpages \in [Slugs -> Nodes \cup {None}] /\ clock \in Nat
  BY DEF Inv, Disk, Directory, Shapes
<1>3. Later(pages, pages')
  BY StepPages
<1>4. /\ dpages' = dpages \/ dpages' = pages
      /\ dindex' = dindex \/ dindex' = index
  BY FlushChange
<1>5. CASE /\ Visible(p) /\ loc'[p].wrote = loc[p].wrote /\ loc'[p].req = loc[p].req
           /\ loc'[p].phase = loc[p].phase \/ dpages' = pages
  <2>1. PICK x \in Slugs : x = Slug(p) /\ x = Slug(p)'
    BY <1>5, VisibleSlug DEF Slug
  <2>2. /\ loc[p].wrote \in Nat /\ pages[x] # None /\ pages[x].stamp >= loc[p].wrote
        /\ loc[p].phase = "reindex" => dpages[x] # None /\ dpages[x].stamp >= loc[p].wrote
        /\ \A q \in Procs : pc[q] = "rx_rename" => loc[q].snap[x] # None
        /\ pc[p] \in ReplaceSteps => loc[p].snap[x] # None
        /\ Regenerated(p) => x \in DOMAIN index.catalog
        /\ Regenerated(p) /\ pc[p] = "done" => x \in DOMAIN dindex.catalog
    BY <1>5, <2>1 DEF Durable, HasPage, Listed
  <2>3. pages'[x] # None /\ pages'[x].stamp >= loc[p].wrote
    BY <1>2, <1>3, <2>2, LaterPage
  <2>4. loc'[p].phase = "reindex" => dpages'[x] # None /\ dpages'[x].stamp >= loc[p].wrote
    BY <1>4, <1>5, <2>2
  <2>5. ASSUME NEW q \in Procs, pc'[q] = "rx_rename" PROVE loc'[q].snap[x] # None
    <3>1. CASE q # a
      BY <1>1, <2>2, <2>5, <3>1
    <3>2. CASE q = a
      <4>1. Committing(a)'
        BY <2>5, <3>2 DEF Committing
      <4>2. InputsCurrent(a) /\ loc' = loc
        BY <2>5, <3>2, <4>1, EntersWindow, GotoFacts DEF Inv
      <4> QED
        BY <2>2, <3>2, <4>2 DEF InputsCurrent
    <3> QED
      BY <3>1, <3>2
  <2>6. pc'[p] \in ReplaceSteps => loc'[p].snap[x] # None
    <3>1. CASE p # a
      BY <1>1, <2>2, <3>1
    <3>2. CASE p = a
      BY <2>2, <3>2, EntersReplace
    <3> QED
      BY <3>1, <3>2
  <2>7. ASSUME NEW q \in Procs, pc[q] = "rx_rename",
               index' = IndexNode(clock + 1, Rebuilt(loc[q].index, loc[q].snap), q, loc[q].synced)
        PROVE  x \in DOMAIN index'.catalog
    <3>1. index'.catalog = Catalog(loc[q].snap)
      BY <2>7 DEF IndexNode, Rebuilt
    <3> QED
      BY <2>2, <2>7, <3>1 DEF Catalog
  <2>8. Regenerated(p)' => /\ x \in DOMAIN index'.catalog
                           /\ pc'[p] = "done" => x \in DOMAIN dindex'.catalog
    <3>1. CASE p # a
      <4>1. Regenerated(p)' => Regenerated(p) /\ pc'[p] = pc[p]
        BY <1>1, <3>1 DEF Regenerated
      <4>2. Regenerated(p) => x \in DOMAIN index'.catalog
        BY <2>2, <2>7, IndexChange
      <4> QED
        BY <1>4, <2>2, <4>1, <4>2
    <3>2. CASE p = a /\ Regenerated(p)'
      <4>1. CASE /\ pc[p] = "rx_rename" /\ pc'[p] = "rx_sync"
                 /\ index' = IndexNode(clock + 1, Rebuilt(loc[p].index, loc[p].snap), p, loc[p].synced)
        BY <2>7, <4>1
      <4>2. CASE pc[p] = "rx_sync" /\ dindex' = index /\ index' = index
        BY <2>2, <4>2 DEF Regenerated
      <4> QED
        BY <3>2, <4>1, <4>2, BecomesRegenerated
    <3> QED
      BY <3>1, <3>2
  <2> QED
    BY <1>5, <2>1, <2>2, <2>3, <2>4, <2>5, <2>6, <2>8 DEF HasPage, Listed
<1>6. CASE /\ p = a /\ pc[p] = "install" /\ loc'[p].wrote = clock + 1 /\ loc'[p].req = loc[p].req
           /\ loc'[p].phase # "reindex" /\ pc'[p] \notin ReplaceSteps \cup {"done"}
           /\ \E l \in {1, 2} : pages' = [pages EXCEPT ![Slug(p)] = NewPage(p, l)]
  <2>1. PICK l \in {1, 2} : pages' = [pages EXCEPT ![Slug(p)] = NewPage(p, l)]
    BY <1>6
  <2>2. /\ NewPage(p, l) # None /\ NewPage(p, l).stamp = clock + 1 /\ Slug(p) \in Slugs
    BY <1>6, NewPageFacts
  <2>3. Slug(p)' = Slug(p)
    BY <1>6 DEF Slug
  <2>4. pages'[Slug(p)] # None /\ pages'[Slug(p)].stamp = clock + 1
    BY <1>2, <2>1, <2>2
  <2>5. HasPage(pages, p)' /\ loc'[p].wrote \in Nat
    <3>1. clock + 1 >= clock + 1 /\ clock + 1 \in Nat
      BY <1>2
    <3> QED
      BY <1>6, <2>3, <2>4, <3>1 DEF HasPage
  <2>6. ASSUME NEW q \in Procs, pc'[q] = "rx_rename" PROVE FALSE
    <3>1. q # p
      BY <1>6, <2>6 DEF ReplaceSteps
    <3>2. Committing(q) /\ Committing(p)
      BY <1>1, <1>6, <2>6, <3>1 DEF Committing
    <3> QED
      BY <3>1, <3>2, ExclusionAdmitsOne DEF OneCommitter
  <2>7. ~Regenerated(p)'
    BY <1>6 DEF Regenerated, ReplaceSteps
  <2> QED
    BY <1>6, <2>5, <2>6, <2>7
<1>7. CASE p # a
  <2>1. Visible(p)
    BY <1>1, <1>7 DEF Visible, IsWrite
  <2> QED
    BY <1>1, <1>5, <1>7, <2>1
<1> QED
  BY <1>5, <1>6, <1>7, BecomesVisible

(* What the environment leaves of it. *)
LEMMA EnvironmentDurable ==
    ASSUME Inv, Durable, "delete" \notin EditorOps, "index" \notin EditorOps,
           Environment \/ UNCHANGED vars
    PROVE  Durable'
<1>1. /\ pages \in [Slugs -> Nodes \cup {None}] /\ dpages \in [Slugs -> Nodes \cup {None}]
      /\ \A x \in Slugs : pages[x] # None => pages[x].stamp <= pages[x].stamp
  <2>1. pages \in [Slugs -> Nodes \cup {None}] /\ dpages \in [Slugs -> Nodes \cup {None}]
    BY DEF Inv, Disk, Directory
  <2>2. \A n \in Nodes : n.stamp <= n.stamp
    BY DEF Nodes
  <2> QED
    BY <2>1, <2>2
<1>2. ASSUME Later(pages, pages'), pages' \in [Slugs -> Nodes \cup {None}],
             UNCHANGED <<index, dpages, dindex, loc, out>>,
             \A q \in Procs : pc'[q] = pc[q] \/ (pc'[q] = "crashed" /\ pc[q] # "idle")
      PROVE  Durable'
  <2> SUFFICES ASSUME NEW p \in Procs, Visible(p)'
               PROVE  /\ loc'[p].wrote \in Nat
                      /\ HasPage(pages, p)'
                      /\ loc'[p].phase = "reindex" => HasPage(dpages, p)'
                      /\ \A q \in Procs : pc'[q] = "rx_rename" => loc'[q].snap[Slug(p)'] # None
                      /\ pc'[p] \in ReplaceSteps => loc'[p].snap[Slug(p)'] # None
                      /\ Regenerated(p)' => Listed(index, p)'
                      /\ Regenerated(p)' /\ pc'[p] = "done" => Listed(dindex, p)'
    BY DEF Durable
  <2>1. Visible(p) /\ Slug(p)' = Slug(p) /\ (Regenerated(p)' => Regenerated(p) /\ pc'[p] = pc[p])
    BY <1>2 DEF Visible, IsWrite, Slug, Regenerated
  <2>2. PICK x \in Slugs : x = Slug(p) /\ x = Slug(p)'
    BY <2>1, VisibleSlug
  <2>3. /\ loc[p].wrote \in Nat /\ pages[x] # None /\ pages[x].stamp >= loc[p].wrote
        /\ loc[p].phase = "reindex" => dpages[x] # None /\ dpages[x].stamp >= loc[p].wrote
        /\ \A q \in Procs : pc[q] = "rx_rename" => loc[q].snap[x] # None
        /\ pc[p] \in ReplaceSteps => loc[p].snap[x] # None
        /\ Regenerated(p) => x \in DOMAIN index.catalog
        /\ Regenerated(p) /\ pc[p] = "done" => x \in DOMAIN dindex.catalog
    BY <2>1, <2>2 DEF Durable, HasPage, Listed
  <2>4. pages'[x] # None /\ pages'[x].stamp >= loc[p].wrote
    BY <1>1, <1>2, <2>3, LaterPage
  <2>5. "crashed" \notin ReplaceSteps
    BY DEF ReplaceSteps
  <2> QED
    BY <1>2, <2>1, <2>2, <2>3, <2>4, <2>5 DEF HasPage, Listed
<1>3. CASE UNCHANGED vars
  BY <1>1, <1>2, <1>3 DEF vars, Later
<1>4. ASSUME NEW p \in Procs, Crash(p) PROVE Durable'
  <2>1. \A q \in Procs : pc'[q] = pc[q] \/ (pc'[q] = "crashed" /\ pc[q] # "idle")
    BY <1>4 DEF Crash, Running, Steps, Inv, Shapes
  <2> QED
    BY <1>1, <1>2, <1>4, <2>1 DEF Crash, disk, Later
<1>5. CASE RebindLock
  BY <1>1, <1>2, <1>5 DEF RebindLock, Editor, Later
<1>6. ASSUME NEW s \in Slugs, EditPage(s) \/ AddPage(s) \/ DeletePage(s) PROVE Durable'
  <2>1. Editor /\ UNCHANGED index
    BY <1>6 DEF EditPage, AddPage, DeletePage
  <2>2. pages' \in [Slugs -> Nodes \cup {None}]
    BY <1>1, <1>6, EditedNode
  <2> QED
    BY <1>2, <1>6, <2>1, <2>2, EditorPages DEF Editor
<1>7. CASE PowerLoss
  <2> SUFFICES ASSUME NEW p \in Procs, Visible(p)'
               PROVE  /\ loc'[p].wrote \in Nat
                      /\ HasPage(pages, p)'
                      /\ loc'[p].phase = "reindex" => HasPage(dpages, p)'
                      /\ \A q \in Procs : pc'[q] = "rx_rename" => loc'[q].snap[Slug(p)'] # None
                      /\ pc'[p] \in ReplaceSteps => loc'[p].snap[Slug(p)'] # None
                      /\ Regenerated(p)' => Listed(index, p)'
                      /\ Regenerated(p)' /\ pc'[p] = "done" => Listed(dindex, p)'
    BY DEF Durable
  <2>1. /\ UNCHANGED <<loc, out>> /\ dpages' = pages' /\ dindex' = index'
        /\ \A q \in Procs : pc'[q] = IF pc[q] \in Steps THEN "crashed" ELSE pc[q]
    BY <1>7 DEF PowerLoss, Running
  <2>2. \A q \in Procs : pc'[q] \notin ReplaceSteps \cup {"unlink", "sync_pages"}
    BY <2>1 DEF Steps, ReplaceSteps
  <2>3. pc[p] # "idle" /\ loc[p].phase = "reindex" /\ IsWrite(p) /\ Visible(p)
    <3>1. pc'[p] # "idle" /\ IsWrite(p)' /\ loc'[p].phase = "reindex"
      BY <2>2 DEF Visible
    <3>2. "idle" \notin Steps
      BY DEF Steps
    <3> QED
      BY <2>1, <3>1, <3>2 DEF Visible, IsWrite
  <2>4. Regenerated(p)' => Regenerated(p) /\ pc[p] = "done"
    <3>1. Regenerated(p)' => pc'[p] = "done"
      BY <2>2 DEF Regenerated, ReplaceSteps
    <3>2. pc'[p] = "done" => pc[p] = "done"
      BY <2>1
    <3> QED
      BY <2>1, <2>2, <3>1, <3>2 DEF Regenerated
  <2>5. PICK x \in Slugs : x = Slug(p) /\ x = Slug(p)'
    BY <2>1, <2>3, VisibleSlug DEF Slug
  <2>6. /\ loc[p].wrote \in Nat /\ pages[x] # None /\ pages[x].stamp >= loc[p].wrote
        /\ dpages[x] # None /\ dpages[x].stamp >= loc[p].wrote
        /\ Regenerated(p) => x \in DOMAIN index.catalog
        /\ Regenerated(p) /\ pc[p] = "done" => x \in DOMAIN dindex.catalog
    BY <2>3, <2>5 DEF Durable, HasPage, Listed
  <2>7. pages'[x] \in {pages[x], dpages[x]} /\ index' \in {index, dindex}
    BY <1>7, PowerLossFiles
  <2>8. pages'[x] # None /\ pages'[x].stamp >= loc[p].wrote
    BY <2>6, <2>7
  <2>9. Regenerated(p)' => x \in DOMAIN index'.catalog
    BY <2>4, <2>6, <2>7
  <2>10. \A q \in Procs : pc'[q] # "rx_rename"
    BY <2>2 DEF ReplaceSteps
  <2> QED
    BY <2>1, <2>2, <2>5, <2>6, <2>8, <2>9, <2>10 DEF HasPage, Listed
<1>8. ~EditIndex
  BY DEF EditIndex
<1> QED
  BY <1>3, <1>4, <1>5, <1>6, <1>7, <1>8 DEF Environment

(* Exit 0 promises durability: a power cut leaves the page, in this        *)
(* version or a later one, and a catalog that lists it, when the editor    *)
(* deletes nothing and leaves INDEX.md and, in the last window, the lock   *)
(* file alone.                                                             *)
THEOREM SuccessesAreDurable ==
    ASSUME LockStays, "delete" \notin EditorOps, "index" \notin EditorOps
    PROVE  Spec => []SuccessIsDurable
<1>1. Init => Durable
  BY DEF Init, Durable, Visible
<1>2. Inv /\ Exclusion /\ Durable /\ [Next]_vars => Durable'
  BY NextInv, StepDurable, EnvironmentDurable DEF Next
<1>3. Inv /\ Durable => SuccessIsDurable
  <2> SUFFICES ASSUME Inv, Durable, NEW p \in Procs, Returned(p), out[p].exit = 0, IsWrite(p)
               PROVE  /\ dpages[Slug(p)] # None
                      /\ dpages[Slug(p)].stamp >= loc[p].wrote
                      /\ out[p].index => Slug(p) \in DOMAIN dindex.catalog
    BY DEF SuccessIsDurable
  <2>1. pc[p] = "done" /\ loc[p].phase = "reindex"
    BY DEF Inv, Local, Flow, Returned
  <2>2. Visible(p) /\ (out[p].index => Regenerated(p))
    BY <2>1 DEF Visible, Regenerated
  <2> QED
    BY <2>1, <2>2 DEF Durable, HasPage, Listed
<1>4. Spec => []Exclusion
  BY SpecExclusion
<1> QED
  BY <1>1, <1>2, <1>3, <1>4, SpecInv, PTL DEF Spec

=============================================================================
