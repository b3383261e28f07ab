---------------------------- MODULE WikiInitProofs ----------------------------
(***************************************************************************)
(* Proofs about `yams-wiki init`, for any repositories, requests and       *)
(* environment, and any number of edits, failing calls and kills.          *)
(*                                                                         *)
(* Core, an inductive invariant, says that the plan, the tree, the         *)
(* operation under way and the journal fit together; ForeignWorkSurvives   *)
(* follows from it step by step.  WikiInitSafety builds on it.             *)
(***************************************************************************)
EXTENDS WikiInit, FiniteSetTheorems, WellFoundedInduction, TLAPS

-----------------------------------------------------------------------------
(* The inductive invariant, in parts. *)

OperationKinds == {None, "create-directory", "create-file", "replace-file", "remove-file"}

DirPhases == {"dir-made", "dir-named", "dir-installed"}
FilePhases == {"file-opened", "file-filled"}
ReplacePhases == {"temp-opened", "temp-filled", "replaced"}
OpPhases == {"operation", "unlinked", "restoring"} \cup DirPhases \cup FilePhases \cup ReplacePhases
EarlyPhases == {"stage1", "staged1", "stage2", "staged2", "planned", "lock", "check"}
ApplyPhases == OpPhases \cup {"next", "ended", "revalidating", "failed", "recovering"}
Phases == {"idle", "inspected", "done", "crashed"} \cup EarlyPhases \cup ApplyPhases

EntryType == [kind : {"file", "dir", "replaced", "removed", "mode"}, path : Paths,
              state : {"unknown", "temporary", "installed", "identified", "unidentified",
                       "removed", "active", "settled"},
              original : Nodes]
ReportType == [ok : BOOLEAN, class : {None, "usage", "operational", "success"},
               layout : {None, "absent", "minimal", "full", "partial"},
               unresolved : SUBSET [path : Paths, temp : BOOLEAN]]

(* Every variable has its type. *)
TypeOK ==
    /\ disk \in [Paths -> Nodes] /\ head \in [Paths -> Nodes]
    /\ temps \in [Owned -> Texts \cup {None, "dir"}] /\ stale \in SUBSET Owned
    /\ case \in Cases /\ pc \in Phases
    /\ manifest \in [mode : {None, "minimal", "full"}, kinds : [Owned -> OperationKinds],
                     candidate : [Owned -> Nodes]]
    /\ todo \in SUBSET Owned /\ journal \in Seq(EntryType)
    /\ locked \in BOOLEAN /\ madeLock \in BOOLEAN /\ lockSeen \in Nodes
    /\ report \in ReportType /\ touched \in SUBSET Owned
    /\ faults \in Nat

(* Nodes as an inspection records them: without their inodes. *)
SeenNodes == {n \in Nodes : n.by = Nobody}

(* There is an inspection that what follows is based on. *)
Approving == \/ pc = "inspected"
             \/ manifest.mode # None /\ pc # "crashed"

(* What a plan holds of each path: the operation and what it starts from   *)
(* and leads to.                                                           *)
PlanOf(p, a, c, k, mode) ==
    /\ a.kind \in {"missing", IF p \in Dirs THEN "dir" ELSE "file"}
    /\ k = None => SamePrestate(a, c)
    /\ k = "create-directory" => p \in Dirs /\ a.kind = "missing" /\ c = Dir(TRUE, "apply")
    /\ k = "create-file" => p \in Files /\ a.kind = "missing" /\ c = DesiredFile(c.text)
    /\ k = "replace-file" => p \in Files /\ a.kind = "file" /\ c = DesiredFile(c.text)
    /\ k = "remove-file" => p = Flat /\ a.kind = "file" /\ c = Missing /\ mode = "full"
    /\ k # None => p # Extra
    /\ c.text # "foreign"
PlannedPath(p) ==
    PlanOf(p, approved.nodes[p], manifest.candidate[p], manifest.kinds[p], manifest.mode)

Planned ==
    /\ approved.nodes \in [Paths -> SeenNodes]
    /\ \A p \in Owned : PlannedPath(p)
    /\ validate_owned_candidate(manifest.candidate, manifest.mode)
    /\ (\E p \in Forbidden : approved.nodes[p].kind # "missing") => manifest.mode = "full"

PlanInv ==
    /\ pc \in EarlyPhases \cup ApplyPhases => manifest.mode # None
    /\ pc \in {"idle", "inspected"} => manifest.mode = None
    /\ manifest.mode = None => manifest = NoManifest
    /\ manifest.mode # None => Planned
    /\ pc = "inspected" => approved.nodes \in [Paths -> SeenNodes]

(* The repository is a tree; what this process made at a directory's path  *)
(* is a directory.                                                         *)
DiskInv ==
    /\ Tree(disk) /\ Tree(head)
    /\ \A p \in Dirs : disk[p].by = "apply" => disk[p].kind = "dir"
    /\ manifest.mode # None /\ pc # "crashed" => \A p \in Files : disk[p].kind # "dir"

(* Until the first operation the directories are the inspected ones. *)
DirsInv ==
    pc \in EarlyPhases \cup {"inspected"} =>
        \A d \in Dirs : disk[d].kind = "dir" <=> approved.nodes[d].kind = "dir"

Active(i) == journal[i].kind = "mode" /\ journal[i].state = "active"

EntryOK(e) ==
    /\ e.state = "settled" => e.kind = "mode"
    /\ e.kind = "file" => e.path \in Owned /\ manifest.kinds[e.path] = "create-file"
    /\ e.kind = "dir" => e.path \in Owned /\ manifest.kinds[e.path] = "create-directory"
    /\ e.kind = "replaced" =>
         /\ e.path \in Owned /\ manifest.kinds[e.path] = "replace-file"
         /\ \/ SamePrestate(e.original, approved.nodes[e.path])
            \/ e.path \in touched /\ e.state # "installed"
    /\ e.kind = "removed" =>
         /\ e.path \in Owned /\ manifest.kinds[e.path] = "remove-file"
         /\ SamePrestate(e.original, approved.nodes[e.path])
    /\ e.kind = "mode" =>
         /\ e.path \in Dirs \cup {Root}
         /\ e.path \in Dirs => approved.nodes[e.path].kind = "dir" /\ ~approved.nodes[e.path].rw

LastIs(kind, states) ==
    /\ journal # <<>>
    /\ Last(journal).kind = kind /\ Last(journal).path = Target /\ Last(journal).state \in states

(* The operation under way and its entry in the journal. *)
OperationInv ==
    /\ todo \subseteq {p \in Owned : manifest.kinds[p] # None}
    /\ pc \notin ApplyPhases \cup {"done"} => todo = {}
    /\ pc = "revalidating" => todo = {}
    /\ pc \in OpPhases \cup {"ended"} => todo # {}
    /\ pc \in OpPhases => disk[Parent[Target]].kind = "dir"
    /\ pc \in DirPhases => Kind = "create-directory"
    /\ pc \in FilePhases => Kind = "create-file"
    /\ pc \in ReplacePhases => Kind = "replace-file"
    /\ pc = "unlinked" => Kind = "remove-file"
    /\ pc = "operation" => AsApproved(Target) \/ Target \in touched
    /\ pc = "dir-made" => LastIs("dir", {"unknown"})
    /\ pc = "dir-named" => LastIs("dir", {"temporary"})
    /\ pc \in FilePhases => LastIs("file", {"identified"})
    /\ pc \in ReplacePhases => LastIs("replaced", {"identified", "installed"})
    /\ pc = "file-opened" /\ Ours(Target) => disk[Target].text = NoText
    /\ pc = "ended" \/ (pc = "restoring" /\ report.class = None) =>
         (Kind = "create-directory" => disk[Target].kind = "dir")
    /\ pc \in EarlyPhases \cup {"idle", "inspected", "crashed"} => temps = NoTemps

JournalInv ==
    /\ pc \notin ApplyPhases \cup {"done"} => journal = <<>>
    /\ \A i \in DOMAIN journal : EntryOK(journal[i])
    /\ pc \in OpPhases => \A i \in DOMAIN journal : Active(i) => journal[i].path = Parent[Target]
    /\ pc \in {"next", "ended", "revalidating"} => \A i \in DOMAIN journal : ~Active(i)
    /\ Approving /\ pc \notin {"recovering", "done"} =>
         \A d \in Dirs : disk[d].kind = "dir" /\ ~disk[d].rw =>
            approved.nodes[d].kind = "dir" /\ ~approved.nodes[d].rw

(* An entry that stands for a difference from the approved repository. *)
Covers(e, p) ==
    /\ e.path = p
    /\ \/ e.kind \in {"file", "replaced", "removed"}
       \/ e.kind = "dir" /\ e.state = "installed"
       \/ e.kind = "mode" /\ e.state = "active"

-----------------------------------------------------------------------------
(* Paths and nodes. *)

(* Each path's parent, and that it is a directory's path. *)
LEMMA Parents ==
    /\ DOMAIN Parent = Owned \cup {Lock}
    /\ \A p \in Owned \cup {Lock} : Parent[p] \in Dirs \cup {Root} /\ Parent[p] # p
    /\ Parent[AgentsDir] = Root /\ Parent[AgentsMd] = Root /\ Parent[Memory] = AgentsDir
    /\ \A p \in {Gitignore, Index, Schema, Pages, Flat, Lock} : Parent[p] = Memory
    /\ Parent[Project] = Pages /\ Parent[Extra] = Pages
BY DEF Parent, Owned, Dirs, Files, PagePaths, Root, AgentsMd, AgentsDir, Memory, Gitignore,
       Index, Schema, Pages, Flat, Lock, Project, Extra

(* Which paths there are, and that they differ. *)
LEMMA PathSets ==
    /\ Owned = Dirs \cup Files /\ Dirs \cap Files = {}
    /\ Paths = Owned \cup {Root, Lock} /\ Root \notin Owned /\ Lock \notin Owned /\ Root # Lock
    /\ Dirs \subseteq Owned /\ Files \subseteq Owned /\ Owned \subseteq Paths
    /\ AgentsDir \in Dirs /\ Memory \in Dirs /\ Pages \in Dirs
    /\ {AgentsMd, Gitignore, Index, Schema, Flat, Project, Extra} \subseteq Files
BY DEF Paths, Owned, Dirs, Files, PagePaths, Root, AgentsMd, AgentsDir, Memory, Gitignore,
       Index, Schema, Pages, Flat, Lock, Project, Extra

(* The operation that is next is one of those not yet started, and none of *)
(* them comes before it.                                                   *)
LEMMA TargetIsFirst ==
    ASSUME manifest.kinds \in [Owned -> OperationKinds], todo \in SUBSET Owned, todo # {}
    PROVE  /\ Target \in todo
           /\ \A q \in todo : SortKey(manifest.kinds, Target) <= SortKey(manifest.kinds, q)
<1> DEFINE key(p) == SortKey(manifest.kinds, p)
           keys == {key(p) : p \in todo}
<1>1. \A p \in todo : key(p) \in Nat
  BY DEF SortKey, PathPlace, operation_rank, Owned, Dirs, Files
<1>2. keys \subseteq Nat /\ keys # {}
  BY <1>1
<1>3. PICK k \in keys : \A j \in keys : <<j, k>> \notin OpToRel(<, Nat)
  BY <1>2, NatLessThanWellFounded, WFMin
<1>4. OpToRel(<, Nat) = {ss \in Nat \X Nat : ss[1] < ss[2]}
  BY Zenon DEF OpToRel
<1>5. PICK p \in todo : key(p) = k
  BY <1>3
<1>6. ASSUME NEW q \in todo PROVE key(p) <= key(q)
  <2>1. key(q) \in keys /\ key(q) \in Nat /\ k \in Nat
    BY <1>2
  <2>2. <<key(q), k>> \notin {ss \in Nat \X Nat : ss[1] < ss[2]}
    BY <1>3, <1>4, <2>1
  <2>3. ~(key(q) < k)
    BY <2>1, <2>2
  <2> QED
    BY <2>1, <2>3, <1>5
<1> QED
  BY <1>5, <1>6 DEF Target, sort_operations

(* Nodes stay nodes. *)
LEMMA NodeFacts ==
    /\ Missing \in Nodes
    /\ \A t \in Texts : \A b \in Makers : File(t, b) \in Nodes
    /\ \A r \in BOOLEAN : \A b \in Makers : Dir(r, b) \in Nodes
<1>1. NoText \in Texts /\ Nobody \in Makers
  BY DEF Texts, Makers
<1>2. Missing \in Nodes
  BY <1>1 DEF Nodes, Missing, NodeOf
<1>3. ASSUME NEW t \in Texts, NEW b \in Makers PROVE File(t, b) \in Nodes
  BY DEF Nodes, File, NodeOf
<1>4. ASSUME NEW r \in BOOLEAN, NEW b \in Makers PROVE Dir(r, b) \in Nodes
  BY <1>1 DEF Nodes, Dir, NodeOf
<1> QED
  BY <1>2, <1>3, <1>4

(* What a node is made of. *)
LEMMA NodeShape ==
    ASSUME NEW n \in Nodes
    PROVE  /\ n = [kind |-> n.kind, text |-> n.text, rw |-> n.rw, by |-> n.by]
           /\ n.kind \in {"missing", "file", "dir"} /\ n.text \in Texts
           /\ n.rw \in BOOLEAN /\ n.by \in Makers
           /\ n.kind = "missing" => n = Missing
           /\ n.kind = "file" => n.rw = TRUE
           /\ n.kind = "dir" => n.text = NoText
           /\ n.kind # "dir" => n.rw = TRUE
           /\ Missing.kind = "missing" /\ Missing.text = NoText /\ Missing.rw = TRUE
           /\ Missing.by = Nobody
<1> USE DEF Nodes, Missing, NodeOf
<1>1. n \in [kind : {"missing", "file", "dir"}, text : Texts, rw : BOOLEAN, by : Makers]
  OBVIOUS
<1>2. n = [kind |-> n.kind, text |-> n.text, rw |-> n.rw, by |-> n.by]
  BY <1>1
<1>3. n.kind = "file" => n.rw = TRUE
  <2>1. n.kind = "file" => n.rw
    BY Zenon
  <2> QED
    BY <1>1, <2>1
<1>4. n.kind = "missing" => n = Missing
  BY Zenon
<1>5. n.kind = "dir" => n.text = NoText
  BY Zenon
<1>6. Missing.kind = "missing" /\ Missing.text = NoText /\ Missing.rw = TRUE /\ Missing.by = Nobody
  BY Zenon
<1>7. n.kind # "dir" => n.rw = TRUE
  <2>1. n.kind \in {"missing", "file", "dir"}
    BY <1>1
  <2>2. CASE n.kind = "missing"
    BY <2>2, <1>4, <1>6
  <2>3. CASE n.kind = "file"
    BY <2>3, <1>3
  <2> QED
    BY <2>1, <2>2, <2>3
<1> QED
  BY <1>1, <1>2, <1>3, <1>4, <1>5, <1>6, <1>7, Zenon

(* Two nodes are the same prestate when they differ at most in the inode. *)
LEMMA SameMeans ==
    ASSUME NEW n \in Nodes, NEW m \in Nodes
    PROVE  SamePrestate(n, m) <=> n.kind = m.kind /\ n.text = m.text /\ n.rw = m.rw
<1>1. /\ n = [kind |-> n.kind, text |-> n.text, rw |-> n.rw, by |-> n.by]
      /\ m = [kind |-> m.kind, text |-> m.text, rw |-> m.rw, by |-> m.by]
  BY NodeShape
<1> QED
  BY <1>1, SMT DEF SamePrestate, Prestate

(* Changes of a node that lead to a node. *)
LEMMA NodeSteps ==
    ASSUME NEW n \in Nodes
    PROVE  /\ \A b \in Makers : n.kind # "missing" => [n EXCEPT !.by = b] \in Nodes
           /\ [n EXCEPT !.rw = TRUE] \in Nodes
           /\ n.kind # "dir" => [n EXCEPT !.rw = TRUE] = n
           /\ n.kind = "dir" => [n EXCEPT !.rw = FALSE] \in Nodes
           /\ \A t \in Texts : n.kind = "file" => [n EXCEPT !.text = t] \in Nodes
           /\ Prestate(n) \in SeenNodes
<1>0. NoText \in Texts /\ Nobody \in Makers
  BY DEF Texts, Makers
<1>1. ASSUME NEW b \in Makers, n.kind # "missing" PROVE [n EXCEPT !.by = b] \in Nodes
  BY <1>1 DEF Nodes
<1>3. n.kind # "dir" => [n EXCEPT !.rw = TRUE] = n
  <2>1. n.kind # "dir" => n.rw = TRUE
    BY NodeShape
  <2>2. n = [kind |-> n.kind, text |-> n.text, rw |-> n.rw, by |-> n.by]
    BY NodeShape
  <2>3. ASSUME NEW r, n.rw = r PROVE [n EXCEPT !.rw = r] = n
    BY <2>2, <2>3
  <2> QED
    BY <2>1, <2>3, Zenon
<1>2. [n EXCEPT !.rw = TRUE] \in Nodes
  <2>1. CASE n.kind # "dir"
    BY <1>3, <2>1, Zenon
  <2>2. CASE n.kind = "dir"
    BY <2>2 DEF Nodes
  <2> QED
    BY <2>1, <2>2
<1>4. n.kind = "dir" => [n EXCEPT !.rw = FALSE] \in Nodes
  BY DEF Nodes
<1>5. ASSUME NEW t \in Texts, n.kind = "file" PROVE [n EXCEPT !.text = t] \in Nodes
  BY <1>5 DEF Nodes
<1>6. Prestate(n) \in SeenNodes
  BY <1>0 DEF SeenNodes, Prestate, Missing, NodeOf, Nodes
<1> QED
  BY <1>1, <1>2, <1>3, <1>4, <1>5, <1>6

(* What an inspection records of a node. *)
LEMMA PrestateFacts ==
    ASSUME NEW n \in Nodes
    PROVE  /\ Prestate(n) \in SeenNodes /\ Prestate(n) \in Nodes
           /\ Prestate(n).kind = n.kind /\ Prestate(n).text = n.text /\ Prestate(n).rw = n.rw
           /\ \A m \in Nodes : SamePrestate(Prestate(n), m) <=> SamePrestate(n, m)
           /\ \A m \in Nodes : SamePrestate(m, Prestate(n)) <=> SamePrestate(n, m)
<1>1. Prestate(n) \in SeenNodes /\ Prestate(n) \in Nodes
  BY NodeSteps DEF SeenNodes
<1>2. Prestate(n).kind = n.kind /\ Prestate(n).text = n.text /\ Prestate(n).rw = n.rw
  <2>1. n = [kind |-> n.kind, text |-> n.text, rw |-> n.rw, by |-> n.by]
    BY NodeShape
  <2>2. ASSUME NEW r, r = n.rw PROVE Prestate(n).rw = r
    BY <2>1, <2>2 DEF Prestate
  <2> QED
    BY <2>1, <2>2 DEF Prestate
<1>3. ASSUME NEW m \in Nodes
      PROVE  /\ SamePrestate(Prestate(n), m) <=> SamePrestate(n, m)
             /\ SamePrestate(m, Prestate(n)) <=> SamePrestate(n, m)
  <2> DEFINE s == Prestate(n)
  <2>1. s \in Nodes /\ s.kind = n.kind /\ s.text = n.text /\ s.rw = n.rw
    BY <1>1, <1>2
  <2> HIDE DEF s
  <2>2. SamePrestate(s, m) <=> s.kind = m.kind /\ s.text = m.text /\ s.rw = m.rw
    BY <2>1, SameMeans, Zenon
  <2>3. SamePrestate(m, s) <=> m.kind = s.kind /\ m.text = s.text /\ m.rw = s.rw
    BY <2>1, SameMeans, Zenon
  <2>4. SamePrestate(n, m) <=> n.kind = m.kind /\ n.text = m.text /\ n.rw = m.rw
    BY SameMeans, Zenon
  <2>5. /\ SamePrestate(s, m) <=> SamePrestate(n, m)
        /\ SamePrestate(m, s) <=> SamePrestate(n, m)
    BY <2>1, <2>2, <2>3, <2>4, Zenon
  <2> QED
    BY <2>5 DEF s
<1>4. /\ \A m \in Nodes : SamePrestate(Prestate(n), m) <=> SamePrestate(n, m)
      /\ \A m \in Nodes : SamePrestate(m, Prestate(n)) <=> SamePrestate(n, m)
  BY ONLY <1>3, Zenon
<1> QED
  BY ONLY <1>1, <1>2, <1>4, Zenon

-----------------------------------------------------------------------------
(* Types. *)

(* What a refusal and a failure put into the report. *)
LEMMA ReportTypes ==
    ASSUME report \in ReportType
    PROVE  /\ \A c \in {"usage", "operational"} :
                 \A l \in {None, "absent", "minimal", "full", "partial"} :
                     Refuse(c, l) => report' \in ReportType /\ pc' = "done" /\ ~locked' /\ ~report'.ok
                                     /\ report'.unresolved = {} /\ report'.class = c
                                     /\ report'.layout = l
           /\ \A c \in {"usage", "operational"}, n \in Phases :
                 FailAs(c, n) => /\ report' \in ReportType /\ pc' = n
                                 /\ report'.ok = report.ok /\ report'.layout = report.layout
                                 /\ report'.unresolved = report.unresolved
                                 /\ report'.class \in {"usage", "operational"}
           /\ NoReport \in ReportType
<1>1. NoReport \in ReportType
  BY DEF NoReport, ReportType
<1>2. ASSUME NEW c \in {"usage", "operational"},
             NEW l \in {None, "absent", "minimal", "full", "partial"}, Refuse(c, l)
      PROVE report' \in ReportType /\ pc' = "done" /\ ~locked' /\ ~report'.ok
            /\ report'.unresolved = {} /\ report'.class = c /\ report'.layout = l
  BY <1>2 DEF Refuse, NoReport, ReportType
<1>3. ASSUME NEW c \in {"usage", "operational"}, NEW n \in Phases, FailAs(c, n)
      PROVE  /\ report' \in ReportType /\ pc' = n
             /\ report'.ok = report.ok /\ report'.layout = report.layout
             /\ report'.unresolved = report.unresolved
             /\ report'.class \in {"usage", "operational"}
  BY <1>3 DEF FailAs, ReportType, dominant_exit_class, None
<1> QED
  BY <1>1, <1>2, <1>3

(* What a step puts into the journal. *)
LEMMA JournalTypes ==
    ASSUME journal \in Seq(EntryType)
    PROVE  /\ \A e \in EntryType : Append(journal, e) \in Seq(EntryType)
           /\ \A s \in {"temporary", "installed"} : LastState(s) \in Seq(EntryType)
           /\ journal # <<>> => Front(journal) \in Seq(EntryType) /\ Last(journal) \in EntryType
           /\ \A j : (/\ DOMAIN j = 1..Len(journal)
                      /\ j = [i \in 1..Len(journal) |-> j[i]]
                      /\ \A i \in 1..Len(journal) : j[i] \in EntryType) => j \in Seq(EntryType)
<1>1. \A e \in EntryType : Append(journal, e) \in Seq(EntryType)
  OBVIOUS
<1>2. ASSUME NEW s \in {"temporary", "installed"} PROVE LastState(s) \in Seq(EntryType)
  <2>1. CASE Len(journal) = 0
    <3>1. LastState(s) = journal
      BY <2>1 DEF LastState
    <3> QED
      BY <3>1
  <2>2. CASE Len(journal) # 0
    <3>1. Len(journal) \in DOMAIN journal /\ journal[Len(journal)] \in EntryType
      BY <2>2
    <3>2. [journal[Len(journal)] EXCEPT !.state = s] \in EntryType
      BY <3>1 DEF EntryType
    <3> QED
      BY <3>1, <3>2 DEF LastState
  <2> QED
    BY <2>1, <2>2
<1>3. ASSUME journal # <<>> PROVE Front(journal) \in Seq(EntryType) /\ Last(journal) \in EntryType
  BY <1>3 DEF Front, Last
<1>4. ASSUME NEW j, DOMAIN j = 1..Len(journal), j = [i \in 1..Len(journal) |-> j[i]],
             \A i \in 1..Len(journal) : j[i] \in EntryType
      PROVE j \in Seq(EntryType)
  <2>1. Len(journal) \in Nat
    OBVIOUS
  <2>2. [i \in 1..Len(journal) |-> j[i]] \in Seq(EntryType)
    BY <2>1, <1>4
  <2> QED
    BY <2>2, <1>4
<1> QED
  BY <1>1, <1>2, <1>3, <1>4

(* Entries that a step adds are entries. *)
LEMMA EntryTypes ==
    ASSUME TypeOK
    PROVE  /\ \A d \in Paths : Widened(d) \in EntryType
           /\ Target \in Owned =>
                /\ Entry("dir", "unknown", Missing) \in EntryType
                /\ \A s \in {"identified", "unidentified"} :
                     Entry("file", s, Missing) \in EntryType
                     /\ Entry("replaced", s, disk[Target]) \in EntryType
                /\ Entry("removed", "removed", disk[Target]) \in EntryType
BY PathSets, NodeFacts DEF Widened, Entry, EntryType, TypeOK

-----------------------------------------------------------------------------
(* What a rollback step can do. *)

Core == TypeOK /\ PlanInv /\ DiskInv /\ DirsInv /\ OperationInv /\ JournalInv

(* What the plan says of an entry's path, by the entry's kind. *)
LEMMA EntryFacts ==
    ASSUME TypeOK, PlanInv, manifest.mode # None, NEW e \in EntryType, EntryOK(e)
    PROVE  /\ e.kind \in {"file", "replaced", "removed"} => e.path \in Files
           /\ e.kind = "dir" => e.path \in Dirs
           /\ e.kind # "mode" => /\ e.path \in Owned /\ e.state # "settled"
                                 /\ manifest.candidate[e.path].text # "foreign"
           /\ e.kind \in {"file", "dir"} => approved.nodes[e.path].kind = "missing"
           /\ e.kind = "removed" => /\ e.original.kind = "file"
                                    /\ SamePrestate(e.original, approved.nodes[e.path])
           /\ e.kind = "replaced" => approved.nodes[e.path].kind = "file"
           /\ e.kind = "replaced" /\ e.state = "installed" =>
                /\ e.original.kind = "file"
                /\ SamePrestate(e.original, approved.nodes[e.path])
           /\ e.kind = "mode" => e.path \in Dirs \cup {Root}
<1> DEFINE p == e.path
<1>1. Planned
  BY DEF PlanInv
<1>2. \A q \in Owned : approved.nodes[q] \in Nodes /\ PlannedPath(q)
  BY <1>1, PathSets DEF Planned, SeenNodes
<1>3. e.original \in Nodes /\ e.kind \in {"file", "dir", "replaced", "removed", "mode"}
  BY DEF EntryType
<1>4. CASE e.kind = "file"
  <2>1. p \in Owned /\ manifest.kinds[p] = "create-file" /\ e.state # "settled"
    BY <1>4 DEF EntryOK
  <2>2. p \in Files /\ approved.nodes[p].kind = "missing" /\ manifest.candidate[p].text # "foreign"
    BY <2>1, <1>2, Zenon DEF PlannedPath, PlanOf
  <2> QED
    BY <1>4, <2>1, <2>2, PathSets
<1>5. CASE e.kind = "dir"
  <2>1. p \in Owned /\ manifest.kinds[p] = "create-directory" /\ e.state # "settled"
    BY <1>5 DEF EntryOK
  <2>2. p \in Dirs /\ approved.nodes[p].kind = "missing" /\ manifest.candidate[p].text # "foreign"
    BY <2>1, <1>2, Zenon DEF PlannedPath, PlanOf
  <2> QED
    BY <1>5, <2>1, <2>2, PathSets
<1>6. CASE e.kind = "replaced"
  <2>1. /\ p \in Owned /\ manifest.kinds[p] = "replace-file" /\ e.state # "settled"
        /\ e.state = "installed" => SamePrestate(e.original, approved.nodes[p])
    BY <1>6 DEF EntryOK
  <2>2. p \in Files /\ approved.nodes[p].kind = "file" /\ manifest.candidate[p].text # "foreign"
    BY <2>1, <1>2, Zenon DEF PlannedPath, PlanOf
  <2>3. e.state = "installed" => e.original.kind = "file"
    BY <2>1, <2>2, <1>2, <1>3, SameMeans
  <2> QED
    BY <1>6, <2>1, <2>2, <2>3, PathSets
<1>7. CASE e.kind = "removed"
  <2>1. /\ p \in Owned /\ manifest.kinds[p] = "remove-file" /\ e.state # "settled"
        /\ SamePrestate(e.original, approved.nodes[p])
    BY <1>7 DEF EntryOK
  <2>2. p \in Files /\ approved.nodes[p].kind = "file" /\ manifest.candidate[p].text # "foreign"
    BY <2>1, <1>2, PathSets, Zenon DEF PlannedPath, PlanOf
  <2>3. e.original.kind = "file"
    BY <2>1, <2>2, <1>2, <1>3, SameMeans
  <2> QED
    BY <1>7, <2>1, <2>2, <2>3, PathSets
<1>8. CASE e.kind = "mode"
  BY <1>8 DEF EntryOK
<1> QED
  BY <1>3, <1>4, <1>5, <1>6, <1>7, <1>8

(* What the path of an entry may hold after a rollback step. *)
UndoneAt(e, n) ==
    \/ n = disk[e.path]
    \/ e.kind = "file" /\ Ours(e.path) /\ disk[e.path].text # "foreign" /\ n = Missing
    \/ e.kind = "dir" /\ Ours(e.path) /\ Entries(e.path) = {} /\ n = Missing
    \/ /\ e.kind = "replaced" /\ disk[e.path] = manifest.candidate[e.path]
       /\ e.original.kind = "file" /\ n = [e.original EXCEPT !.by = "apply"]
    \/ /\ e.kind = "removed" /\ ~Exists(disk, e.path) /\ disk[Parent[e.path]].kind = "dir"
       /\ n \in {[e.original EXCEPT !.by = "apply"], File("torn", "apply")}
    \/ e.kind = "mode" /\ disk[e.path].kind = "dir" /\ n = [disk[e.path] EXCEPT !.rw = FALSE]

(* An undo that says it succeeded has restored what was approved. *)
Restored(e, n) ==
    /\ e.kind \in {"file", "removed"} => SamePrestate(n, approved.nodes[e.path])
    /\ e.kind = "replaced" =>
         \/ SamePrestate(n, approved.nodes[e.path])
         \/ e.path \in touched
    /\ e.kind = "dir" /\ e.state = "installed" =>
         Entries(e.path) = {} /\ SamePrestate(n, approved.nodes[e.path])
    /\ e.kind = "mode" /\ e.state = "active" => n = [disk[e.path] EXCEPT !.rw = FALSE]

(* Undoing an entry changes what is at its path, if anything. *)
LEMMA RecoveredShape ==
    ASSUME Core, manifest.mode # None, NEW e \in EntryType, EntryOK(e)
    PROVE  \E n \in Nodes : /\ Recovered(e).disk = [disk EXCEPT ![e.path] = n] /\ UndoneAt(e, n)
                            /\ Recovered(e).temps \in [Owned -> Texts \cup {None, "dir"}]
                            /\ Recovered(e).ok \in BOOLEAN
                            /\ Recovered(e).ok => Restored(e, n)
                            /\ \A q \in Owned : Recovered(e).temps[q] # None =>
                                 Recovered(e).temps[q] = temps[q]
                            /\ Recovered(e).ok /\ e.kind = "removed" => ~Exists(disk, e.path)
                                 /\ disk[Parent[e.path]].kind = "dir"
<1> DEFINE p == e.path
           Shape(u) == \E n \in Nodes :
                          /\ u.disk = [disk EXCEPT ![p] = n] /\ UndoneAt(e, n)
                          /\ u.temps \in [Owned -> Texts \cup {None, "dir"}]
                          /\ u.ok \in BOOLEAN
                          /\ u.ok => Restored(e, n)
                          /\ \A q \in Owned : u.temps[q] # None => u.temps[q] = temps[q]
                          /\ u.ok /\ e.kind = "removed" => ~Exists(disk, p)
                               /\ disk[Parent[p]].kind = "dir"
<1>1. /\ disk \in [Paths -> Nodes] /\ temps \in [Owned -> Texts \cup {None, "dir"}]
      /\ p \in Paths /\ disk[p] \in Nodes /\ e.original \in Nodes
      /\ TypeOK /\ PlanInv
  BY DEF Core, TypeOK, EntryType
<1>2. [disk EXCEPT ![p] = disk[p]] = disk
  BY <1>1
<1>3. \A u : u = Undone(disk, temps, FALSE) => Shape(u)
  BY <1>1, <1>2 DEF Undone, UndoneAt
<1>4. "apply" \in Makers /\ Missing \in Nodes
  BY NodeFacts DEF Makers
<1>5. manifest.candidate \in [Owned -> Nodes] /\ approved.nodes \in [Paths -> SeenNodes]
  BY <1>1 DEF TypeOK, PlanInv, Planned
<1>6. \A q \in Owned : approved.nodes[q] \in Nodes
  BY <1>5, PathSets DEF SeenNodes
<1>7. p \in Owned /\ approved.nodes[p].kind = "missing" => SamePrestate(Missing, approved.nodes[p])
  BY <1>6, <1>4, NodeShape, Zenon DEF SamePrestate
<1>8. ASSUME NEW n \in Nodes, UndoneAt(e, n), NEW b \in BOOLEAN, b => Restored(e, n),
             NEW t \in [Owned -> Texts \cup {None, "dir"}],
             \A q \in Owned : t[q] # None => t[q] = temps[q],
             b /\ e.kind = "removed" => ~Exists(disk, p) /\ disk[Parent[p]].kind = "dir"
      PROVE Shape(Undone([disk EXCEPT ![p] = n], t, b))
  <2> DEFINE u == Undone([disk EXCEPT ![p] = n], t, b)
  <2>1. u.disk = [disk EXCEPT ![p] = n] /\ u.temps = t /\ u.ok = b
    BY DEF Undone
  <2> QED
    BY <1>8, <2>1, Zenon
<1> HIDE DEF Shape
<1> QED
  <2> SUFFICES Shape(Recovered(e))
    BY DEF Shape
  <2>1. CASE e.kind = "file"
    <3>1. p \in Files /\ p \in Owned /\ manifest.candidate[p].text # "foreign"
          /\ approved.nodes[p].kind = "missing"
      BY <1>1, <2>1, EntryFacts
    <3>2. Shape(recover_created_file(e))
      <4>1. CASE /\ Ours(p)
                 /\ \/ disk[p].text = NoText /\ e.state = "identified"
                    \/ disk[p].text = manifest.candidate[p].text
        <5>1. recover_created_file(e) = Undone([disk EXCEPT ![p] = Missing], temps, TRUE)
          BY <4>1 DEF recover_created_file
        <5>2. disk[p].text # "foreign"
          BY <4>1, <3>1 DEF NoText
        <5>3. UndoneAt(e, Missing) /\ Restored(e, Missing)
          BY <2>1, <4>1, <5>2, <3>1, <1>7 DEF UndoneAt, Restored
        <5> QED
          BY <5>1, <5>3, <1>1, <1>4, <2>1, <1>8
      <4>2. CASE ~(/\ Ours(p)
                   /\ \/ disk[p].text = NoText /\ e.state = "identified"
                      \/ disk[p].text = manifest.candidate[p].text)
        <5>1. recover_created_file(e) = Undone(disk, temps, FALSE)
          BY <4>2 DEF recover_created_file
        <5> QED
          BY <5>1, <1>3
      <4> QED
        BY <4>1, <4>2
    <3>3. \/ Recovered(e) = Undone(disk, temps, FALSE)
          \/ Recovered(e) = recover_created_file(e)
      BY <2>1 DEF Recovered
    <3> QED
      BY <3>2, <3>3, <1>3
  <2>2. CASE e.kind = "dir"
    <3>1. p \in Dirs /\ p \in Owned /\ approved.nodes[p].kind = "missing"
      BY <1>1, <2>2, EntryFacts
    <3>2. Shape(recover_created_directory(e))
      <4>1. CASE e.state = "temporary" /\ temps[p] = "dir"
        <5>1. recover_created_directory(e) = Undone(disk, [temps EXCEPT ![p] = None], TRUE)
          BY <4>1 DEF recover_created_directory
        <5>2. Restored(e, disk[p]) /\ UndoneAt(e, disk[p])
          BY <2>2, <4>1 DEF Restored, UndoneAt
        <5> QED
          <6>1. [temps EXCEPT ![p] = None] \in [Owned -> Texts \cup {None, "dir"}]
                /\ \A q \in Owned : [temps EXCEPT ![p] = None][q] # None =>
                      [temps EXCEPT ![p] = None][q] = temps[q]
            BY <1>1
          <6>2. Shape(Undone([disk EXCEPT ![p] = disk[p]], [temps EXCEPT ![p] = None], TRUE))
            BY <5>2, <6>1, <1>1, <2>2, <1>8
          <6> QED
            BY <5>1, <6>2, <1>2
      <4>2. CASE e.state = "installed" /\ Ours(p) /\ Entries(p) = {}
        <5>1. recover_created_directory(e) = Undone([disk EXCEPT ![p] = Missing], temps, TRUE)
          BY <4>2 DEF recover_created_directory
        <5>2. Restored(e, Missing) /\ UndoneAt(e, Missing)
          BY <2>2, <4>2, <3>1, <1>7 DEF Restored, UndoneAt
        <5> QED
          BY <5>1, <5>2, <1>1, <1>4, <2>2, <1>8
      <4>3. CASE /\ ~(e.state = "temporary" /\ temps[p] = "dir")
                 /\ ~(e.state = "installed" /\ Ours(p) /\ Entries(p) = {})
        <5>1. recover_created_directory(e) = Undone(disk, temps, FALSE)
          BY <4>3 DEF recover_created_directory
        <5> QED
          BY <5>1, <1>3
      <4> QED
        BY <4>1, <4>2, <4>3
    <3>3. \/ Recovered(e) = Undone(disk, temps, FALSE)
          \/ Recovered(e) = recover_created_directory(e)
      BY <2>2 DEF Recovered
    <3> QED
      BY <3>2, <3>3, <1>3
  <2>3. CASE e.kind = "replaced"
    <3> DEFINE swept == [temps EXCEPT ![p] = None]
               known == \/ temps[p] = NoText /\ e.state = "identified"
                        \/ temps[p] \in {None, manifest.candidate[p].text}
    <3>1. p \in Files /\ p \in Owned /\ e.state # "settled"
      BY <1>1, <2>3, EntryFacts
    <3>2. swept \in [Owned -> Texts \cup {None, "dir"}]
          /\ \A q \in Owned : swept[q] # None => swept[q] = temps[q]
      BY <1>1, <3>1
    <3>3. CASE ~known
      <4>1. recover_replaced(e) = Undone(disk, temps, FALSE)
        BY <3>3 DEF recover_replaced
      <4> QED
        BY <4>1, <1>3, <2>3 DEF Recovered
    <3>4. CASE known /\ disk[p] = e.original
      <4>1. recover_replaced(e) = Undone(disk, swept, TRUE)
        BY <3>4 DEF recover_replaced
      <4>2. Restored(e, disk[p]) /\ UndoneAt(e, disk[p])
        BY <2>3, <3>4 DEF Restored, UndoneAt, EntryOK
      <4>3. Shape(recover_replaced(e))
        <5>1. Shape(Undone([disk EXCEPT ![p] = disk[p]], swept, TRUE))
          BY <4>2, <3>2, <1>1, <2>3, <1>8
        <5> QED
          BY <5>1, <4>1, <1>2
      <4> QED
        BY <4>3, <1>3, <2>3 DEF Recovered
    <3>5. CASE known /\ disk[p] # e.original /\ e.state = "installed"
               /\ disk[p] = manifest.candidate[p]
      <4> DEFINE n == [e.original EXCEPT !.by = "apply"]
      <4>1. recover_replaced(e) = Undone([disk EXCEPT ![p] = n], swept, TRUE)
        BY <3>5 DEF recover_replaced
      <4>2. e.original.kind = "file" /\ SamePrestate(e.original, approved.nodes[p])
        BY <2>3, <3>5, EntryFacts, <1>1
      <4>3. n \in Nodes /\ n.kind = e.original.kind /\ n.text = e.original.text
            /\ n.rw = e.original.rw
        BY <4>2, <1>1, <1>4, NodeSteps, NodeShape
      <4>4. SamePrestate(n, approved.nodes[p])
        BY <4>2, <4>3, <1>1, <1>6, <3>1, SameMeans, ZenonT(30)
      <4>5. Restored(e, n) /\ UndoneAt(e, n)
        BY <2>3, <3>5, <4>2, <4>4 DEF Restored, UndoneAt
      <4>6. Shape(recover_replaced(e))
        BY <4>1, <4>5, <4>3, <3>2, <1>1, <2>3, <1>8
      <4> QED
        BY <4>6, <1>3, <2>3 DEF Recovered
    <3>6. CASE known /\ disk[p] # e.original
               /\ ~(e.state = "installed" /\ disk[p] = manifest.candidate[p])
      <4>1. recover_replaced(e) = Undone(disk, swept, FALSE)
        BY <3>6 DEF recover_replaced
      <4>2. Shape(recover_replaced(e))
        <5>1. UndoneAt(e, disk[p])
          BY DEF UndoneAt
        <5>2. Shape(Undone([disk EXCEPT ![p] = disk[p]], swept, FALSE))
          BY <5>1, <3>2, <1>1, <1>8
        <5> QED
          BY <5>2, <4>1, <1>2
      <4> QED
        BY <4>2, <1>3, <2>3 DEF Recovered
    <3> QED
      BY <3>3, <3>4, <3>5, <3>6
  <2>4. CASE e.kind = "removed"
    <3> DEFINE n == [e.original EXCEPT !.by = "apply"]
    <3>1. p \in Files /\ p \in Owned /\ e.original.kind = "file" /\ e.state # "settled"
          /\ SamePrestate(e.original, approved.nodes[p])
      BY <1>1, <2>4, EntryFacts
    <3>2. n \in Nodes /\ n.kind = e.original.kind /\ n.text = e.original.text
          /\ n.rw = e.original.rw
      BY <3>1, <1>1, <1>4, NodeSteps, NodeShape
    <3>3. SamePrestate(n, approved.nodes[p])
      BY <3>1, <3>2, <1>1, <1>6, SameMeans, ZenonT(30)
    <3>4. CASE disk[Parent[p]].kind = "dir" /\ ~Exists(disk, p)
      <4>1. Recovered(e) = Undone([disk EXCEPT ![p] = n], temps, TRUE)
        BY <3>4, <2>4, Zenon DEF Recovered, recover_removed
      <4>2. Restored(e, n) /\ UndoneAt(e, n)
        BY <2>4, <3>3, <3>4 DEF Restored, UndoneAt
      <4> QED
        BY <4>1, <4>2, <3>2, <3>4, <1>1, <2>4, <1>8
    <3>5. CASE ~(disk[Parent[p]].kind = "dir" /\ ~Exists(disk, p))
      <4>1. Recovered(e) = Undone(disk, temps, FALSE)
        <5>1. CASE disk[Parent[p]].kind # "dir"
          BY <5>1, <3>1, <2>4 DEF Recovered
        <5>2. CASE disk[Parent[p]].kind = "dir" /\ Exists(disk, p)
          BY <5>2, <3>1, <2>4, Zenon DEF Recovered, recover_removed
        <5> QED
          BY <5>1, <5>2, <3>5
      <4> QED
        BY <4>1, <1>3
    <3> QED
      BY <3>4, <3>5
  <2>5. CASE e.kind = "mode"
    <3> DEFINE n == [disk[p] EXCEPT !.rw = FALSE]
    <3>1. CASE e.state # "settled" /\ disk[p].kind # "dir"
      <4>1. Recovered(e) = Undone(disk, temps, FALSE)
        BY <3>1, <2>5 DEF Recovered
      <4> QED
        BY <4>1, <1>3
    <3>2. CASE e.state = "active" /\ disk[p].kind = "dir"
      <4>1. Recovered(e) = Undone([disk EXCEPT ![p] = n], temps, TRUE)
        BY <3>2, <2>5, <1>1 DEF Recovered, recover_parent_mode
      <4>2. n \in Nodes
        BY <3>2, <1>1, NodeSteps
      <4>3. Restored(e, n) /\ UndoneAt(e, n)
        BY <2>5, <3>2 DEF Restored, UndoneAt
      <4> QED
        BY <4>1, <4>2, <4>3, <1>1, <2>5, <1>8
    <3>3. CASE e.state # "active" /\ ~(e.state # "settled" /\ disk[p].kind # "dir")
      <4>1. Recovered(e) = Undone(disk, temps, TRUE)
        BY <3>3, <2>5 DEF Recovered, recover_parent_mode
      <4>2. Restored(e, disk[p]) /\ UndoneAt(e, disk[p])
        BY <2>5, <3>3 DEF Restored, UndoneAt
      <4> QED
        <5>1. Shape(Undone([disk EXCEPT ![p] = disk[p]], temps, TRUE))
          BY <4>2, <1>1, <2>5, <1>8
        <5> QED
          BY <5>1, <4>1, <1>2
    <3> QED
      BY <3>1, <3>2, <3>3
  <2> QED
    BY <2>1, <2>2, <2>3, <2>4, <2>5 DEF EntryType

(* So does an undo that a failing call interrupts, but for the mode of the *)
(* directory it works in.                                                  *)
LEMMA InterruptedShape ==
    ASSUME Core, manifest.mode # None, NEW e \in EntryType, EntryOK(e), NEW u \in Interrupted(e)
    PROVE  /\ u.temps \in [Owned -> Texts \cup {None, "dir"}] /\ u.ok = FALSE
           /\ \E n \in Nodes :
                /\ UndoneAt(e, n)
                /\ \/ u.disk = [disk EXCEPT ![e.path] = n]
                   \/ /\ e.path \in Owned
                      /\ u.disk = [[disk EXCEPT ![e.path] = n] EXCEPT ![Parent[e.path]].rw = TRUE]
<1> DEFINE p == e.path
           r == Recovered(e)
           Temps == [Owned -> Texts \cup {None, "dir"}]
<1>1. /\ disk \in [Paths -> Nodes] /\ temps \in Temps /\ p \in Paths /\ disk[p] \in Nodes
      /\ TypeOK /\ PlanInv
  BY DEF Core, TypeOK, EntryType
<1>2. [disk EXCEPT ![p] = disk[p]] = disk /\ UndoneAt(e, disk[p])
  BY <1>1 DEF UndoneAt
<1>3. PICK m \in Nodes : /\ r.disk = [disk EXCEPT ![p] = m] /\ UndoneAt(e, m) /\ r.temps \in Temps
                         /\ r.ok /\ e.kind = "removed" => ~Exists(disk, p)
                                                          /\ disk[Parent[p]].kind = "dir"
  BY RecoveredShape
<1>4. CASE u = Undone(disk, temps, FALSE)
  BY <1>1, <1>2, <1>4 DEF Undone
<1>5. CASE u = Undone(r.disk, r.temps, FALSE)
  <2>1. u.disk = r.disk /\ u.temps = r.temps /\ u.ok = FALSE
    BY <1>5 DEF Undone
  <2> QED
    BY <2>1, <1>3, Zenon
<1>6. CASE e.kind # "mode" /\ u = Undone([r.disk EXCEPT ![Parent[p]].rw = TRUE], r.temps, FALSE)
  <2>1. u.disk = [r.disk EXCEPT ![Parent[p]].rw = TRUE] /\ u.temps = r.temps /\ u.ok = FALSE
    BY <1>6 DEF Undone
  <2>2. p \in Owned
    BY <1>1, <1>6, EntryFacts
  <2>3. u.disk = [[disk EXCEPT ![p] = m] EXCEPT ![Parent[p]].rw = TRUE]
    BY <2>1, <1>3
  <2> QED
    BY <2>1, <2>2, <2>3, <1>3, Zenon
<1>7. CASE e.kind = "removed" /\ r.ok
           /\ u = Undone([disk EXCEPT ![p] = File("torn", "apply")], temps, FALSE)
  <2>1. File("torn", "apply") \in Nodes
    BY NodeFacts DEF Texts, Makers
  <2>2. UndoneAt(e, File("torn", "apply"))
    BY <1>7, <1>3 DEF UndoneAt
  <2>3. u.disk = [disk EXCEPT ![p] = File("torn", "apply")] /\ u.temps = temps /\ u.ok = FALSE
    BY <1>7 DEF Undone
  <2> QED
    BY <2>1, <2>2, <2>3, <1>1, Zenon
<1>8. CASE e.kind = "replaced" /\ u = Undone(disk, [temps EXCEPT ![p] = "torn"], FALSE)
  <2>1. [temps EXCEPT ![p] = "torn"] \in Temps
    BY <1>1 DEF Texts
  <2> QED
    BY <2>1, <1>1, <1>2, <1>8 DEF Undone
<1> QED
  BY <1>4, <1>5, <1>6, <1>7, <1>8, Zenon DEF Interrupted

(* What a step of the rollback does. *)
LEMMA RecoverEffect ==
    ASSUME Core, RecoverEntry, NEW e, e = Last(journal)
    PROVE  /\ e \in EntryType /\ EntryOK(e) /\ journal # <<>> /\ journal' = Front(journal)
           /\ temps' \in [Owned -> Texts \cup {None, "dir"}]
           /\ report' \in ReportType /\ report'.ok = report.ok /\ report'.layout = report.layout
           /\ report.unresolved \subseteq report'.unresolved
           /\ \E n \in Nodes :
                /\ UndoneAt(e, n)
                /\ \/ disk' = [disk EXCEPT ![e.path] = n]
                   \/ /\ e.path \in Owned /\ entry_report_path(e) \in report'.unresolved
                      /\ disk' = [[disk EXCEPT ![e.path] = n] EXCEPT ![Parent[e.path]].rw = TRUE]
                /\ \/ entry_report_path(e) \in report'.unresolved
                   \/ Restored(e, n) /\ report' = report
<1> DEFINE Apply(u, class) ==
              /\ disk' = u.disk /\ temps' = u.temps
              /\ report' = [report EXCEPT
                    !.class = IF u.ok THEN @ ELSE dominant_exit_class(@, class),
                    !.unresolved = IF u.ok THEN @ ELSE @ \cup {entry_report_path(e)}]
<1>1. /\ pc = "recovering" /\ journal # <<>> /\ journal' = Front(journal)
      /\ \/ Apply(Recovered(e), "usage")
         \/ \E u \in Interrupted(e) : Apply(u, "operational")
  BY Zenon DEF RecoverEntry
<1>2. /\ TypeOK /\ PlanInv /\ JournalInv /\ journal \in Seq(EntryType) /\ report \in ReportType
  BY DEF Core, TypeOK
<1>3. manifest.mode # None
  BY <1>1, <1>2 DEF PlanInv, ApplyPhases
<1>4. e \in EntryType /\ EntryOK(e)
  <2>1. Len(journal) \in DOMAIN journal /\ e = journal[Len(journal)]
    <3>1. journal # <<>> /\ journal \in Seq(EntryType) /\ e = Last(journal)
      BY <1>1, <1>2
    <3> QED
      BY ONLY <3>1 DEF Last
  <2> QED
    BY <2>1, <1>2 DEF JournalInv
<1>5. entry_report_path(e) \in [path : Paths, temp : BOOLEAN]
  BY <1>4 DEF entry_report_path, TempOf, At, EntryType
<1>6. ASSUME NEW u, NEW class \in {"usage", "operational"}, u.ok \in BOOLEAN, Apply(u, class)
      PROVE /\ report' \in ReportType /\ report'.ok = report.ok /\ report'.layout = report.layout
            /\ report.unresolved \subseteq report'.unresolved
            /\ ~u.ok => entry_report_path(e) \in report'.unresolved
            /\ u.ok => report' = report
  <2>1. CASE u.ok
    <3> DEFINE c1 == IF u.ok THEN report.class ELSE dominant_exit_class(report.class, class)
               v1 == IF u.ok THEN report.unresolved
                     ELSE report.unresolved \cup {entry_report_path(e)}
    <3>1. report' = [report EXCEPT !.class = c1, !.unresolved = v1]
      BY <1>6, Zenon
    <3>5. c1 = report.class /\ v1 = report.unresolved
      BY <2>1
    <3> HIDE DEF c1, v1
    <3>2. report = [ok |-> report.ok, class |-> report.class, layout |-> report.layout,
                    unresolved |-> report.unresolved]
      BY <1>2 DEF ReportType
    <3>3. ASSUME NEW c, NEW v, c = report.class, v = report.unresolved
          PROVE [report EXCEPT !.class = c, !.unresolved = v] = report
      BY <3>2, <3>3
    <3>4. report' = report
      BY <3>1, <3>3, <3>5
    <3> QED
      BY <3>4, <2>1, <1>2
  <2>2. CASE ~u.ok
    <3>1. report' = [report EXCEPT !.class = dominant_exit_class(@, class),
                                   !.unresolved = @ \cup {entry_report_path(e)}]
      BY <2>2, <1>6
    <3>2. dominant_exit_class(report.class, class) \in {None, "usage", "operational"}
      BY DEF dominant_exit_class
    <3> QED
      BY <3>1, <3>2, <2>2, <1>2, <1>5 DEF ReportType
  <2> QED
    BY <2>1, <2>2
<1>7. CASE Apply(Recovered(e), "usage")
  <2>1. PICK n \in Nodes : /\ Recovered(e).disk = [disk EXCEPT ![e.path] = n] /\ UndoneAt(e, n)
                           /\ Recovered(e).temps \in [Owned -> Texts \cup {None, "dir"}]
                           /\ Recovered(e).ok \in BOOLEAN
                           /\ Recovered(e).ok => Restored(e, n)
    BY <1>3, <1>4, RecoveredShape
  <2>2. /\ report' \in ReportType /\ report'.ok = report.ok /\ report'.layout = report.layout
        /\ report.unresolved \subseteq report'.unresolved
        /\ ~Recovered(e).ok => entry_report_path(e) \in report'.unresolved
        /\ Recovered(e).ok => report' = report
    BY <1>6, <1>7, <2>1, Zenon
  <2> QED
    BY <1>1, <1>4, <1>7, <2>1, <2>2, Zenon
<1>8. ASSUME NEW u \in Interrupted(e), Apply(u, "operational")
      PROVE  /\ temps' \in [Owned -> Texts \cup {None, "dir"}]
             /\ report' \in ReportType /\ report'.ok = report.ok /\ report'.layout = report.layout
             /\ report.unresolved \subseteq report'.unresolved
             /\ entry_report_path(e) \in report'.unresolved
             /\ \E n \in Nodes :
                  /\ UndoneAt(e, n)
                  /\ \/ disk' = [disk EXCEPT ![e.path] = n]
                     \/ /\ e.path \in Owned
                        /\ disk' = [[disk EXCEPT ![e.path] = n] EXCEPT ![Parent[e.path]].rw = TRUE]
  <2>1. /\ u.temps \in [Owned -> Texts \cup {None, "dir"}] /\ u.ok = FALSE
        /\ \E n \in Nodes :
             /\ UndoneAt(e, n)
             /\ \/ u.disk = [disk EXCEPT ![e.path] = n]
                \/ /\ e.path \in Owned
                   /\ u.disk = [[disk EXCEPT ![e.path] = n] EXCEPT ![Parent[e.path]].rw = TRUE]
    BY <1>3, <1>4, InterruptedShape, ZenonT(30)
  <2>2. /\ report' \in ReportType /\ report'.ok = report.ok /\ report'.layout = report.layout
        /\ report.unresolved \subseteq report'.unresolved
        /\ entry_report_path(e) \in report'.unresolved
    <3>1. u.ok \in BOOLEAN /\ ~u.ok /\ "operational" \in {"usage", "operational"}
      BY <2>1
    <3> QED
      BY <3>1, <1>6, <1>8, Zenon
  <2> QED
    BY <1>8, <2>1, <2>2, Zenon
<1> QED
  BY <1>1, <1>4, <1>7, <1>8, Zenon

-----------------------------------------------------------------------------
(* What a plan holds. *)

(* The candidate, path by path. *)
LEMMA CandidateTable ==
    ASSUME NEW mode \in {"minimal", "full"}, NEW c, c = desired_candidate(mode)
    PROVE  /\ DOMAIN c = Owned
           /\ c[AgentsMd] = DesiredFile(resolve_agents_md)
           /\ \A p \in {AgentsDir, Memory} : c[p] = Dir(retained_mode(p), "apply")
           /\ c[Gitignore] = DesiredFile("ignore")
           /\ mode = "minimal" =>
                /\ c[Flat] = DesiredFile(case.page)
                /\ \A p \in {Pages, Schema, Index, Project, Extra} : c[p] = Missing
           /\ mode = "full" =>
                /\ c[Flat] = Missing
                /\ c[Pages] = Dir(retained_mode(Pages), "apply")
                /\ c[Schema] = DesiredFile("schema")
                /\ c[Index] = DesiredFile(CanonicalIndex(disk))
                /\ c[Project] = DesiredFile(case.page)
                /\ c[Extra] = disk[Extra]
<1> USE DEF desired_candidate, Owned, Dirs, Files, AgentsMd, AgentsDir, Memory, Gitignore, Index,
            Schema, Pages, Flat, Project, Extra
<1>1. DOMAIN c = Owned
  OBVIOUS
<1>2. c[AgentsMd] = DesiredFile(resolve_agents_md) /\ c[Gitignore] = DesiredFile("ignore")
  OBVIOUS
<1>3. /\ c[AgentsDir] = Dir(retained_mode(AgentsDir), "apply")
      /\ c[Memory] = Dir(retained_mode(Memory), "apply")
  OBVIOUS
<1>4. mode = "minimal" => /\ c[Flat] = DesiredFile(case.page)
                          /\ \A p \in {Pages, Schema, Index, Project, Extra} : c[p] = Missing
  OBVIOUS
<1>5. mode = "full" => /\ c[Flat] = Missing /\ c[Pages] = Dir(retained_mode(Pages), "apply")
                       /\ c[Schema] = DesiredFile("schema")
                       /\ c[Index] = DesiredFile(CanonicalIndex(disk))
                       /\ c[Project] = DesiredFile(case.page) /\ c[Extra] = disk[Extra]
  OBVIOUS
<1> QED
  BY <1>1, <1>2, <1>3, <1>4, <1>5

(* Every path of a repository is one of these. *)
LEMMA OwnedPaths ==
    \A p \in Owned : \/ p \in {AgentsMd, AgentsDir, Memory, Gitignore, Flat}
                     \/ p \in {Pages, Schema, Index, Project, Extra}
BY DEF Owned, Dirs, Files

(* What the fields of a made node are. *)
LEMMA Made ==
    /\ \A t, b : /\ File(t, b).kind = "file" /\ File(t, b).text = t /\ File(t, b).rw = TRUE
                 /\ File(t, b).by = b
    /\ \A r, b : /\ Dir(r, b).kind = "dir" /\ Dir(r, b).text = NoText /\ Dir(r, b).rw = r
                 /\ Dir(r, b).by = b
    /\ \A t : DesiredFile(t) = File(t, "apply")
<1>1. \A t, b : /\ File(t, b).kind = "file" /\ File(t, b).text = t /\ File(t, b).by = b
  BY DEF File, NodeOf
<1>2. \A t, b : File(t, b).rw = TRUE
  BY Zenon DEF File, NodeOf
<1>3. \A r, b : /\ Dir(r, b).kind = "dir" /\ Dir(r, b).text = NoText /\ Dir(r, b).by = b
  BY DEF Dir, NodeOf
<1>4. \A r, b : Dir(r, b).rw = r
  BY Zenon DEF Dir, NodeOf
<1>5. \A t : DesiredFile(t) = File(t, "apply")
  BY DEF DesiredFile
<1> QED
  BY <1>1, <1>2, <1>3, <1>4, <1>5

(* A candidate of its mode is a set of valid nodes; none of its texts is a *)
(* person's.                                                               *)
LEMMA OwnedCandidate ==
    ASSUME NEW c, NEW mode \in {"minimal", "full"}, validate_owned_candidate(c, mode)
    PROVE  /\ c[AgentsMd].kind = "file" /\ c[AgentsMd].text = "policy"
           /\ c[AgentsDir].kind = "dir" /\ c[Memory].kind = "dir"
           /\ c[Gitignore].kind = "file" /\ c[Gitignore].text = "ignore"
           /\ mode = "minimal" =>
                /\ ValidPage(c[Flat])
                /\ \A p \in {Pages, Schema, Index, Project, Extra} : c[p].kind = "missing"
           /\ mode = "full" =>
                /\ c[Flat].kind = "missing" /\ c[Pages].kind = "dir"
                /\ c[Schema].kind = "file" /\ c[Schema].text = "schema"
                /\ c[Index].kind = "file" /\ c[Index].text = CanonicalIndex(c)
                /\ ValidPage(c[Project])
                /\ c[Extra].kind # "missing" => ValidPage(c[Extra])
<1>1. inspect_policy(c[AgentsMd]).exact
  BY DEF validate_owned_candidate, validate_candidate
<1>2. c[AgentsMd].kind = "file" /\ c[AgentsMd].text = "policy"
  BY <1>1 DEF inspect_policy
<1>3. /\ c[Gitignore].kind = "file" /\ c[Gitignore].text = "ignore"
      /\ c[AgentsDir].kind = "dir" /\ c[Memory].kind = "dir"
  BY DEF validate_owned_candidate, validate_candidate
<1>4. ASSUME mode = "minimal"
      PROVE  /\ ValidPage(c[Flat])
             /\ \A p \in {Pages, Schema, Index, Project, Extra} : c[p].kind = "missing"
  <2>1. /\ ValidPage(c[Flat]) /\ ~Exists(c, Extra)
        /\ {p \in Owned \ {Extra} : Exists(c, p)} = {AgentsMd, AgentsDir, Memory, Gitignore, Flat}
    BY <1>4 DEF validate_owned_candidate, validate_candidate
  <2>2. \A p \in {Pages, Schema, Index, Project} :
          p \in Owned \ {Extra} /\ p \notin {AgentsMd, AgentsDir, Memory, Gitignore, Flat}
    BY DEF Owned, Dirs, Files, AgentsMd, AgentsDir, Memory, Gitignore, Index, Schema, Pages, Flat,
           Project, Extra
  <2> QED
    BY <2>1, <2>2 DEF Exists
<1>5. ASSUME mode = "full"
      PROVE  /\ c[Flat].kind = "missing" /\ c[Pages].kind = "dir"
             /\ c[Schema].kind = "file" /\ c[Schema].text = "schema"
             /\ c[Index].kind = "file" /\ c[Index].text = CanonicalIndex(c)
             /\ ValidPage(c[Project])
             /\ c[Extra].kind # "missing" => ValidPage(c[Extra])
  <2>1. ShapeComplete(c) /\ c[Index].text = CanonicalIndex(c)
    BY <1>5 DEF validate_owned_candidate, validate_candidate, validate_full_layout
  <2> QED
    BY <2>1 DEF ShapeComplete, Exists, PagesValid, PagePaths
<1> QED
  BY <1>2, <1>3, <1>4, <1>5

(* The candidate that a plan is made for consists of nodes. *)
LEMMA CandidateNodes ==
    ASSUME TypeOK, NEW mode \in {"minimal", "full"}, resolve_agents_md # None,
           NEW c, c = desired_candidate(mode)
    PROVE  c \in [Owned -> Nodes]
<1>1. /\ case \in Cases /\ disk \in [Paths -> Nodes]
      /\ case.agents \in Texts \cup {None} /\ case.page \in Texts
  BY CasesAssumption DEF TypeOK
<1>2. /\ "policy" \in Texts /\ "ignore" \in Texts /\ "schema" \in Texts /\ "apply" \in Makers
      /\ CanonicalIndex(disk) \in Texts
  BY DEF Texts, Makers, CanonicalIndex
<1>3. disk[AgentsMd] \in Nodes /\ disk[Extra] \in Nodes
  BY <1>1, PathSets
<1>4. disk[AgentsMd].text \in Texts
  BY <1>3, NodeShape
<1>5. resolve_agents_md \in Texts
  BY <1>1, <1>2, <1>4 DEF resolve_agents_md
<1>6. \A p \in Owned : retained_mode(p) \in BOOLEAN
  <2> SUFFICES ASSUME NEW p \in Owned PROVE retained_mode(p) \in BOOLEAN
    OBVIOUS
  <2>1. disk[p] \in Nodes
    BY <1>1, PathSets
  <2> QED
    BY <2>1, NodeShape DEF retained_mode
<1>7. \A t \in Texts : DesiredFile(t) \in Nodes
  BY <1>2, NodeFacts, Made
<1>8. \A p \in {AgentsDir, Memory, Pages} : Dir(retained_mode(p), "apply") \in Nodes
  BY <1>2, <1>6, NodeFacts, PathSets
<1>9. ASSUME NEW p \in Owned PROVE c[p] \in Nodes
  <2>1. /\ c[AgentsMd] \in Nodes /\ c[AgentsDir] \in Nodes /\ c[Memory] \in Nodes
        /\ c[Gitignore] \in Nodes
    BY <1>1, <1>2, <1>5, <1>7, <1>8, CandidateTable
  <2>2. CASE mode = "minimal"
    <3>1. /\ c[Flat] \in Nodes
          /\ \A q \in {Pages, Schema, Index, Project, Extra} : c[q] \in Nodes
      BY <2>2, <1>1, <1>7, CandidateTable, NodeFacts
    <3> QED
      BY <2>1, <3>1, OwnedPaths
  <2>3. CASE mode = "full"
    <3>1. /\ c[Flat] \in Nodes /\ c[Pages] \in Nodes /\ c[Schema] \in Nodes /\ c[Index] \in Nodes
          /\ c[Project] \in Nodes /\ c[Extra] \in Nodes
      BY <2>3, <1>1, <1>2, <1>3, <1>7, <1>8, CandidateTable, NodeFacts
    <3> QED
      BY <2>1, <3>1, OwnedPaths
  <2> QED
    BY <2>2, <2>3
<1>10. DOMAIN c = Owned /\ c = [p \in Owned |-> c[p]]
  BY DEF desired_candidate
<1> QED
  BY <1>9, <1>10

(* A repository without conflicts has the kinds a wiki wants. *)
LEMMA KindsOfAttainable ==
    ASSUME TypeOK, NEW mode \in Attainable(disk, stale)
    PROVE  /\ mode \in {"minimal", "full"}
           /\ \A p \in Owned : disk[p].kind \in {"missing", IF p \in Dirs THEN "dir" ELSE "file"}
           /\ Structured(disk) => mode = "full"
           /\ Conflicts(disk, stale) = {}
<1>1. Structured(disk) => mode = "full"
  BY DEF Attainable
<1>3. mode \in {"minimal", "full"}
  BY DEF Attainable
<1>4. Conflicts(disk, stale) = {}
  BY DEF Attainable
<1>5. validate_expected_kinds(disk) = {}
  BY <1>4, Zenon DEF Conflicts
<1> QED
  BY <1>1, <1>3, <1>4, <1>5 DEF validate_expected_kinds, Exists

(* Each path of an accepted plan has an operation that leads from what the *)
(* inspection saw to what the candidate wants.                             *)
LEMMA PlanTable ==
    ASSUME TypeOK, NEW mode \in Attainable(disk, stale), resolve_agents_md # None,
           NEW c, c = desired_candidate(mode), validate_owned_candidate(c, mode),
           NEW k, k = build_operations(c), verify_candidate(k, c),
           NEW p \in Owned, NEW a, a = Prestate(disk[p])
    PROVE  k[p] \in OperationKinds /\ PlanOf(p, a, c[p], k[p], mode)
<1>1. /\ mode \in {"minimal", "full"}
      /\ disk[p].kind \in {"missing", IF p \in Dirs THEN "dir" ELSE "file"}
      /\ Conflicts(disk, stale) = {}
  BY KindsOfAttainable
<1>2. c \in [Owned -> Nodes] /\ disk[p] \in Nodes
  BY <1>1, CandidateNodes, PathSets DEF TypeOK
<1>3. a \in Nodes /\ a.kind = disk[p].kind /\ SamePrestate(a, disk[p])
  BY <1>2, PrestateFacts, SameMeans
<1>T. /\ c[AgentsMd] = DesiredFile(resolve_agents_md)
      /\ \A q \in {AgentsDir, Memory} : c[q] = Dir(retained_mode(q), "apply")
      /\ c[Gitignore] = DesiredFile("ignore")
      /\ mode = "minimal" =>
           /\ c[Flat] = DesiredFile(case.page)
           /\ \A q \in {Pages, Schema, Index, Project, Extra} : c[q] = Missing
      /\ mode = "full" =>
           /\ c[Flat] = Missing
           /\ c[Pages] = Dir(retained_mode(Pages), "apply")
           /\ c[Schema] = DesiredFile("schema")
           /\ c[Index] = DesiredFile(CanonicalIndex(disk))
           /\ c[Project] = DesiredFile(case.page)
           /\ c[Extra] = disk[Extra]
  BY <1>1, CandidateTable
<1>M. Missing.kind = "missing"
  BY DEF Missing, NodeOf
<1> HIDE DEF OperationKinds
<1>4. k[p] = CASE c[p].kind = "dir" /\ ~Exists(disk, p) -> "create-directory"
               [] c[p].kind = "file" /\ ~Exists(disk, p) -> "create-file"
               [] c[p].kind = "file" /\ disk[p].kind = "file" /\ c[p].text # disk[p].text
                     -> "replace-file"
               [] p = Flat /\ c[p].kind = "missing" /\ Exists(disk, p) -> "remove-file"
               [] OTHER -> None
  BY DEF build_operations
<1>5. k[p] \in OperationKinds
  BY ONLY <1>4 DEF OperationKinds
<1>6. ASSUME k[p] = None PROVE SamePrestate(a, c[p])
  <2>1. apply_candidate_operations(k, c)[p] = disk[p]
    BY <1>6 DEF apply_candidate_operations, None
  <2>2. SamePrestate(apply_candidate_operations(k, c)[p], c[p])
    BY Zenon DEF verify_candidate
  <2>3. SamePrestate(disk[p], c[p])
    BY <2>1, <2>2, Zenon
  <2> QED
    BY <2>3, <1>2, PrestateFacts
<1>7. c[p].kind # "missing" /\ c[p].kind # "file" => p \in Dirs
  <2>1. CASE p \in Dirs
    BY <2>1
  <2>2. CASE p \in Files /\ p # Extra
    <3>1. p \in {AgentsMd, Gitignore, Flat, Schema, Index, Project}
      BY <2>2 DEF Files
    <3> QED
      BY <3>1, <1>1, <1>T, <1>M, Made
  <2>3. CASE p = Extra
    <3>1. p \notin Dirs
      BY <2>3, PathSets
    <3> QED
      BY <2>3, <3>1, <1>1, <1>T, <1>M
  <2> QED
    BY <2>1, <2>2, <2>3, PathSets
<1>8. p \in Files /\ p # Extra /\ c[p].kind = "file" => c[p] = DesiredFile(c[p].text)
  <2> SUFFICES ASSUME p \in Files, p # Extra, c[p].kind = "file" PROVE c[p] = DesiredFile(c[p].text)
    OBVIOUS
  <2>1. p \in {AgentsMd, Gitignore, Flat, Schema, Index, Project}
    BY DEF Files
  <2>2. \E t : c[p] = DesiredFile(t)
    BY <2>1, <1>1, <1>T, <1>M
  <2> QED
    BY <2>2, Made
<1>9. p \in Dirs => c[p].kind # "file" /\ (c[p].kind = "dir" => c[p] = Dir(retained_mode(p), "apply"))
  <2> SUFFICES ASSUME p \in Dirs
               PROVE c[p].kind # "file" /\ (c[p].kind = "dir" => c[p] = Dir(retained_mode(p), "apply"))
    OBVIOUS
  <2>1. p \in {AgentsDir, Memory, Pages}
    BY DEF Dirs
  <2> QED
    BY <2>1, <1>1, <1>T, <1>M, Made
<1>10. p = Extra => k[p] = None
  <2> SUFFICES ASSUME p = Extra PROVE k[p] = None
    OBVIOUS
  <2>1. p # Flat
    BY DEF Flat, Extra
  <2>2. c[p] = Missing \/ c[p] = disk[p]
    BY <1>1, <1>T
  <2>3. c[p].kind = "dir" => p \in Dirs
    BY <1>7
  <2>4. p \notin Dirs
    BY PathSets
  <2>5. CASE c[p] = Missing
    BY <1>4, <2>1, <2>5, <1>M DEF Exists
  <2>6. CASE c[p] = disk[p]
    BY <1>4, <2>1, <2>6, <1>2, <2>3, <2>4, NodeShape DEF Exists
  <2> QED
    BY <2>2, <2>5, <2>6
<1>11. c[p].text # "foreign"
  <2>1. CASE p \in {AgentsMd, AgentsDir, Memory, Gitignore}
    <3>1. c[p].text \in {"policy", "ignore"} \/ c[p].kind = "dir"
      BY <2>1, <1>1, <1>2, OwnedCandidate
    <3> QED
      BY <3>1, <1>2, NodeShape DEF NoText
  <2>2. CASE p \in {Flat, Pages, Schema, Index, Project, Extra}
    <3>1. c[p] \in Nodes
      BY <1>2
    <3>2. CASE c[p].kind \in {"missing", "dir"}
      BY <3>1, <3>2, NodeShape DEF NoText
    <3>3. CASE c[p].kind = "file"
      <4>1. ValidPage(c[p]) \/ c[p].text = "schema" \/ c[p].text = CanonicalIndex(c)
        BY <2>2, <3>3, <1>1, <1>2, OwnedCandidate
      <4> QED
        BY <4>1 DEF ValidPage, CanonicalIndex
    <3> QED
      BY <3>1, <3>2, <3>3, NodeShape
  <2> QED
    BY <2>1, <2>2, OwnedPaths
<1>12. k[p] = "create-directory" => p \in Dirs /\ a.kind = "missing" /\ c[p] = Dir(TRUE, "apply")
  <2> SUFFICES ASSUME k[p] = "create-directory"
               PROVE p \in Dirs /\ a.kind = "missing" /\ c[p] = Dir(TRUE, "apply")
    OBVIOUS
  <2>1. c[p].kind = "dir" /\ ~Exists(disk, p)
    BY <1>4 DEF None
  <2>2. p \in Dirs /\ retained_mode(p) = TRUE
    BY <2>1, <1>7 DEF retained_mode
  <2> QED
    BY <2>1, <2>2, <1>3, <1>9 DEF Exists
<1>13. k[p] = "create-file" => p \in Files /\ a.kind = "missing" /\ c[p] = DesiredFile(c[p].text)
  <2> SUFFICES ASSUME k[p] = "create-file"
               PROVE p \in Files /\ a.kind = "missing" /\ c[p] = DesiredFile(c[p].text)
    OBVIOUS
  <2>1. c[p].kind = "file" /\ ~Exists(disk, p)
    BY <1>4 DEF None
  <2>2. p \in Files /\ p # Extra
    BY <2>1, <1>9, <1>10, PathSets DEF None
  <2> QED
    BY <2>1, <2>2, <1>3, <1>8 DEF Exists
<1>14. k[p] = "replace-file" => p \in Files /\ a.kind = "file" /\ c[p] = DesiredFile(c[p].text)
  <2> SUFFICES ASSUME k[p] = "replace-file"
               PROVE p \in Files /\ a.kind = "file" /\ c[p] = DesiredFile(c[p].text)
    OBVIOUS
  <2>1. c[p].kind = "file" /\ disk[p].kind = "file"
    BY <1>4 DEF None
  <2>2. p \in Files /\ p # Extra
    BY <2>1, <1>9, <1>10, PathSets DEF None
  <2> QED
    BY <2>1, <2>2, <1>3, <1>8
<1>15. k[p] = "remove-file" => p = Flat /\ a.kind = "file" /\ c[p] = Missing /\ mode = "full"
  <2> SUFFICES ASSUME k[p] = "remove-file"
               PROVE p = Flat /\ a.kind = "file" /\ c[p] = Missing /\ mode = "full"
    OBVIOUS
  <2>1. p = Flat /\ c[p].kind = "missing" /\ Exists(disk, p)
    BY <1>4 DEF None
  <2>2. p \notin Dirs
    BY <2>1, PathSets
  <2>3. c[p] = Missing
    BY <2>1, <1>2, NodeShape
  <2>4. mode # "minimal"
    BY <2>1, <1>1, <1>T, Made
  <2> QED
    BY <2>1, <2>2, <2>3, <2>4, <1>1, <1>3 DEF Exists
<1> QED
  BY <1>1, <1>3, <1>5, <1>6, <1>10, <1>11, <1>12, <1>13, <1>14, <1>15 DEF PlanOf

(* The plan is made for what was inspected, or is refused. *)
LEMMA PlanStep ==
    ASSUME TypeOK, Plan
    PROVE  \/ /\ pc' = "stage1" /\ UNCHANGED <<report, locked, faults>> /\ Snapshot = approved
              /\ manifest' \in [mode : {"minimal", "full"}, kinds : [Owned -> OperationKinds],
                                candidate : [Owned -> Nodes]]
              /\ Planned'
              /\ \A p \in Files : disk[p].kind # "dir"
           \/ \E c \in {"usage", "operational"} : Refuse(c, None) /\ UNCHANGED manifest
<1> DEFINE c == desired_candidate(Mode)
           k == build_operations(c)
           acceptable == /\ Snapshot = approved
                         /\ approved.dirty = {}
                         /\ Mode \in Attainable(disk, stale)
                         /\ resolve_agents_md # None
                         /\ canonicalize_full_index(Mode)
                         /\ validate_owned_candidate(c, Mode)
                         /\ verify_candidate(k, c)
<1>1. /\ \/ /\ acceptable /\ NoFault /\ pc' = "stage1"
            /\ manifest' = [mode |-> Mode, kinds |-> k, candidate |-> c]
            /\ UNCHANGED <<report, locked>>
         \/ \E class \in {"usage", "operational"} : Refuse(class, None) /\ UNCHANGED manifest
      /\ UNCHANGED approved
  BY Zenon DEF Plan
<1>2. ASSUME acceptable, NoFault, pc' = "stage1", UNCHANGED <<report, locked>>,
             manifest' = [mode |-> Mode, kinds |-> k, candidate |-> c]
      PROVE  /\ manifest' \in [mode : {"minimal", "full"}, kinds : [Owned -> OperationKinds],
                                candidate : [Owned -> Nodes]]
             /\ Planned'
             /\ \A p \in Files : disk[p].kind # "dir"
  <2>1. /\ Mode \in {"minimal", "full"}
        /\ \A p \in Owned : disk[p].kind \in {"missing", IF p \in Dirs THEN "dir" ELSE "file"}
        /\ Structured(disk) => Mode = "full"
    BY <1>2, KindsOfAttainable
  <2>2. c \in [Owned -> Nodes]
    BY <1>2, <2>1, CandidateNodes
  <2>3. /\ disk \in [Paths -> Nodes]
        /\ approved.nodes = [p \in Paths |-> Prestate(disk[p])]
    <3>1. Snapshot.nodes = [p \in Paths |-> Prestate(disk[p])]
      BY DEF Snapshot
    <3> QED
      BY <1>2, <3>1 DEF TypeOK
  <2>4. approved.nodes \in [Paths -> SeenNodes]
    <3>1. \A p \in Paths : Prestate(disk[p]) \in SeenNodes
      BY <2>3, PrestateFacts
    <3> QED
      BY <2>3, <3>1
  <2>5. ASSUME NEW p \in Owned
        PROVE  k[p] \in OperationKinds /\ PlanOf(p, approved.nodes[p], c[p], k[p], Mode)
    <3>1. approved.nodes[p] = Prestate(disk[p])
      BY <2>3, PathSets
    <3>2. /\ TypeOK /\ Mode \in Attainable(disk, stale) /\ resolve_agents_md # None
          /\ c = desired_candidate(Mode) /\ validate_owned_candidate(c, Mode)
          /\ k = build_operations(c) /\ verify_candidate(k, c)
      BY <1>2, Zenon
    <3> HIDE DEF c, k
    <3> QED
      BY ONLY <3>1, <3>2, PlanTable, p \in Owned
  <2>6. k = [p \in Owned |-> k[p]]
    BY DEF build_operations
  <2>7. k \in [Owned -> OperationKinds]
    BY <2>5, <2>6
  <2>8. \A p \in Owned : disk[p].kind = approved.nodes[p].kind
    BY <2>3, PrestateFacts, PathSets
  <2>9. (\E p \in Forbidden : approved.nodes[p].kind # "missing") => Mode = "full"
    <3>1. Forbidden \subseteq Owned
      BY PathSets DEF Forbidden
    <3> QED
      BY <2>1, <2>8, <3>1 DEF Forbidden, Structured, Exists
  <2> HIDE DEF c, k
  <2>10. manifest'.mode = Mode /\ manifest'.kinds = k /\ manifest'.candidate = c
    BY <1>2
  <2>11. approved' = approved
    BY <1>1
  <2>12. \A p \in Owned : PlannedPath(p)'
    BY <2>5, <2>10, <2>11, Zenon DEF PlannedPath
  <2>13. Planned'
    BY <2>4, <2>9, <2>10, <2>11, <2>12, <1>2 DEF Planned
  <2>14. \A p \in Files : disk[p].kind # "dir"
    BY <2>1, PathSets
  <2> QED
    BY <1>2, <2>1, <2>2, <2>7, <2>13, <2>14
<1> QED
  BY <1>1, <1>2, Zenon DEF NoFault

-----------------------------------------------------------------------------
(* Each action as what it changes: it goes on, or it slips - a call fails, *)
(* or what excuses the failure holds - or it refuses.                      *)

Goes(next) == pc' = next /\ report' = report /\ faults' = faults

Excused(excuse) == \/ faults' = faults /\ excuse
                   \/ faults' = faults + 1

Slips(next, excuse) ==
    /\ pc' = next /\ Excused(excuse)
    /\ report' \in ReportType /\ report'.ok = report.ok /\ report'.layout = report.layout
    /\ report'.unresolved = report.unresolved /\ report'.class \in {"usage", "operational"}

Refuses(layout, excuse) ==
    /\ pc' = "done" /\ Excused(excuse) /\ locked' = FALSE
    /\ report' \in ReportType /\ report'.ok = FALSE /\ report'.layout = layout
    /\ report'.unresolved = {} /\ report'.class \in {"usage", "operational"}

(* The candidate directory could not be removed. *)
Leaves ==
    /\ pc' = "done" /\ Excused(FALSE) /\ locked' = locked /\ staging' = "residue"
    /\ report' \in ReportType /\ report'.ok = FALSE /\ report'.layout = None
    /\ report'.unresolved = {TempOf(Root)} /\ report'.class \in {"usage", "operational"}

Layouts == {None, "absent", "minimal", "full", "partial"}

(* A failure inside the apply is a slip.                                   *)
LEMMA Slipping ==
    ASSUME report \in ReportType
    PROVE  \A c \in {"usage", "operational"}, n \in Phases :
             \A e : FailAs(c, n) /\ (Fault \/ (NoFault /\ e)) => Slips(n, e)
<1> SUFFICES ASSUME NEW c \in {"usage", "operational"}, NEW n \in Phases, FailAs(c, n)
             PROVE  \A e : Fault \/ (NoFault /\ e) => Slips(n, e)
  OBVIOUS
<1>1. /\ report' \in ReportType /\ pc' = n
      /\ report'.ok = report.ok /\ report'.layout = report.layout
      /\ report'.unresolved = report.unresolved
      /\ report'.class \in {"usage", "operational"}
  BY ReportTypes
<1> QED
  BY <1>1, Zenon DEF Slips, Excused, Fault, NoFault

(* A refusal before the first change is a refusal in these terms.          *)
LEMMA Refusing ==
    ASSUME report \in ReportType
    PROVE  \A c \in {"usage", "operational"}, l \in Layouts :
             \A e : Refuse(c, l) /\ (Fault \/ (NoFault /\ e)) => Refuses(l, e)
<1> SUFFICES ASSUME NEW c \in {"usage", "operational"}, NEW l \in Layouts, Refuse(c, l)
             PROVE  \A e : Fault \/ (NoFault /\ e) => Refuses(l, e)
  OBVIOUS
<1>1. /\ report' \in ReportType /\ pc' = "done" /\ locked' = FALSE /\ report'.ok = FALSE
      /\ report'.unresolved = {} /\ report'.class \in {"usage", "operational"}
      /\ report'.layout = l
  BY DEF Refuse, NoReport, ReportType, Layouts
<1> QED
  BY <1>1, Zenon DEF Refuses, Excused, Fault, NoFault

(* An inspection starts afresh or fails.                                   *)
LEMMA InspectShape ==
    ASSUME TypeOK, Inspect
    PROVE  /\ pc = "idle"
           /\ UNCHANGED <<disk, head, temps, stale, staging, case, manifest, todo, journal, madeLock,
                          lockSeen>>
           /\ \/ /\ Goes("inspected") /\ approved' = Snapshot /\ touched' = {} /\ locked' = locked
              \/ Refuses(None, FALSE) /\ UNCHANGED <<approved, touched>>
<1>1. report \in ReportType /\ None \in Layouts
  BY DEF TypeOK, Layouts
<1>2. Refuse("operational", None) /\ Fault => Refuses(None, FALSE)
  BY <1>1, Refusing
<1> QED
  BY <1>2 DEF Inspect, repo, Goes, NoFault

(* A plan holds together, or there is none.                                *)
LEMMA PlanShape ==
    ASSUME TypeOK, Plan
    PROVE  /\ pc = "inspected"
           /\ UNCHANGED <<disk, head, temps, stale, staging, case, approved, todo, journal, madeLock,
                          lockSeen, touched>>
           /\ \/ /\ Goes("stage1") /\ locked' = locked /\ Snapshot = approved
                 /\ manifest' \in [mode : {"minimal", "full"}, kinds : [Owned -> OperationKinds],
                                   candidate : [Owned -> Nodes]]
                 /\ Planned'
                 /\ \A p \in Files : disk[p].kind # "dir"
              \/ Refuses(None, TRUE) /\ UNCHANGED manifest
<1>1. report \in ReportType /\ None \in Layouts
  BY DEF TypeOK, Layouts
<1>2. /\ Refuse("operational", None) /\ Fault => Refuses(None, TRUE)
      /\ Refuse("usage", None) /\ NoFault => Refuses(None, TRUE)
  BY <1>1, Refusing
<1>3. /\ pc = "inspected"
      /\ \/ pc' = "stage1"
         \/ NoFault /\ Refuse("usage", None) /\ UNCHANGED manifest
         \/ Fault /\ Refuse("operational", None) /\ UNCHANGED manifest
      /\ UNCHANGED <<disk, head, temps, stale, staging, case, approved, todo, journal, madeLock,
                     lockSeen, touched>>
  BY Zenon DEF Plan, repo
<1>4. CASE pc' = "stage1"
  <2>1. ~Refuse("usage", None) /\ ~Refuse("operational", None)
    BY <1>4 DEF Refuse
  <2> QED
    BY <2>1, <1>3, PlanStep DEF Goes
<1> QED
  BY <1>2, <1>3, <1>4

(* The candidate is staged, or the plan fails, perhaps with a residue.     *)
LEMMA CandidateDirShape ==
    ASSUME TypeOK, CreateCandidateDir \/ CloseCandidateDir
    PROVE  /\ UNCHANGED <<disk, head, temps, stale, case, approved, manifest, todo, journal,
                          madeLock, lockSeen, touched>>
           /\ pc \in {"stage1", "staged1", "stage2", "staged2"}
           /\ \/ /\ report' = report /\ faults' = faults /\ locked' = locked
                 /\ \/ pc' \in {"staged1", "staged2"}
                    \/ pc' \in {"stage2", "planned"} /\ staging' = "none"
              \/ /\ Refuses(None, FALSE)
                 /\ \/ pc \in {"stage1", "stage2"} /\ staging' = staging
                    \/ staging' = "none"
              \/ Leaves
<1>1. report \in ReportType /\ None \in Layouts
  BY DEF TypeOK, Layouts
<1>2. Refuse("operational", None) /\ Fault => Refuses(None, FALSE)
  BY <1>1, Refusing
<1>3. TempOf(Root) \in [path : Paths, temp : BOOLEAN]
  BY PathSets DEF TempOf
<1>4. \A c \in {"usage", "operational"} :
        /\ [NoReport EXCEPT !.class = c, !.unresolved = {TempOf(Root)}] \in ReportType
        /\ [NoReport EXCEPT !.class = c, !.unresolved = {TempOf(Root)}].ok = FALSE
        /\ [NoReport EXCEPT !.class = c, !.unresolved = {TempOf(Root)}].layout = None
        /\ [NoReport EXCEPT !.class = c, !.unresolved = {TempOf(Root)}].class = c
        /\ [NoReport EXCEPT !.class = c, !.unresolved = {TempOf(Root)}].unresolved = {TempOf(Root)}
  BY <1>3 DEF NoReport, ReportType
<1>5. \A c \in {"usage", "operational"} :
        /\ Fault /\ staging' = "residue" /\ pc' = "done" /\ UNCHANGED locked
        /\ report' = [NoReport EXCEPT !.class = c, !.unresolved = {TempOf(Root)}]
        => Leaves
  BY <1>4 DEF Leaves, Excused, Fault
<1>6. CASE CreateCandidateDir
  <2>1. /\ UNCHANGED <<disk, head, temps, stale, case, approved, manifest, todo, journal,
                       madeLock, lockSeen, touched>>
        /\ pc \in {"stage1", "stage2"}
        /\ \/ NoFault /\ pc' \in {"staged1", "staged2"} /\ UNCHANGED <<report, locked>>
           \/ Fault /\ UNCHANGED staging /\ Refuse("operational", None)
           \/ /\ Fault /\ staging' = "residue" /\ pc' = "done" /\ UNCHANGED locked
              /\ report' = [NoReport EXCEPT !.class = "usage", !.unresolved = {TempOf(Root)}]
    BY <1>6 DEF CreateCandidateDir, repo
  <2> QED
    BY <2>1, <1>2, <1>5 DEF NoFault
<1>7. CASE CloseCandidateDir
  <2>1. /\ UNCHANGED <<disk, head, temps, stale, case, approved, manifest, todo, journal,
                       madeLock, lockSeen, touched>>
        /\ pc \in {"staged1", "staged2"}
        /\ \/ NoFault /\ pc' \in {"stage2", "planned"} /\ staging' = "none"
              /\ UNCHANGED <<report, locked>>
           \/ Fault /\ staging' = "none" /\ Refuse("operational", None)
           \/ /\ Fault /\ staging' = "residue" /\ pc' = "done" /\ UNCHANGED locked
              /\ report' = [NoReport EXCEPT !.class = "operational", !.unresolved = {TempOf(Root)}]
    BY <1>7 DEF CloseCandidateDir, repo
  <2> QED
    BY <2>1, <1>2, <1>5 DEF NoFault
<1> QED
  BY <1>6, <1>7

(* What a layout may be called.                                            *)
LEMMA LayoutType == \A d, o : LayoutOf(d, o) \in Layouts
BY DEF LayoutOf, Layouts

(* An apply starts from the repository that was planned for.               *)
LEMMA ApplyStartShape ==
    ASSUME TypeOK, ApplyStart
    PROVE  /\ pc = "planned"
           /\ UNCHANGED <<disk, head, temps, stale, staging, case, approved, manifest, todo, journal,
                          madeLock, lockSeen, touched>>
           /\ \/ Goes("lock") /\ locked' = locked
              \/ Refuses(LayoutOf(disk, stale), Snapshot # approved \/ ~validate_manifest(manifest))
              \/ Refuses("partial", FALSE)
<1> DEFINE excuse == Snapshot # approved \/ ~validate_manifest(manifest)
<1>1. report \in ReportType /\ LayoutOf(disk, stale) \in Layouts /\ "partial" \in Layouts
  BY LayoutType DEF TypeOK, Layouts
<1>2. Refuse("usage", LayoutOf(disk, stale)) /\ NoFault /\ excuse
        => Refuses(LayoutOf(disk, stale), excuse)
  BY <1>1, Refusing, Zenon
<1>3. Refuse("operational", "partial") /\ Fault => Refuses("partial", FALSE)
  BY <1>1, Refusing
<1>4. /\ pc = "planned"
      /\ UNCHANGED <<disk, head, temps, stale, staging, case, approved, manifest, todo, journal,
                     madeLock, lockSeen, touched>>
      /\ \/ NoFault /\ pc' = "lock" /\ UNCHANGED <<report, locked>>
         \/ NoFault /\ excuse /\ Refuse("usage", LayoutOf(disk, stale))
         \/ Fault /\ Refuse("operational", "partial")
  BY Zenon DEF ApplyStart, repo
<1> HIDE DEF excuse
<1>5. \/ Goes("lock") /\ locked' = locked
      \/ Refuses(LayoutOf(disk, stale), excuse)
      \/ Refuses("partial", FALSE)
  BY <1>2, <1>3, <1>4, Zenon DEF Goes, NoFault
<1> QED
  BY <1>4, <1>5, Zenon DEF excuse

(* Nothing to lock where a wiki is or should be.                           *)
Unlockable == Blocked(disk) \/ (disk[Memory].kind = "dir" /\ ~Lockable(disk))

(* The lock is taken where there is a wiki, possibly before a failure.     *)
LEMMA AcquireExistingLockShape ==
    ASSUME TypeOK, AcquireExistingLock
    PROVE  /\ pc = "lock"
           /\ UNCHANGED <<head, temps, stale, staging, case, approved, manifest, todo, journal,
                          madeLock, lockSeen, touched>>
           /\ \/ ~Exists(disk, Memory) /\ Goes("check") /\ UNCHANGED <<disk, locked>>
              \/ Refuses("partial", Unlockable) /\ disk' = disk /\ report'.class = "operational"
              \/ /\ disk[Memory].kind = "dir" /\ Lockable(disk) /\ disk' = WithLockFile(disk)
                 /\ \/ Goes("check") /\ locked' = TRUE
                    \/ Refuses("partial", FALSE)
<1>1. report \in ReportType /\ "partial" \in Layouts
  BY DEF TypeOK, Layouts
<1>2. Refuse("operational", "partial") /\ Fault => Refuses("partial", FALSE)
  BY <1>1, Refusing
<1>3. Refuse("operational", "partial") /\ (Fault \/ (NoFault /\ Unlockable))
         => Refuses("partial", Unlockable) /\ report'.class = "operational"
  <2>1. Refuse("operational", "partial") => report'.class = "operational"
    BY DEF Refuse, NoReport
  <2> QED
    BY <1>1, <2>1, Refusing
<1>4. /\ pc = "lock"
      /\ \/ ~Exists(disk, Memory) /\ NoFault /\ pc' = "check" /\ UNCHANGED <<disk, locked, report>>
         \/ /\ disk[Memory].kind = "dir" /\ Lockable(disk) /\ NoFault /\ pc' = "check"
            /\ disk' = WithLockFile(disk) /\ locked' = TRUE /\ UNCHANGED report
         \/ Unlockable /\ NoFault /\ Refuse("operational", "partial") /\ UNCHANGED disk
         \/ Fault /\ Refuse("operational", "partial") /\ UNCHANGED disk
         \/ /\ disk[Memory].kind = "dir" /\ Lockable(disk) /\ Fault
            /\ Refuse("operational", "partial") /\ disk' = WithLockFile(disk)
      /\ UNCHANGED <<head, temps, stale, staging, case, approved, manifest, todo, journal,
                     madeLock, lockSeen, touched>>
  BY Zenon DEF AcquireExistingLock, Unlockable
<1> QED
  BY <1>2, <1>3, <1>4, Zenon DEF Goes, NoFault

(* The operations start when every path of theirs is as approved.          *)
LEMMA CheckPrestatesShape ==
    ASSUME TypeOK, CheckPrestates
    PROVE  /\ pc = "check"
           /\ UNCHANGED <<disk, head, temps, stale, staging, case, approved, manifest, journal,
                          madeLock, touched>>
           /\ \/ /\ \A p \in Owned : manifest.kinds[p] # None => AsApproved(p)
                 /\ Goes("next") /\ lockSeen' = disk[Lock] /\ locked' = locked
                 /\ todo' = {p \in Owned : manifest.kinds[p] # None}
              \/ /\ \E layout \in {"partial", initial_layout} :
                       Refuses(layout, \/ \E p \in Owned : manifest.kinds[p] # None /\ ~AsApproved(p)
                                       \/ ~reconstruct_candidate)
                 /\ UNCHANGED <<lockSeen, todo>>
<1> DEFINE drifted == \E p \in Owned : manifest.kinds[p] # None /\ ~AsApproved(p)
           excuse == drifted \/ ~reconstruct_candidate
<1>1. report \in ReportType /\ "partial" \in Layouts /\ initial_layout \in Layouts
  BY LayoutType DEF TypeOK, Layouts, initial_layout
<1>2. \A c \in {"usage", "operational"}, l \in {"partial", initial_layout} :
         Refuse(c, l) /\ (Fault \/ (NoFault /\ excuse)) => Refuses(l, excuse)
  BY <1>1, Refusing, Zenon
<1>3. /\ pc = "check"
      /\ \/ /\ ~excuse /\ NoFault /\ pc' = "next"
            /\ lockSeen' = disk[Lock] /\ todo' = {p \in Owned : manifest.kinds[p] # None}
            /\ UNCHANGED <<report, locked>>
         \/ excuse /\ NoFault /\ Refuse("usage", "partial") /\ UNCHANGED <<lockSeen, todo>>
         \/ excuse /\ NoFault /\ Refuse("usage", initial_layout) /\ UNCHANGED <<lockSeen, todo>>
         \/ Fault /\ Refuse("operational", "partial") /\ UNCHANGED <<lockSeen, todo>>
         \/ Fault /\ Refuse("operational", initial_layout) /\ UNCHANGED <<lockSeen, todo>>
      /\ UNCHANGED <<disk, head, temps, stale, staging, case, approved, manifest, journal,
                     madeLock, touched>>
  BY Zenon DEF CheckPrestates, repo
<1>4. ~excuse => \A p \in Owned : manifest.kinds[p] # None => AsApproved(p)
  BY Zenon
<1> HIDE DEF excuse
<1>5. \/ /\ \A p \in Owned : manifest.kinds[p] # None => AsApproved(p)
         /\ Goes("next") /\ lockSeen' = disk[Lock] /\ locked' = locked
         /\ todo' = {p \in Owned : manifest.kinds[p] # None}
      \/ /\ \E layout \in {"partial", initial_layout} : Refuses(layout, excuse)
         /\ UNCHANGED <<lockSeen, todo>>
  BY <1>2, <1>3, <1>4, Zenon DEF Goes, NoFault
<1> QED
  BY <1>3, <1>5, Zenon DEF excuse

(* Within an operation the plan and what is next stay what they are. *)
LEMMA Steady ==
    ASSUME OperationFrame
    PROVE  /\ UNCHANGED <<head, stale, staging, case, approved, manifest, todo, locked, madeLock,
                          lockSeen, touched>>
           /\ Target' = Target /\ Kind' = Kind /\ Wanted' = Wanted
BY DEF OperationFrame, Target, Kind, Wanted

(* The parent of an operation is there and becomes writable.               *)
LEMMA BeginOperationShape ==
    ASSUME TypeOK, BeginOperation, NEW parent, parent = Parent[Target]
    PROVE  /\ pc = "next" /\ todo # {} /\ OperationFrame /\ temps' = temps
           /\ \/ /\ AsApproved(Target) /\ disk[parent].kind = "dir" /\ Goes("operation")
                 /\ \/ disk[parent].rw /\ disk' = disk /\ journal' = journal
                    \/ /\ ~disk[parent].rw
                       /\ disk' = [disk EXCEPT ![parent].rw = TRUE]
                       /\ journal' = Append(journal, Widened(parent))
              \/ /\ Slips("failed", ~(AsApproved(Target) /\ disk[parent].kind = "dir"))
                 /\ disk' = disk
                 /\ \/ journal' = journal
                    \/ ~disk[parent].rw /\ journal' = Append(journal, Widened(parent))
<1> DEFINE e == ~(AsApproved(Target) /\ disk[parent].kind = "dir")
<1>1. report \in ReportType /\ "failed" \in Phases
  BY DEF TypeOK, Phases, ApplyPhases
<1>2. \A c \in {"usage", "operational"} :
         FailAs(c, "failed") /\ (Fault \/ (NoFault /\ e)) => Slips("failed", e)
  BY <1>1, Slipping, Zenon
<1>3. /\ pc = "next" /\ todo # {} /\ OperationFrame /\ temps' = temps
      /\ \/ /\ ~e /\ disk[parent].rw /\ NoFault /\ Proceed("operation")
            /\ disk' = disk /\ journal' = journal
         \/ /\ ~e /\ ~disk[parent].rw /\ NoFault /\ Proceed("operation")
            /\ disk' = [disk EXCEPT ![parent].rw = TRUE]
            /\ journal' = Append(journal, Widened(parent))
         \/ e /\ NoFault /\ FailAs("usage", "failed") /\ disk' = disk /\ journal' = journal
         \/ Fault /\ FailAs("operational", "failed") /\ disk' = disk /\ journal' = journal
         \/ /\ ~disk[parent].rw /\ Fault /\ FailAs("operational", "failed")
            /\ journal' = Append(journal, Widened(parent)) /\ disk' = disk
  BY DEF BeginOperation
<1> HIDE DEF e
<1>4. \/ /\ ~e /\ Goes("operation")
         /\ \/ disk[parent].rw /\ disk' = disk /\ journal' = journal
            \/ /\ ~disk[parent].rw
               /\ disk' = [disk EXCEPT ![parent].rw = TRUE]
               /\ journal' = Append(journal, Widened(parent))
      \/ /\ Slips("failed", e) /\ disk' = disk
         /\ \/ journal' = journal
            \/ ~disk[parent].rw /\ journal' = Append(journal, Widened(parent))
  BY <1>2, <1>3, Zenon DEF Goes, NoFault, Proceed
<1> QED
  BY <1>3, <1>4, Zenon DEF e

(* A directory is made beside its place,                                   *)
LEMMA MakeDirectoryShape ==
    ASSUME TypeOK, MakeDirectory
    PROVE  /\ pc = "operation" /\ Kind = "create-directory" /\ OperationFrame /\ disk' = disk
           /\ \/ /\ Goes("dir-made") /\ temps' = [temps EXCEPT ![Target] = "dir"]
                 /\ journal' = Append(journal, Entry("dir", "unknown", Missing))
              \/ Slips("restoring", FALSE) /\ temps' = temps /\ journal' = journal
<1>1. report \in ReportType /\ "restoring" \in Phases
  BY DEF TypeOK, Phases, ApplyPhases, OpPhases
<1>2. FailAs("operational", "restoring") /\ Fault => Slips("restoring", FALSE)
  BY <1>1, Slipping
<1> QED
  BY <1>2 DEF MakeDirectory, OnTarget, Goes, NoFault, Proceed

(* ... becomes known to the journal                                        *)
LEMMA IdentifyDirectoryShape ==
    ASSUME TypeOK, IdentifyDirectory
    PROVE  /\ pc = "dir-made" /\ OperationFrame /\ disk' = disk /\ temps' = temps
           /\ \/ Goes("dir-named") /\ journal' = LastState("temporary")
              \/ /\ Slips("restoring", FALSE)
                 /\ journal' = journal \/ journal' = LastState("temporary")
<1>1. report \in ReportType /\ "restoring" \in Phases
  BY DEF TypeOK, Phases, ApplyPhases, OpPhases
<1>2. FailAs("operational", "restoring") /\ Fault => Slips("restoring", FALSE)
  BY <1>1, Slipping
<1> QED
  BY <1>2 DEF IdentifyDirectory, Goes, NoFault, Proceed

(* ... and is moved where nothing is.                                      *)
LEMMA InstallDirectoryShape ==
    ASSUME TypeOK, InstallDirectory
    PROVE  /\ pc = "dir-named" /\ OperationFrame
           /\ \/ /\ ~Exists(disk, Target) /\ Goes("dir-installed")
                 /\ disk' = [disk EXCEPT ![Target] = Wanted]
                 /\ temps' = [temps EXCEPT ![Target] = None]
                 /\ journal' = LastState("installed")
              \/ /\ Slips("restoring", Exists(disk, Target))
                 /\ disk' = disk /\ temps' = temps /\ journal' = journal
<1> DEFINE e == Exists(disk, Target)
<1>1. report \in ReportType /\ "restoring" \in Phases
  BY DEF TypeOK, Phases, ApplyPhases, OpPhases
<1>2. \A c \in {"usage", "operational"} :
         FailAs(c, "restoring") /\ (Fault \/ (NoFault /\ e)) => Slips("restoring", e)
  BY <1>1, Slipping, Zenon
<1> QED
  BY <1>2 DEF InstallDirectory, Goes, NoFault, Proceed

(* A file is created where nothing is                                      *)
LEMMA OpenFileShape ==
    ASSUME TypeOK, OpenFile
    PROVE  /\ pc = "operation" /\ Kind = "create-file" /\ OperationFrame /\ temps' = temps
           /\ \/ /\ ~Exists(disk, Target) /\ disk' = [disk EXCEPT ![Target] = File(NoText, "apply")]
                 /\ \/ /\ Goes("file-opened")
                       /\ journal' = Append(journal, Entry("file", "identified", Missing))
                    \/ /\ Slips("restoring", FALSE)
                       /\ journal' = Append(journal, Entry("file", "unidentified", Missing))
              \/ /\ Slips("restoring", Exists(disk, Target))
                 /\ disk' = disk /\ journal' = journal
<1> DEFINE e == Exists(disk, Target)
<1>1. report \in ReportType /\ "restoring" \in Phases
  BY DEF TypeOK, Phases, ApplyPhases, OpPhases
<1>2. /\ \A c \in {"usage", "operational"} :
           FailAs(c, "restoring") /\ (Fault \/ (NoFault /\ e)) => Slips("restoring", e)
      /\ FailAs("operational", "restoring") /\ Fault => Slips("restoring", FALSE)
  BY <1>1, Slipping, Zenon
<1> QED
  BY <1>2 DEF OpenFile, OnTarget, Goes, NoFault, Proceed

(* ... and written while it is the one that was created.                   *)
LEMMA FillFileShape ==
    ASSUME TypeOK, FillFile
    PROVE  /\ pc = "file-opened" /\ OperationFrame /\ temps' = temps /\ journal' = journal
           /\ \/ /\ Ours(Target) /\ Goes("file-filled") /\ disk' = [disk EXCEPT ![Target] = Wanted]
              \/ /\ Slips("restoring", ~Ours(Target))
                 /\ \/ disk' = disk
                    \/ Ours(Target) /\ disk' = [disk EXCEPT ![Target] = File("torn", "apply")]
<1> DEFINE e == ~Ours(Target)
<1>1. report \in ReportType /\ "restoring" \in Phases
  BY DEF TypeOK, Phases, ApplyPhases, OpPhases
<1>2. /\ \A c \in {"usage", "operational"} :
           FailAs(c, "restoring") /\ (Fault \/ (NoFault /\ e)) => Slips("restoring", e)
  BY <1>1, Slipping, Zenon
<1>3. /\ pc = "file-opened" /\ OperationFrame /\ temps' = temps /\ journal' = journal
      /\ \/ /\ ~e /\ NoFault /\ Proceed("file-filled")
            /\ disk' = [disk EXCEPT ![Target] = Wanted]
         \/ e /\ NoFault /\ FailAs("usage", "restoring") /\ disk' = disk
         \/ /\ ~e /\ Fault /\ FailAs("operational", "restoring")
            /\ disk' \in {disk, [disk EXCEPT ![Target] = File("torn", "apply")]}
  BY DEF FillFile
<1> HIDE DEF e
<1>4. \/ ~e /\ Goes("file-filled") /\ disk' = [disk EXCEPT ![Target] = Wanted]
      \/ /\ Slips("restoring", e)
         /\ \/ disk' = disk
            \/ ~e /\ disk' = [disk EXCEPT ![Target] = File("torn", "apply")]
  BY <1>2, <1>3, Zenon DEF Goes, NoFault, Proceed
<1> QED
  BY <1>3, <1>4, Zenon DEF e

(* A replacement is opened beside the file,                                *)
LEMMA OpenTemporaryShape ==
    ASSUME TypeOK, OpenTemporary
    PROVE  /\ pc = "operation" /\ Kind = "replace-file" /\ OperationFrame /\ disk' = disk
           /\ \/ /\ temps' = [temps EXCEPT ![Target] = NoText]
                 /\ \/ /\ Goes("temp-opened")
                       /\ journal' = Append(journal, Entry("replaced", "identified", disk[Target]))
                    \/ /\ Slips("restoring", FALSE)
                       /\ journal' = Append(journal, Entry("replaced", "unidentified", disk[Target]))
              \/ Slips("restoring", FALSE) /\ temps' = temps /\ journal' = journal
<1>1. report \in ReportType /\ "restoring" \in Phases
  BY DEF TypeOK, Phases, ApplyPhases, OpPhases
<1>2. FailAs("operational", "restoring") /\ Fault => Slips("restoring", FALSE)
  BY <1>1, Slipping
<1> QED
  BY <1>2 DEF OpenTemporary, OnTarget, Goes, NoFault, Proceed

(* ... written                                                             *)
LEMMA FillTemporaryShape ==
    ASSUME TypeOK, FillTemporary
    PROVE  /\ pc = "temp-opened" /\ OperationFrame /\ disk' = disk /\ journal' = journal
           /\ \/ Goes("temp-filled") /\ temps' = [temps EXCEPT ![Target] = Wanted.text]
              \/ /\ Slips("restoring", FALSE)
                 /\ temps' = temps \/ temps' = [temps EXCEPT ![Target] = "torn"]
<1>1. report \in ReportType /\ "restoring" \in Phases
  BY DEF TypeOK, Phases, ApplyPhases, OpPhases
<1>2. FailAs("operational", "restoring") /\ Fault => Slips("restoring", FALSE)
  BY <1>1, Slipping
<1> QED
  BY <1>2 DEF FillTemporary, Goes, NoFault, Proceed

(* ... and moved over the file that was approved.                          *)
LEMMA InstallReplacementShape ==
    ASSUME TypeOK, InstallReplacement
    PROVE  /\ pc = "temp-filled" /\ OperationFrame
           /\ \/ /\ disk[Target] = Last(journal).original /\ AsApproved(Target) /\ Goes("replaced")
                 /\ disk' = [disk EXCEPT ![Target] = Wanted]
                 /\ temps' = [temps EXCEPT ![Target] = None]
                 /\ journal' = LastState("installed")
              \/ /\ Slips("restoring", ~(disk[Target] = Last(journal).original /\ AsApproved(Target)))
                 /\ disk' = disk /\ temps' = temps /\ journal' = journal
<1> DEFINE e == ~(disk[Target] = Last(journal).original /\ AsApproved(Target))
<1>1. report \in ReportType /\ "restoring" \in Phases
  BY DEF TypeOK, Phases, ApplyPhases, OpPhases
<1>2. \A c \in {"usage", "operational"} :
         FailAs(c, "restoring") /\ (Fault \/ (NoFault /\ e)) => Slips("restoring", e)
  BY <1>1, Slipping, Zenon
<1>3. /\ pc = "temp-filled" /\ OperationFrame
      /\ \/ /\ ~e /\ NoFault /\ Proceed("replaced")
            /\ disk' = [disk EXCEPT ![Target] = Wanted]
            /\ temps' = [temps EXCEPT ![Target] = None]
            /\ journal' = LastState("installed")
         \/ /\ e /\ NoFault /\ FailAs("usage", "restoring")
            /\ disk' = disk /\ temps' = temps /\ journal' = journal
         \/ /\ Fault /\ FailAs("operational", "restoring")
            /\ disk' = disk /\ temps' = temps /\ journal' = journal
  BY DEF InstallReplacement
<1> HIDE DEF e
<1>4. \/ /\ ~e /\ Goes("replaced")
         /\ disk' = [disk EXCEPT ![Target] = Wanted]
         /\ temps' = [temps EXCEPT ![Target] = None]
         /\ journal' = LastState("installed")
      \/ /\ Slips("restoring", e)
         /\ disk' = disk /\ temps' = temps /\ journal' = journal
  BY <1>2, <1>3, Zenon DEF Goes, NoFault, Proceed
<1> QED
  BY <1>3, <1>4, Zenon DEF e

(* The flat page is removed as it was approved.                            *)
LEMMA RemoveFlatShape ==
    ASSUME TypeOK, RemoveFlat
    PROVE  /\ pc = "operation" /\ Kind = "remove-file" /\ OperationFrame /\ temps' = temps
           /\ \/ /\ AsApproved(Target) /\ Goes("unlinked")
                 /\ disk' = [disk EXCEPT ![Target] = Missing]
                 /\ journal' = Append(journal, Entry("removed", "removed", disk[Target]))
              \/ /\ Slips("restoring", ~AsApproved(Target))
                 /\ disk' = disk /\ journal' = journal
<1> DEFINE e == ~AsApproved(Target)
<1>1. report \in ReportType /\ "restoring" \in Phases
  BY DEF TypeOK, Phases, ApplyPhases, OpPhases
<1>2. \A c \in {"usage", "operational"} :
         FailAs(c, "restoring") /\ (Fault \/ (NoFault /\ e)) => Slips("restoring", e)
  BY <1>1, Slipping, Zenon
<1>3. /\ pc = "operation" /\ Kind = "remove-file" /\ OperationFrame /\ temps' = temps
      /\ \/ /\ ~e /\ NoFault /\ Proceed("unlinked")
            /\ disk' = [disk EXCEPT ![Target] = Missing]
            /\ journal' = Append(journal, Entry("removed", "removed", disk[Target]))
         \/ e /\ NoFault /\ FailAs("usage", "restoring") /\ disk' = disk /\ journal' = journal
         \/ Fault /\ FailAs("operational", "restoring") /\ disk' = disk /\ journal' = journal
  BY DEF RemoveFlat, OnTarget
<1> HIDE DEF e
<1>4. \/ /\ ~e /\ Goes("unlinked")
         /\ disk' = [disk EXCEPT ![Target] = Missing]
         /\ journal' = Append(journal, Entry("removed", "removed", disk[Target]))
      \/ Slips("restoring", e) /\ disk' = disk /\ journal' = journal
  BY <1>2, <1>3, Zenon DEF Goes, NoFault, Proceed
<1> QED
  BY <1>3, <1>4, Zenon DEF e

Verify == VerifyDirectory \/ VerifyFile \/ VerifyReplacement \/ VerifyRemoved

(* What was put in place is what is there.                                 *)
LEMMA VerifyShape ==
    ASSUME TypeOK, Verify
    PROVE  /\ pc \in {"dir-installed", "file-filled", "replaced", "unlinked"}
           /\ OperationFrame /\ disk' = disk /\ temps' = temps /\ journal' = journal
           /\ LET node == IF pc = "unlinked" THEN Missing ELSE Wanted
              IN  \/ Goes("restoring") /\ disk[Target] = node
                  \/ Slips("restoring", disk[Target] # node)
<1> DEFINE node == IF pc = "unlinked" THEN Missing ELSE Wanted
           e == disk[Target] # node
<1>1. report \in ReportType /\ "restoring" \in Phases
  BY DEF TypeOK, Phases, ApplyPhases, OpPhases
<1>2. \A c \in {"usage", "operational"} :
         FailAs(c, "restoring") /\ (Fault \/ (NoFault /\ e)) => Slips("restoring", e)
  BY <1>1, Slipping, Zenon
<1>3. pc \in {"dir-installed", "file-filled", "replaced", "unlinked"} /\ VerifyIs(node)
  BY DEF Verify, VerifyDirectory, VerifyFile, VerifyReplacement, VerifyRemoved
<1>4. /\ OperationFrame /\ disk' = disk /\ temps' = temps /\ journal' = journal
      /\ \/ ~e /\ NoFault /\ Proceed("restoring")
         \/ e /\ NoFault /\ FailAs("usage", "restoring")
         \/ Fault /\ FailAs("operational", "restoring")
  BY <1>3 DEF VerifyIs
<1> HIDE DEF node
<1>5. (Goes("restoring") /\ ~e) \/ Slips("restoring", e)
  BY <1>2, <1>4, Zenon DEF Goes, NoFault, Proceed
<1>6. (Goes("restoring") /\ disk[Target] = node) \/ Slips("restoring", disk[Target] # node)
  BY <1>5
<1> QED
  BY <1>3, <1>4, <1>6, Zenon DEF node

(* The entries and the repository after the mode is restored. *)
ActiveModes == {i \in 1..Len(journal) : journal[i].kind = "mode" /\ journal[i].state = "active"}
Narrowed == [p \in Paths |-> IF \E i \in ActiveModes : journal[i].path = p
                             THEN [disk[p] EXCEPT !.rw = FALSE] ELSE disk[p]]
Settled == [i \in 1..Len(journal) |->
               IF i \in ActiveModes THEN [journal[i] EXCEPT !.state = "settled"] ELSE journal[i]]

(* The parent's mode is restored, whatever the operation came to.          *)
LEMMA RestoreParentModeShape ==
    ASSUME TypeOK, RestoreParentMode, NEW after, after = IF report.class = None THEN "ended" ELSE "failed"
    PROVE  /\ pc = "restoring" /\ OperationFrame /\ temps' = temps
           /\ \/ ActiveModes = {} /\ Goes(after) /\ disk' = disk /\ journal' = journal
              \/ ActiveModes # {} /\ Goes(after) /\ disk' = Narrowed /\ journal' = Settled
              \/ Slips("failed", FALSE) /\ disk' \in {disk, Narrowed} /\ journal' = journal
<1>1. report \in ReportType /\ "failed" \in Phases
  BY DEF TypeOK, Phases, ApplyPhases
<1>2. FailAs("operational", "failed") /\ Fault => Slips("failed", FALSE)
  BY <1>1, Slipping
<1>3. /\ pc = "restoring" /\ OperationFrame /\ temps' = temps
      /\ \/ ActiveModes = {} /\ NoFault /\ Proceed(after) /\ disk' = disk /\ journal' = journal
         \/ ActiveModes # {} /\ NoFault /\ Proceed(after) /\ disk' = Narrowed /\ journal' = Settled
         \/ ActiveModes # {} /\ Fault /\ FailAs("operational", "failed")
            /\ disk' \in {disk, Narrowed} /\ journal' = journal
  BY Zenon DEF RestoreParentMode, ActiveModes, Narrowed, Settled
<1> QED
  BY <1>2, <1>3 DEF Goes, NoFault, Proceed

(* An operation is done, and a new wiki is locked.                         *)
LEMMA EndOperationShape ==
    ASSUME TypeOK, EndOperation
    PROVE  /\ pc = "ended" /\ todo' = todo \ {Target}
           /\ UNCHANGED <<head, temps, stale, staging, case, approved, manifest, journal, touched>>
           /\ \/ /\ Goes("next") /\ (locked \/ Target # Memory)
                 /\ UNCHANGED <<disk, locked, madeLock, lockSeen>>
              \/ /\ ~locked /\ Target = Memory /\ Goes("next") /\ disk' = WithLockFile(disk)
                 /\ locked' = TRUE /\ madeLock' = TRUE /\ lockSeen' = disk'[Lock]
              \/ /\ ~locked /\ Target = Memory /\ Slips("failed", FALSE)
                 /\ disk' \in {disk, WithLockFile(disk)} /\ locked' \in BOOLEAN
                 /\ madeLock' \in BOOLEAN /\ lockSeen' = lockSeen
<1> DEFINE takes == ~locked /\ Target = Memory
<1>1. report \in ReportType /\ "failed" \in Phases /\ locked \in BOOLEAN /\ madeLock \in BOOLEAN
  BY DEF TypeOK, Phases, ApplyPhases
<1>2. FailAs("operational", "failed") /\ Fault => Slips("failed", FALSE)
  BY <1>1, Slipping
<1>3. /\ pc = "ended" /\ todo' = todo \ {Target}
      /\ UNCHANGED <<head, temps, stale, staging, case, approved, manifest, journal, touched>>
      /\ \/ ~takes /\ NoFault /\ Proceed("next") /\ UNCHANGED <<disk, locked, madeLock, lockSeen>>
         \/ /\ takes /\ NoFault /\ Proceed("next")
            /\ disk' = WithLockFile(disk) /\ locked' = TRUE /\ madeLock' = TRUE
            /\ lockSeen' = disk'[Lock]
         \/ /\ takes /\ Fault /\ FailAs("operational", "failed")
            /\ \/ disk' \in {disk, WithLockFile(disk)} /\ UNCHANGED <<locked, madeLock>>
               \/ disk' = WithLockFile(disk) /\ locked' = TRUE /\ madeLock' = TRUE
            /\ UNCHANGED lockSeen
  BY DEF EndOperation
<1>4. takes /\ FailAs("operational", "failed") /\ Fault
      /\ (\/ disk' \in {disk, WithLockFile(disk)} /\ UNCHANGED <<locked, madeLock>>
          \/ disk' = WithLockFile(disk) /\ locked' = TRUE /\ madeLock' = TRUE)
      => disk' \in {disk, WithLockFile(disk)} /\ locked' \in BOOLEAN /\ madeLock' \in BOOLEAN
  BY <1>1
<1> QED
  BY <1>2, <1>3, <1>4 DEF Goes, NoFault, Proceed

(* The end is checked once                                                 *)
LEMMA ValidateShape ==
    ASSUME TypeOK, Validate
    PROVE  /\ pc = "next" /\ todo = {} /\ OperationFrame
           /\ UNCHANGED <<disk, temps, journal>>
           /\ \/ FinalStateApproved /\ Goes("revalidating")
              \/ Slips("failed", ~FinalStateApproved)
<1> DEFINE e == ~FinalStateApproved
<1>1. report \in ReportType /\ "failed" \in Phases
  BY DEF TypeOK, Phases, ApplyPhases
<1>2. \A c \in {"usage", "operational"} :
         FailAs(c, "failed") /\ (Fault \/ (NoFault /\ e)) => Slips("failed", e)
  BY <1>1, Slipping, Zenon
<1> QED
  BY <1>2 DEF Validate, Goes, NoFault, Proceed

(* ... and a second time before success is reported.                       *)
LEMMA RevalidateShape ==
    ASSUME TypeOK, Revalidate
    PROVE  /\ pc = "revalidating"
           /\ UNCHANGED <<disk, head, temps, stale, staging, case, approved, manifest, todo, journal,
                          madeLock, lockSeen, touched>>
           /\ \/ /\ FinalStateApproved /\ faults' = faults /\ pc' = "done" /\ locked' = FALSE
                 /\ report' = [ok |-> TRUE, class |-> "success", layout |-> manifest.mode,
                               unresolved |-> {}]
              \/ Slips("failed", ~FinalStateApproved) /\ locked' = locked
<1> DEFINE e == ~FinalStateApproved
<1>1. report \in ReportType /\ "failed" \in Phases
  BY DEF TypeOK, Phases, ApplyPhases
<1>2. \A c \in {"usage", "operational"} :
         FailAs(c, "failed") /\ (Fault \/ (NoFault /\ e)) => Slips("failed", e)
  BY <1>1, Slipping, Zenon
<1> QED
  BY <1>2 DEF Revalidate, repo, NoFault

(* A rollback begins with the lock that came with the directory.           *)
LEMMA HandleFailureShape ==
    ASSUME TypeOK, HandleFailure
    PROVE  /\ pc = "failed" /\ pc' = "recovering"
           /\ UNCHANGED <<head, temps, stale, staging, case, approved, manifest, todo, journal,
                          madeLock, report, touched>>
           /\ faults' \in {faults, faults + 1}
           /\ \/ UNCHANGED <<disk, locked, lockSeen>>
              \/ /\ locked' = FALSE /\ lockSeen' = Missing
                 /\ disk' = disk \/ disk' = [disk EXCEPT ![Lock] = Missing]
BY DEF HandleFailure, Fault, NoFault

(* A rollback takes the last entry off the journal.                        *)
LEMMA RecoverEntryShape ==
    ASSUME TypeOK, RecoverEntry
    PROVE  /\ pc = "recovering" /\ pc' = "recovering" /\ journal # <<>> /\ journal' = Front(journal)
           /\ UNCHANGED <<head, stale, staging, case, approved, manifest, todo, locked, madeLock,
                          lockSeen, touched>>
           /\ faults' \in {faults, faults + 1}
<1>1. /\ pc = "recovering" /\ journal # <<>> /\ journal' = Front(journal)
      /\ NoFault \/ Fault
      /\ UNCHANGED <<head, stale, staging, case, pc, approved, manifest, todo, locked, madeLock,
                     lockSeen, touched, edits, crashes>>
  BY Zenon DEF RecoverEntry
<1> QED
  BY <1>1 DEF Fault, NoFault

(* The report of a failure names the layout and what drifted.              *)
LEMMA ClassifyShape ==
    ASSUME TypeOK, Classify, NEW found, found = classify_recovered_layout
    PROVE  /\ pc = "recovering" /\ pc' = "done" /\ journal = <<>> /\ locked' = FALSE
           /\ UNCHANGED <<disk, head, temps, stale, staging, case, approved, manifest, todo, journal,
                          madeLock, lockSeen, touched>>
           /\ faults' \in {faults, faults + 1}
           /\ report' \in ReportType /\ report'.ok = report.ok
           /\ \/ /\ report'.unresolved = report.unresolved \cup found.drift
                 /\ report'.layout = IF report'.unresolved = {} THEN found.layout ELSE "partial"
                 /\ faults' = faults
              \/ /\ report'.unresolved = report.unresolved \cup {At(Root)}
                 /\ report'.layout = "partial"
<1>1. report \in ReportType
  BY DEF TypeOK
<1>P. \A p \in Paths : /\ At(p) \in [path : Paths, temp : BOOLEAN]
                        /\ TempOf(p) \in [path : Paths, temp : BOOLEAN]
  BY DEF At, TempOf
<1>2. found.layout \in Layouts /\ found.drift \subseteq [path : Paths, temp : BOOLEAN]
  <2>1. Residues \subseteq Paths /\ Lock \in Paths /\ Forbidden \subseteq Paths
    BY PathSets DEF Residues, TypeOK, Forbidden
  <2>2. CASE Residues # {}
    <3>1. found = [layout |-> "partial", drift |-> {TempOf(p) : p \in Residues}]
      BY <2>2 DEF classify_recovered_layout
    <3> QED
      BY <3>1, <2>1, <1>P DEF Layouts
  <2>3. CASE Residues = {}
    <3> DEFINE drift == IF disk[Lock] # lockSeen \/ Blocked(disk) THEN {At(Lock)} ELSE {}
               fragments == {p \in Forbidden : Exists(disk, p)}
    <3>1. found = classify_recovered_layout_once
      BY <2>3 DEF classify_recovered_layout
    <3>2. found \in {[layout |-> "absent", drift |-> {}], [layout |-> "minimal", drift |-> {}],
                     [layout |-> "full", drift |-> {}],
                     [layout |-> "partial", drift |-> drift \cup {At(p) : p \in fragments}]}
      BY <3>1 DEF classify_recovered_layout_once
    <3>3. drift \subseteq [path : Paths, temp : BOOLEAN]
          /\ {At(p) : p \in fragments} \subseteq [path : Paths, temp : BOOLEAN]
      BY <2>1, <1>P
    <3> HIDE DEF drift, fragments
    <3> QED
      BY <3>2, <3>3 DEF Layouts
  <2> QED
    BY <2>2, <2>3
<1>3. \A l \in Layouts, u \in SUBSET [path : Paths, temp : BOOLEAN],
         k \in {None, "usage", "operational", "success"} :
        report' = [report EXCEPT !.unresolved = u, !.class = k, !.layout = l]
        => report' \in ReportType /\ report'.ok = report.ok /\ report'.unresolved = u
           /\ report'.layout = l
  BY <1>1 DEF ReportType, Layouts
<1>4. At(Root) \in [path : Paths, temp : BOOLEAN]
  BY PathSets, <1>P
<1>5. /\ pc = "recovering" /\ journal = <<>> /\ pc' = "done" /\ locked' = FALSE
      /\ UNCHANGED <<disk, head, temps, stale, staging, case, approved, manifest, todo, journal,
                     madeLock, lockSeen, touched>>
      /\ \/ /\ NoFault
            /\ report' = [report EXCEPT
                            !.unresolved = report.unresolved \cup found.drift,
                            !.class = report.class,
                            !.layout = IF report.unresolved \cup found.drift = {}
                                       THEN found.layout ELSE "partial"]
         \/ /\ Fault
            /\ report' = [report EXCEPT
                            !.unresolved = report.unresolved \cup {At(Root)},
                            !.class = "operational",
                            !.layout = IF report.unresolved \cup {At(Root)} = {}
                                       THEN "partial" ELSE "partial"]
  BY DEF Classify, repo
<1>6. report.class \in {None, "usage", "operational", "success"}
  BY <1>1 DEF ReportType
<1>7. CASE /\ NoFault
           /\ report' = [report EXCEPT
                            !.unresolved = report.unresolved \cup found.drift,
                            !.class = report.class,
                            !.layout = IF report.unresolved \cup found.drift = {}
                                       THEN found.layout ELSE "partial"]
  <2>1. /\ report' \in ReportType /\ report'.ok = report.ok
        /\ report'.unresolved = report.unresolved \cup found.drift
        /\ report'.layout = IF report.unresolved \cup found.drift = {}
                            THEN found.layout ELSE "partial"
    <3> DEFINE u == report.unresolved \cup found.drift
               l == IF u = {} THEN found.layout ELSE "partial"
    <3>1. report.unresolved \in SUBSET [path : Paths, temp : BOOLEAN] /\ "partial" \in Layouts
      BY <1>1 DEF ReportType, Layouts
    <3>2. u \in SUBSET [path : Paths, temp : BOOLEAN] /\ l \in Layouts
      BY <3>1, <1>2
    <3>3. report' = [report EXCEPT !.unresolved = u, !.class = report.class, !.layout = l]
      BY <1>7, Zenon
    <3> HIDE DEF u, l
    <3>4. report' \in ReportType /\ report'.ok = report.ok /\ report'.unresolved = u
          /\ report'.layout = l
      BY <3>2, <3>3, <1>3, <1>6
    <3> QED
      BY <3>4 DEF u, l
  <2> QED
    BY <1>5, <1>7, <2>1 DEF NoFault
<1>8. CASE /\ Fault
           /\ report' = [report EXCEPT
                            !.unresolved = report.unresolved \cup {At(Root)},
                            !.class = "operational",
                            !.layout = IF report.unresolved \cup {At(Root)} = {}
                                       THEN "partial" ELSE "partial"]
  <2>1. "partial" \in Layouts /\ {At(Root)} \subseteq [path : Paths, temp : BOOLEAN]
    BY <1>4 DEF Layouts
  <2>2. /\ report' \in ReportType /\ report'.ok = report.ok
        /\ report'.unresolved = report.unresolved \cup {At(Root)}
        /\ report'.layout = "partial"
    <3> DEFINE u == report.unresolved \cup {At(Root)}
    <3>1. report.unresolved \in SUBSET [path : Paths, temp : BOOLEAN]
      BY <1>1 DEF ReportType
    <3>2. u \in SUBSET [path : Paths, temp : BOOLEAN]
      BY <3>1, <2>1
    <3>3. report' = [report EXCEPT !.unresolved = u, !.class = "operational", !.layout = "partial"]
      BY <1>8
    <3> HIDE DEF u
    <3>4. report' \in ReportType /\ report'.ok = report.ok /\ report'.unresolved = u
          /\ report'.layout = "partial"
      BY <3>2, <3>3, <1>3, <2>1
    <3> QED
      BY <3>4 DEF u
  <2> QED
    BY <1>5, <1>8, <2>2 DEF Fault
<1> QED
  BY <1>5, <1>7, <1>8

(* An edit changes one path, and no directory but the newest.              *)
LEMMA EditShape ==
    ASSUME TypeOK, NEW p \in EditPaths, Edit(p)
    PROVE  /\ pc \notin {"idle", "done", "crashed"} /\ p \in Owned
           /\ disk[Parent[p]].kind = "dir"
           /\ disk[p].kind = "dir" => pc = "dir-installed" /\ p = Target /\ Entries(p) = {}
           /\ \E n \in Nodes :
                /\ disk' = [disk EXCEPT ![p] = n] /\ n.kind # "dir"
                /\ n.by = "apply" => /\ disk[p].kind = "file" /\ disk[p].by = "apply"
                                     /\ ~(pc = "file-opened" /\ p = Target)
           /\ touched' = touched \cup {p}
           /\ UNCHANGED <<head, temps, stale, staging, case, pc, approved, manifest, todo, journal,
                          locked, madeLock, lockSeen, report, faults>>
           /\ Target' = Target
<1>1. /\ pc \notin {"idle", "done", "crashed"}
      /\ disk[Parent[p]].kind = "dir"
      /\ disk[p].kind = "dir" => pc = "dir-installed" /\ p = Target /\ Entries(p) = {}
      /\ \/ disk' = [disk EXCEPT ![p] = File("foreign", "env")]
         \/ disk[p].kind # "missing" /\ disk' = [disk EXCEPT ![p] = Missing]
         \/ /\ disk[p].kind = "file" /\ ~(pc = "file-opened" /\ p = Target)
            /\ disk' = [disk EXCEPT ![p].text = "foreign"]
      /\ touched' = touched \cup {p}
      /\ UNCHANGED <<head, temps, stale, staging, case, pc, approved, manifest, todo, journal,
                     locked, madeLock, lockSeen, report, faults>>
  BY DEF Edit
<1>2. p \in Owned /\ disk[p] \in Nodes
  BY EditPathsAssumption, PathSets DEF TypeOK
<1>3. File("foreign", "env") \in Nodes /\ Missing \in Nodes /\ "foreign" \in Texts
  BY NodeFacts DEF Texts, Makers
<1>4. /\ File("foreign", "env").kind = "file" /\ File("foreign", "env").by = "env"
      /\ Missing.kind = "missing" /\ Missing.by = Nobody
  BY Made DEF Missing, NodeOf
<1>5. ASSUME disk[p].kind = "file"
      PROVE  /\ [disk[p] EXCEPT !.text = "foreign"] \in Nodes
             /\ [disk[p] EXCEPT !.text = "foreign"].kind = "file"
             /\ [disk[p] EXCEPT !.text = "foreign"].by = disk[p].by
  <2>1. disk[p] = [kind |-> disk[p].kind, text |-> disk[p].text, rw |-> disk[p].rw, by |-> disk[p].by]
    BY <1>2, NodeShape
  <2> QED
    BY <1>2, <1>3, <1>5, <2>1, NodeSteps
<1>6. \E n \in Nodes :
        /\ disk' = [disk EXCEPT ![p] = n] /\ n.kind # "dir"
        /\ n.by = "apply" => /\ disk[p].kind = "file" /\ disk[p].by = "apply"
                             /\ ~(pc = "file-opened" /\ p = Target)
  <2>1. CASE disk' = [disk EXCEPT ![p] = File("foreign", "env")]
    BY <2>1, <1>3, <1>4
  <2>2. CASE disk' = [disk EXCEPT ![p] = Missing]
    BY <2>2, <1>3, <1>4 DEF Nobody
  <2>3. CASE /\ disk[p].kind = "file" /\ ~(pc = "file-opened" /\ p = Target)
             /\ disk' = [disk EXCEPT ![p].text = "foreign"]
    BY <2>3, <1>5
  <2> QED
    BY <1>1, <2>1, <2>2, <2>3
<1> QED
  BY <1>1, <1>2, <1>6 DEF Target

(* A crash leaves the repository and the temporaries.                      *)
LEMMA CrashShape ==
    ASSUME TypeOK, Crash
    PROVE  /\ pc \notin {"idle", "inspected", "done", "crashed"} /\ pc' = "crashed"
           /\ stale' = stale \cup {p \in Owned : temps[p] # None}
           /\ temps' = NoTemps /\ staging' = "none" /\ journal' = <<>> /\ todo' = {}
           /\ locked' = FALSE /\ madeLock' = FALSE /\ report' = NoReport
           /\ UNCHANGED <<disk, head, case, approved, manifest, lockSeen, touched, faults>>
BY DEF Crash

-----------------------------------------------------------------------------
(* The tree. *)

(* A path may be given a node when its parent is there, or lose it when    *)
(* nothing lies in it.                                                     *)
LEMMA PutNode ==
    ASSUME NEW d \in [Paths -> Nodes], Tree(d), NEW p \in Owned \cup {Lock}, NEW n \in Nodes,
           n.kind # "missing" => d[Parent[p]].kind = "dir",
           n.kind = "dir" \/ \A q \in DOMAIN Parent : Parent[q] = p => d[q].kind = "missing"
    PROVE  [d EXCEPT ![p] = n] \in [Paths -> Nodes] /\ Tree([d EXCEPT ![p] = n])
<1> DEFINE e == [d EXCEPT ![p] = n]
<1>1. p \in Paths /\ Root \in Paths /\ p # Root
  BY PathSets
<1>2. e \in [Paths -> Nodes] /\ e[p] = n /\ \A q \in Paths : q # p => e[q] = d[q]
  BY <1>1
<1>3. \A q \in DOMAIN Parent : q \in Paths /\ Parent[q] \in Paths /\ Parent[q] # q
  BY Parents, PathSets
<1> HIDE DEF e
<1>4. e[Root].kind = "dir"
  BY <1>1, <1>2 DEF Tree
<1>5. ASSUME NEW q \in DOMAIN Parent, e[q].kind # "missing" PROVE e[Parent[q]].kind = "dir"
  <2>1. CASE q = p
    BY <2>1, <1>2, <1>3, <1>5
  <2>2. CASE q # p
    <3>1. d[q].kind # "missing" /\ d[Parent[q]].kind = "dir"
      BY <2>2, <1>2, <1>3, <1>5 DEF Tree
    <3> QED
      BY <3>1, <1>2, <1>3
  <2> QED
    BY <2>1, <2>2
<1> QED
  BY <1>2, <1>4, <1>5 DEF Tree, e

(* Nothing lies in what is not a directory. *)
LEMMA NothingIn ==
    ASSUME NEW d, Tree(d), NEW p, d[p].kind # "dir" \/ p \notin Dirs \cup {Root}
    PROVE  \A q \in DOMAIN Parent : Parent[q] = p => d[q].kind = "missing"
BY Parents DEF Tree

(* Changes of mode leave the tree as it is. *)
LEMMA SameKinds ==
    ASSUME NEW d, NEW e, Tree(d), \A p \in Paths : e[p].kind = d[p].kind
    PROVE  Tree(e)
<1>1. \A q \in DOMAIN Parent : q \in Paths /\ Parent[q] \in Paths
  BY Parents, PathSets
<1> QED
  BY <1>1, PathSets DEF Tree

(* A directory is opened up or closed. *)
LEMMA ModeOf ==
    ASSUME NEW n \in Nodes
    PROVE  \A m, x : m = [n EXCEPT !.rw = x] =>
              m.kind = n.kind /\ m.text = n.text /\ m.by = n.by /\ m.rw = x
<1>1. n = [kind |-> n.kind, text |-> n.text, rw |-> n.rw, by |-> n.by]
  BY NodeShape
<1>2. ASSUME NEW m, NEW x, m = [n EXCEPT !.rw = x]
      PROVE  m.kind = n.kind /\ m.text = n.text /\ m.by = n.by /\ m.rw = x
  BY <1>1, <1>2
<1> QED
  BY ONLY <1>2

(* A directory is made writable.                                           *)
Opened(d, p) == [d EXCEPT ![p].rw = TRUE]

(* What it is to make a path writable.                                     *)
LEMMA Widening ==
    ASSUME NEW d \in [Paths -> Nodes], NEW p \in Paths
    PROVE  /\ Opened(d, p) \in [Paths -> Nodes]
           /\ Opened(d, p)[p].rw = TRUE
           /\ \A q \in Paths : q # p => Opened(d, p)[q] = d[q]
           /\ \A q \in Paths : /\ Opened(d, p)[q].kind = d[q].kind
                               /\ Opened(d, p)[q].text = d[q].text
                               /\ Opened(d, p)[q].by = d[q].by
<1> DEFINE m == [d[p] EXCEPT !.rw = TRUE]
           e == Opened(d, p)
<1>1. \A n, x : n = [d[p] EXCEPT !.rw = x] =>
         n.kind = d[p].kind /\ n.text = d[p].text /\ n.by = d[p].by /\ n.rw = x
  BY ModeOf
<1>2. m \in Nodes
  BY NodeSteps
<1>3. m.kind = d[p].kind /\ m.text = d[p].text /\ m.by = d[p].by /\ m.rw = TRUE
  BY ONLY <1>1, Zenon
<1>4. e = [d EXCEPT ![p] = m] /\ m = [d[p] EXCEPT !.rw = TRUE]
  BY DEF Opened
<1> HIDE DEF m
<1>5. e[p] = m /\ e \in [Paths -> Nodes] /\ \A q \in Paths : q # p => e[q] = d[q]
  BY <1>2, <1>4
<1>6. e[p].rw = TRUE
  BY <1>3, <1>5, Zenon
<1>7. \A q \in Paths : e[q].kind = d[q].kind /\ e[q].text = d[q].text /\ e[q].by = d[q].by
  BY <1>3, <1>5
<1> QED
  BY <1>4, <1>5, <1>6, <1>7, Zenon

(* ... or read-only.                                                       *)
Closed(d, p) == [d EXCEPT ![p].rw = FALSE]

(* What it is to make a directory read-only.                               *)
LEMMA Narrowing ==
    ASSUME NEW d \in [Paths -> Nodes], NEW p \in Paths, d[p].kind = "dir"
    PROVE  /\ Closed(d, p) \in [Paths -> Nodes]
           /\ Closed(d, p)[p].rw = FALSE
           /\ \A q \in Paths : q # p => Closed(d, p)[q] = d[q]
           /\ \A q \in Paths : /\ Closed(d, p)[q].kind = d[q].kind
                               /\ Closed(d, p)[q].text = d[q].text
                               /\ Closed(d, p)[q].by = d[q].by
<1> DEFINE m == [d[p] EXCEPT !.rw = FALSE]
           e == Closed(d, p)
<1>1. \A n, x : n = [d[p] EXCEPT !.rw = x] =>
         n.kind = d[p].kind /\ n.text = d[p].text /\ n.by = d[p].by /\ n.rw = x
  BY ModeOf
<1>2. m \in Nodes
  BY NodeSteps
<1>3. m.kind = d[p].kind /\ m.text = d[p].text /\ m.by = d[p].by /\ m.rw = FALSE
  BY ONLY <1>1, Zenon
<1>4. e = [d EXCEPT ![p] = m] /\ m = [d[p] EXCEPT !.rw = FALSE]
  BY DEF Closed
<1> HIDE DEF m
<1>5. e[p] = m /\ e \in [Paths -> Nodes] /\ \A q \in Paths : q # p => e[q] = d[q]
  BY <1>2, <1>4
<1>6. e[p].rw = FALSE
  BY <1>3, <1>5, Zenon
<1>7. \A q \in Paths : e[q].kind = d[q].kind /\ e[q].text = d[q].text /\ e[q].by = d[q].by
  BY <1>3, <1>5
<1> QED
  BY <1>4, <1>5, <1>6, <1>7, Zenon

(* The mode that an operation widened is given back. *)
LEMMA NarrowedFacts ==
    ASSUME disk \in [Paths -> Nodes],
           \A i \in ActiveModes : disk[journal[i].path].kind = "dir"
    PROVE  /\ Narrowed \in [Paths -> Nodes]
           /\ \A p \in Paths : /\ Narrowed[p].kind = disk[p].kind /\ Narrowed[p].text = disk[p].text
                               /\ Narrowed[p].by = disk[p].by
           /\ \A p \in Paths : \/ Narrowed[p] = disk[p]
                               \/ /\ disk[p].kind = "dir" /\ Narrowed[p] = [disk[p] EXCEPT !.rw = FALSE]
                                  /\ Narrowed[p].rw = FALSE
                                  /\ \E i \in ActiveModes : journal[i].path = p
           /\ \A p \in Paths : (\A i \in ActiveModes : journal[i].path # p) => Narrowed[p] = disk[p]
<1>1. ASSUME NEW p \in Paths
      PROVE  /\ Narrowed[p] \in Nodes /\ Narrowed[p].kind = disk[p].kind
             /\ Narrowed[p].text = disk[p].text /\ Narrowed[p].by = disk[p].by
             /\ \/ Narrowed[p] = disk[p]
                \/ /\ disk[p].kind = "dir" /\ Narrowed[p] = [disk[p] EXCEPT !.rw = FALSE]
                   /\ Narrowed[p].rw = FALSE
                   /\ \E i \in ActiveModes : journal[i].path = p
             /\ (\A i \in ActiveModes : journal[i].path # p) => Narrowed[p] = disk[p]
  <2>1. disk[p] \in Nodes
    OBVIOUS
  <2>2. CASE \E i \in ActiveModes : journal[i].path = p
    <3>1. Narrowed[p] = [disk[p] EXCEPT !.rw = FALSE] /\ disk[p].kind = "dir"
      BY <2>2 DEF Narrowed
    <3>2. disk[p] = [kind |-> disk[p].kind, text |-> disk[p].text, rw |-> disk[p].rw, by |-> disk[p].by]
      BY <2>1, NodeShape
    <3>3. ASSUME NEW m, NEW x, m = [disk[p] EXCEPT !.rw = x]
          PROVE  m.kind = disk[p].kind /\ m.text = disk[p].text /\ m.by = disk[p].by /\ m.rw = x
      BY <3>2, <3>3
    <3>r. \A m, x : m = [disk[p] EXCEPT !.rw = x] =>
             m.kind = disk[p].kind /\ m.text = disk[p].text /\ m.by = disk[p].by /\ m.rw = x
      BY ONLY <3>3
    <3>4. /\ Narrowed[p].kind = disk[p].kind /\ Narrowed[p].text = disk[p].text
          /\ Narrowed[p].by = disk[p].by /\ Narrowed[p].rw = FALSE
      BY ONLY <3>1, <3>r, Zenon
    <3>5. Narrowed[p] \in Nodes
      BY <3>1, <2>1, NodeSteps
    <3> QED
      BY <2>2, <3>1, <3>4, <3>5, Zenon
  <2>3. CASE ~\E i \in ActiveModes : journal[i].path = p
    <3>1. Narrowed[p] = disk[p]
      BY <2>3 DEF Narrowed
    <3> QED
      BY <3>1, <2>1
  <2> QED
    BY <2>2, <2>3
<1>2. Narrowed = [p \in Paths |-> Narrowed[p]]
  BY DEF Narrowed
<1>3. Narrowed \in [Paths -> Nodes]
  BY <1>1, <1>2
<1> QED
  BY <1>1, <1>3, Zenon

(* A new run starts from a tree in which nothing is this process's yet.    *)
LEMMA StartOverShape ==
    ASSUME TypeOK, DiskInv, StartOver
    PROVE  /\ pc = "crashed" /\ pc' = "idle" /\ disk' \in [Paths -> Nodes] /\ Tree(disk')
           /\ \A p \in Paths : disk'[p].by # "apply"
           /\ head' = disk' /\ manifest' = NoManifest /\ lockSeen' = Missing
           /\ stale' \in {stale, {}}
           /\ UNCHANGED <<temps, staging, case, approved, todo, journal, locked, madeLock, report,
                          touched, edits, faults, crashes>>
<1> DEFINE Adopted(d) == [p \in Paths |-> IF Exists(d, p) THEN [d[p] EXCEPT !.by = "repo"] ELSE d[p]]
           restored == [p \in Paths |->
                           CASE p = Lock /\ head[Memory].kind = "dir" -> disk[p]
                             [] head[p].kind = "dir" /\ disk[p].kind = "dir" -> disk[p]
                             [] OTHER -> head[p]]
<1>1. /\ pc = "crashed" /\ pc' = "idle"
      /\ \/ disk' = Adopted(disk) /\ UNCHANGED stale
         \/ disk' = Adopted(restored) /\ stale' = {}
      /\ head' = disk' /\ manifest' = NoManifest /\ lockSeen' = Missing
      /\ UNCHANGED <<temps, staging, case, approved, todo, journal, locked, madeLock, report,
                     touched, edits, faults, crashes>>
  BY Zenon DEF StartOver
<1>2. ASSUME NEW d \in [Paths -> Nodes], Tree(d)
      PROVE  /\ Adopted(d) \in [Paths -> Nodes] /\ Tree(Adopted(d))
             /\ \A p \in Paths : Adopted(d)[p].by # "apply"
  <2>1. ASSUME NEW p \in Paths
        PROVE  /\ Adopted(d)[p] \in Nodes /\ Adopted(d)[p].kind = d[p].kind
               /\ Adopted(d)[p].by # "apply"
    <3>1. d[p] \in Nodes
      OBVIOUS
    <3>2. CASE d[p].kind # "missing"
      <4>1. "repo" \in Makers
        BY DEF Makers
      <4>2. Adopted(d)[p] = [d[p] EXCEPT !.by = "repo"]
        BY <3>2 DEF Exists
      <4>3. [d[p] EXCEPT !.by = "repo"] \in Nodes
        BY <3>1, <3>2, <4>1, NodeSteps
      <4>4. d[p] = [kind |-> d[p].kind, text |-> d[p].text, rw |-> d[p].rw, by |-> d[p].by]
        BY <3>1, NodeShape
      <4>5. [d[p] EXCEPT !.by = "repo"].kind = d[p].kind /\ [d[p] EXCEPT !.by = "repo"].by = "repo"
        BY <4>4
      <4> QED
        BY <4>2, <4>3, <4>5
    <3>3. CASE d[p].kind = "missing"
      <4>1. Adopted(d)[p] = d[p]
        BY <3>3 DEF Exists
      <4>2. d[p] = Missing
        BY <3>1, <3>3, NodeShape
      <4>3. Missing.by # "apply"
        BY DEF Missing, NodeOf, Nobody
      <4> QED
        BY <3>1, <4>1, <4>2, <4>3
    <3> QED
      BY <3>2, <3>3
  <2>2. Adopted(d) \in [Paths -> Nodes]
    BY <2>1
  <2> HIDE DEF Adopted
  <2>3. Tree(Adopted(d))
    BY <1>2, <2>1, SameKinds
  <2> QED
    BY <2>1, <2>2, <2>3
<1>3. restored \in [Paths -> Nodes] /\ Tree(restored)
  <2>0. /\ disk \in [Paths -> Nodes] /\ head \in [Paths -> Nodes] /\ Tree(disk) /\ Tree(head)
    BY DEF TypeOK, DiskInv
  <2>1. restored \in [Paths -> Nodes]
    BY <2>0
  <2>2. ASSUME NEW p \in Paths PROVE p # Lock => restored[p].kind = head[p].kind
    BY <2>0
  <2>3. head[Memory].kind # "dir" => restored[Lock].kind = head[Lock].kind
    BY <2>0, PathSets
  <2>m. Memory \in Paths /\ Memory # Lock /\ Lock \in Paths /\ Root \in Paths /\ Root # Lock
    BY PathSets
  <2> HIDE DEF restored
  <2>4. ASSUME NEW p \in DOMAIN Parent, restored[p].kind # "missing"
        PROVE  restored[Parent[p]].kind = "dir"
    <3>1. CASE p = Lock
      <4>1. Parent[p] = Memory
        BY <3>1, Parents
      <4>2. CASE head[Memory].kind = "dir"
        BY <4>1, <4>2, <2>2, <2>m
      <4>3. CASE head[Memory].kind # "dir"
        BY <4>1, <4>3, <3>1, <2>0, <2>3, <2>4, Parents DEF Tree
      <4> QED
        BY <4>2, <4>3
    <3>2. CASE p # Lock
      <4>1. p \in Paths /\ Parent[p] \in Paths /\ Parent[p] # Lock
        BY <3>2, Parents, PathSets
      <4> QED
        BY <2>0, <2>2, <2>4, <3>2, <4>1 DEF Tree
    <3> QED
      BY <3>1, <3>2
  <2> QED
    BY <2>0, <2>1, <2>2, <2>4, <2>m DEF Tree
<1>4. disk \in [Paths -> Nodes] /\ Tree(disk)
  BY DEF TypeOK, DiskInv
<1> HIDE DEF Adopted, restored
<1>5. disk' \in [Paths -> Nodes] /\ Tree(disk') /\ (\A p \in Paths : disk'[p].by # "apply")
      /\ stale' \in {stale, {}}
  <2>1. CASE disk' = Adopted(disk) /\ UNCHANGED stale
    BY <2>1, <1>2, <1>4
  <2>2. CASE disk' = Adopted(restored) /\ stale' = {}
    BY <2>2, <1>2, <1>3
  <2> QED
    BY <1>1, <2>1, <2>2
<1> QED
  BY <1>1, <1>5

(* A start.                                                                 *)
LEMMA InitShape ==
    ASSUME Init
    PROVE  /\ disk \in [Paths -> Nodes] /\ Tree(disk) /\ \A p \in Paths : disk[p].by # "apply"
           /\ head = disk /\ temps = NoTemps /\ stale = {} /\ staging = "none" /\ case \in Cases
           /\ pc = "idle" /\ manifest = NoManifest /\ todo = {} /\ journal = <<>>
           /\ locked = FALSE /\ madeLock = FALSE /\ lockSeen = Missing /\ report = NoReport
           /\ touched = {} /\ faults = 0
<1>1. /\ StartOf(case) \in [Paths -> Nodes] /\ Tree(StartOf(case))
      /\ \A p \in Paths : StartOf(case)[p].by \in {"repo", Nobody}
  BY CasesAssumption DEF Init
<1> QED
  BY <1>1 DEF Init, Nobody

-----------------------------------------------------------------------------
(* What a step does to the repository. *)

WellKept(d) ==
    /\ d \in [Paths -> Nodes] /\ Tree(d)
    /\ \A p \in Dirs : d[p].by = "apply" => d[p].kind = "dir"
    /\ manifest.mode # None /\ pc # "crashed" => \A p \in Files : d[p].kind # "dir"

(* Somebody else's work, where it is not what was approved, stays.         *)
Spared(d, e) ==
    \A p \in touched : d[p].text = "foreign" /\ ~SamePrestate(d[p], approved.nodes[p]) =>
        e[p] = d[p] /\ e[Parent[p]].kind = d[Parent[p]].kind

(* A file of somebody else's is there. *)
LEMMA ForeignExists ==
    ASSUME NEW n \in Nodes, n.text = "foreign"
    PROVE  n.kind = "file"
BY NodeShape DEF NoText

(* The lock file may be put and removed,                                   *)
LEMMA LockMove ==
    ASSUME TypeOK, NEW d, WellKept(d), NEW n \in Nodes, n.kind # "dir",
           n.kind = "missing" \/ d[Memory].kind = "dir",
           NEW e, e = [d EXCEPT ![Lock] = n]
    PROVE  WellKept(e) /\ Spared(d, e)
<1>1. Lock \in Paths /\ Lock \notin Dirs /\ Lock \notin Files /\ Parent[Lock] = Memory
      /\ Lock \notin Dirs \cup {Root}
  BY PathSets, Parents
<1>2. \A q \in DOMAIN Parent : Parent[q] = Lock => d[q].kind = "missing"
  BY <1>1, NothingIn DEF WellKept
<1>3. e \in [Paths -> Nodes] /\ Tree(e)
  BY <1>1, <1>2, PutNode DEF WellKept
<1>4. \A p \in Paths : p # Lock => e[p] = d[p]
  BY DEF WellKept
<1>5. WellKept(e)
  BY <1>1, <1>3, <1>4, PathSets DEF WellKept
<1>6. \A p \in touched : p \in Paths /\ p # Lock /\ Parent[p] \in Paths /\ Parent[p] # Lock
  BY PathSets, Parents DEF TypeOK
<1> QED
  BY <1>4, <1>5, <1>6 DEF Spared

(* ... modes may change                                                    *)
LEMMA ModeMove ==
    ASSUME TypeOK, NEW d, WellKept(d), NEW e \in [Paths -> Nodes],
           \A p \in Paths : e[p].kind = d[p].kind /\ e[p].by = d[p].by,
           \A p \in Paths : d[p].kind # "dir" => e[p] = d[p]
    PROVE  WellKept(e) /\ Spared(d, e)
<1>1. Tree(e)
  BY SameKinds DEF WellKept
<1>2. WellKept(e)
  BY <1>1, PathSets DEF WellKept
<1>3. ASSUME NEW p \in touched, d[p].text = "foreign"
      PROVE  e[p] = d[p] /\ e[Parent[p]].kind = d[Parent[p]].kind
  <2>1. p \in Paths /\ Parent[p] \in Paths /\ d[p] \in Nodes
    BY PathSets, Parents DEF TypeOK, WellKept
  <2>2. d[p].kind = "file"
    BY <2>1, <1>3, ForeignExists
  <2> QED
    BY <2>1, <2>2
<1> QED
  BY <1>2, <1>3 DEF Spared

(* ... and a path may get a node that fits there.                          *)
LEMMA PutMove ==
    ASSUME TypeOK, NEW d, WellKept(d), NEW p \in Owned, NEW n \in Nodes,
           n.kind # "missing" => d[Parent[p]].kind = "dir",
           n.kind = "dir" \/ \A q \in DOMAIN Parent : Parent[q] = p => d[q].kind = "missing",
           p \in Dirs /\ n.by = "apply" => n.kind = "dir",
           p \in Files => n.kind # "dir",
           NEW e, e = [d EXCEPT ![p] = n]
    PROVE  /\ WellKept(e)
           /\ (p \in touched /\ d[p].text = "foreign" =>
                 n = d[p] \/ SamePrestate(d[p], approved.nodes[p])) => Spared(d, e)
<1>1. d \in [Paths -> Nodes] /\ Tree(d) /\ p \in Paths
  BY PathSets DEF WellKept
<1>2. e \in [Paths -> Nodes] /\ Tree(e)
  BY <1>1, PutNode
<1>3. e[p] = n /\ \A q \in Paths : q # p => e[q] = d[q]
  BY <1>1
<1>4. WellKept(e)
  BY <1>2, <1>3, PathSets DEF WellKept
<1>5. ASSUME p \in touched /\ d[p].text = "foreign" =>
                 n = d[p] \/ SamePrestate(d[p], approved.nodes[p])
      PROVE  Spared(d, e)
  <2> SUFFICES ASSUME NEW q \in touched, d[q].text = "foreign",
                      ~SamePrestate(d[q], approved.nodes[q])
               PROVE  e[q] = d[q] /\ e[Parent[q]].kind = d[Parent[q]].kind
    BY DEF Spared
  <2>1. q \in Paths /\ q \in DOMAIN Parent /\ Parent[q] \in Paths /\ Parent[q] # q /\ d[q] \in Nodes
    BY <1>1, PathSets, Parents DEF TypeOK
  <2>2. d[q].kind = "file"
    BY <2>1, ForeignExists
  <2>3. e[q] = d[q]
    BY <1>3, <1>5, <2>1
  <2>4. CASE Parent[q] = p
    <3>1. d[p].kind = "dir"
      BY <1>1, <2>1, <2>2, <2>4 DEF Tree
    <3>2. n.kind = "dir"
      BY <2>1, <2>2, <2>4
    <3> QED
      BY <1>3, <2>3, <2>4, <3>1, <3>2
  <2>5. CASE Parent[q] # p
    BY <1>3, <2>1, <2>3, <2>5
  <2> QED
    BY <2>4, <2>5
<1> QED
  BY <1>4, <1>5

(* Two changes that spare what is foreign spare it together.               *)
LEMMA Spares ==
    ASSUME NEW d, NEW e, NEW f, Spared(d, e), Spared(e, f)
    PROVE  Spared(d, f)
BY DEF Spared

(* What the plan says of the operation that is next.                       *)
LEMMA TargetFacts ==
    ASSUME Core, manifest.mode # None, todo # {}
    PROVE  /\ Target \in todo /\ Target \in Owned /\ Wanted \in Nodes /\ Wanted.text # "foreign"
           /\ PlannedPath(Target) /\ approved.nodes[Target] \in Nodes
           /\ Kind \in {"create-directory", "create-file", "replace-file", "remove-file"}
           /\ Kind = "create-directory" =>
                Target \in Dirs /\ Wanted = Dir(TRUE, "apply") /\ approved.nodes[Target].kind = "missing"
           /\ Kind = "create-file" =>
                Target \in Files /\ Wanted = DesiredFile(Wanted.text)
                /\ approved.nodes[Target].kind = "missing"
           /\ Kind = "replace-file" =>
                Target \in Files /\ Wanted = DesiredFile(Wanted.text)
                /\ approved.nodes[Target].kind = "file"
           /\ Kind = "remove-file" =>
                Target \in Files /\ Target = Flat /\ Wanted = Missing
                /\ approved.nodes[Target].kind = "file"
<1>1. Target \in todo /\ Target \in Owned
  BY TargetIsFirst DEF Core, TypeOK
<1>2. Kind \in OperationKinds /\ Kind # None
  BY <1>1 DEF Core, TypeOK, OperationInv, Kind
<1>3. PlannedPath(Target) /\ approved.nodes[Target] \in Nodes /\ Wanted \in Nodes
  BY <1>1, PathSets DEF Core, TypeOK, PlanInv, Planned, SeenNodes, Wanted
<1>4. PlanOf(Target, approved.nodes[Target], Wanted, Kind, manifest.mode)
  BY <1>3 DEF PlannedPath, Kind, Wanted
<1>5. Flat \in Files
  BY PathSets
<1>6. Kind \in {"create-directory", "create-file", "replace-file", "remove-file"}
  BY <1>2 DEF OperationKinds
<1> QED
  BY <1>1, <1>3, <1>4, <1>5, <1>6 DEF PlanOf

(* What the command is about to change is there to be changed.             *)
LEMMA OperationDisk ==
    ASSUME Core, Operation
    PROVE  manifest.mode # None /\ WellKept(disk') /\ Spared(disk, disk')
<1>0. TypeOK /\ PlanInv /\ DiskInv /\ OperationInv /\ JournalInv
  BY DEF Core
<1>p. pc \in {"next", "ended"} \cup OpPhases
  BY Zenon DEF Operation, BeginOperation, MakeDirectory, IdentifyDirectory, InstallDirectory, OpenFile,
     FillFile, OpenTemporary, FillTemporary, InstallReplacement, RemoveFlat, VerifyDirectory,
     VerifyFile, VerifyReplacement, VerifyRemoved, RestoreParentMode, EndOperation, OpPhases,
     DirPhases, FilePhases, ReplacePhases
<1>1. manifest.mode # None /\ pc # "crashed"
  BY <1>0, <1>p DEF PlanInv, ApplyPhases, OpPhases, DirPhases, FilePhases, ReplacePhases
<1> SUFFICES WellKept(disk') /\ Spared(disk, disk')
  BY <1>1
<1>2. WellKept(disk)
  BY <1>0, <1>1 DEF WellKept, TypeOK, DiskInv
<1>3. ASSUME disk' = disk PROVE WellKept(disk') /\ Spared(disk, disk')
  BY <1>2, <1>3 DEF Spared
<1>t. ASSUME todo # {}
      PROVE  /\ Target \in Owned /\ Target \in Paths /\ disk[Target] \in Nodes
             /\ Parent[Target] \in Dirs \cup {Root} /\ Parent[Target] \in Paths
             /\ disk[Target].kind = "missing" => disk[Target].text # "foreign"
             /\ Target \in Files => \A q \in DOMAIN Parent : Parent[q] = Target => disk[q].kind = "missing"
  <2>1. Target \in Owned
    BY <1>1, <1>t, TargetFacts
  <2>2. Target \in Files => Target \notin Dirs \cup {Root}
    BY PathSets
  <2>3. Target \in Files => \A q \in DOMAIN Parent : Parent[q] = Target => disk[q].kind = "missing"
    BY <1>2, <2>2, NothingIn DEF WellKept
  <2>4. disk[Target] \in Nodes /\ Target \in Paths
    BY <1>0, <2>1, PathSets DEF TypeOK
  <2>5. disk[Target].kind = "missing" => disk[Target].text # "foreign"
    BY <2>4, ForeignExists
  <2> QED
    BY <2>1, <2>3, <2>4, <2>5, Parents, PathSets
<1>4. CASE BeginOperation
  <2> DEFINE parent == Parent[Target]
  <2>1. \/ disk' = disk
        \/ todo # {} /\ disk[parent].kind = "dir" /\ disk' = [disk EXCEPT ![parent].rw = TRUE]
    BY <1>0, <1>4, BeginOperationShape
  <2>2. ASSUME todo # {}, disk[parent].kind = "dir", disk' = [disk EXCEPT ![parent].rw = TRUE]
        PROVE  WellKept(disk') /\ Spared(disk, disk')
    <3>1. parent \in Paths /\ TRUE \in BOOLEAN
      BY <2>2, <1>t
    <3>2. disk \in [Paths -> Nodes]
      BY <1>0 DEF TypeOK
    <3>3. /\ disk' \in [Paths -> Nodes]
          /\ \A q \in Paths : q # parent => disk'[q] = disk[q]
          /\ \A q \in Paths : disk'[q].kind = disk[q].kind /\ disk'[q].by = disk[q].by
      <4>1. disk' = Opened(disk, parent)
        BY <2>2 DEF Opened
      <4> QED
        <5>1. /\ Opened(disk, parent) \in [Paths -> Nodes]
              /\ \A q \in Paths : q # parent => Opened(disk, parent)[q] = disk[q]
              /\ \A q \in Paths : /\ Opened(disk, parent)[q].kind = disk[q].kind
                                  /\ Opened(disk, parent)[q].by = disk[q].by
          BY ONLY <3>1, <3>2, Widening, Zenon
        <5> QED
          BY <4>1, <5>1
    <3>4. \A q \in Paths : disk[q].kind # "dir" => disk'[q] = disk[q]
      BY <3>3, <2>2
    <3> QED
      BY <1>0, <1>2, <3>3, <3>4, ModeMove
  <2> QED
    BY <1>3, <2>1, <2>2
<1>5. CASE MakeDirectory \/ IdentifyDirectory \/ OpenTemporary \/ FillTemporary \/ Verify
  BY <1>0, <1>3, <1>5, MakeDirectoryShape, IdentifyDirectoryShape, OpenTemporaryShape,
     FillTemporaryShape, VerifyShape
<1>6. ASSUME todo # {}, NEW n \in Nodes, disk' = [disk EXCEPT ![Target] = n],
             n.kind # "missing" => disk[Parent[Target]].kind = "dir",
             IF Target \in Dirs THEN n.kind = "dir" ELSE n.kind # "dir",
             \/ ~Exists(disk, Target)
             \/ AsApproved(Target)
             \/ disk[Target].text = NoText
      PROVE  WellKept(disk') /\ Spared(disk, disk')
  <2>1. Target \in Dirs <=> Target \notin Files
    BY <1>6, <1>t, PathSets
  <2>2. n.kind = "dir" \/ \A q \in DOMAIN Parent : Parent[q] = Target => disk[q].kind = "missing"
    BY <1>6, <1>t, <2>1
  <2>3. Target \in touched /\ disk[Target].text = "foreign" =>
          n = disk[Target] \/ SamePrestate(disk[Target], approved.nodes[Target])
    BY <1>6, <1>t DEF Exists, AsApproved, NoText
  <2> QED
    BY <1>0, <1>2, <1>6, <1>t, <2>1, <2>2, <2>3, PutMove
<1>7. pc \in OpPhases => todo # {} /\ disk[Parent[Target]].kind = "dir"
  BY <1>0 DEF OperationInv
<1>8. CASE InstallDirectory
  <2>1. \/ disk' = disk
        \/ ~Exists(disk, Target) /\ disk' = [disk EXCEPT ![Target] = Wanted]
    BY <1>0, <1>8, InstallDirectoryShape
  <2>2. pc = "dir-named" /\ pc \in OpPhases /\ pc \in DirPhases
    BY <1>0, <1>8, InstallDirectoryShape DEF OpPhases, DirPhases
  <2>3. Kind = "create-directory"
    BY <1>0, <2>2 DEF OperationInv
  <2>4. Target \in Dirs /\ Wanted \in Nodes /\ Wanted.kind = "dir"
    <3>1. Target \in Dirs /\ Wanted \in Nodes /\ Wanted = Dir(TRUE, "apply")
      BY <1>1, <1>7, <2>2, <2>3, TargetFacts
    <3> QED
      BY <3>1, Made, Zenon
  <2> QED
    BY <1>3, <1>6, <1>7, <2>1, <2>2, <2>4
<1>9. CASE OpenFile
  <2>1. \/ disk' = disk
        \/ ~Exists(disk, Target) /\ disk' = [disk EXCEPT ![Target] = File(NoText, "apply")]
    BY <1>0, <1>9, OpenFileShape
  <2>2. Kind = "create-file" /\ pc \in OpPhases
    BY <1>0, <1>9, OpenFileShape DEF OpPhases
  <2>3. Target \notin Dirs /\ File(NoText, "apply") \in Nodes /\ File(NoText, "apply").kind # "dir"
    BY <1>1, <1>7, <2>2, TargetFacts, NodeFacts, Made, PathSets DEF Texts, Makers
  <2> QED
    BY <1>3, <1>6, <1>7, <2>1, <2>2, <2>3
<1>10. CASE FillFile
  <2>1. \/ disk' = disk
        \/ Ours(Target) /\ disk' = [disk EXCEPT ![Target] = Wanted]
        \/ Ours(Target) /\ disk' = [disk EXCEPT ![Target] = File("torn", "apply")]
    BY <1>0, <1>10, FillFileShape
  <2>2. pc = "file-opened" /\ pc \in OpPhases /\ pc \in FilePhases
    BY <1>0, <1>10, FillFileShape DEF OpPhases, FilePhases
  <2>3. Kind = "create-file" /\ (Ours(Target) => disk[Target].text = NoText)
    BY <1>0, <2>2 DEF OperationInv
  <2>4. /\ Target \notin Dirs /\ File("torn", "apply") \in Nodes /\ File("torn", "apply").kind # "dir"
        /\ Wanted \in Nodes /\ Wanted.kind # "dir"
    BY <1>1, <1>7, <2>2, <2>3, TargetFacts, NodeFacts, Made, PathSets DEF Texts, Makers
  <2> QED
    BY <1>3, <1>6, <1>7, <2>1, <2>2, <2>3, <2>4
<1>11. CASE InstallReplacement
  <2>1. \/ disk' = disk
        \/ AsApproved(Target) /\ disk' = [disk EXCEPT ![Target] = Wanted]
    BY <1>0, <1>11, InstallReplacementShape
  <2>2. pc \in OpPhases /\ pc \in ReplacePhases
    BY <1>0, <1>11, InstallReplacementShape DEF OpPhases, ReplacePhases
  <2>3. Kind = "replace-file"
    BY <1>0, <2>2 DEF OperationInv
  <2>4. Target \notin Dirs /\ Wanted \in Nodes /\ Wanted.kind # "dir"
    BY <1>1, <1>7, <2>2, <2>3, TargetFacts, Made, PathSets
  <2> QED
    BY <1>3, <1>6, <1>7, <2>1, <2>2, <2>4
<1>12. CASE RemoveFlat
  <2>1. \/ disk' = disk
        \/ AsApproved(Target) /\ disk' = [disk EXCEPT ![Target] = Missing]
    BY <1>0, <1>12, RemoveFlatShape
  <2>2. pc \in OpPhases /\ Kind = "remove-file"
    BY <1>0, <1>12, RemoveFlatShape DEF OpPhases
  <2>4. Target \notin Dirs /\ Missing \in Nodes /\ Missing.kind = "missing"
    BY <1>1, <1>7, <2>2, TargetFacts, NodeFacts, PathSets DEF Missing, NodeOf
  <2> QED
    BY <1>3, <1>6, <1>7, <2>1, <2>2, <2>4
<1>13. CASE RestoreParentMode
  <2>1. pc = "restoring" /\ disk' \in {disk, Narrowed}
    BY <1>0, <1>13, RestoreParentModeShape
  <2>2. pc \in OpPhases
    BY <2>1 DEF OpPhases
  <2>3. \A i \in ActiveModes : disk[journal[i].path].kind = "dir"
    BY <1>0, <1>7, <2>2 DEF JournalInv, ActiveModes, Active, TypeOK
  <2>4. disk' = Narrowed => WellKept(disk') /\ Spared(disk, disk')
    <3>1. disk \in [Paths -> Nodes]
      BY <1>0 DEF TypeOK
    <3>2. /\ Narrowed \in [Paths -> Nodes]
          /\ \A p \in Paths : Narrowed[p].kind = disk[p].kind /\ Narrowed[p].by = disk[p].by
          /\ \A p \in Paths : disk[p].kind # "dir" => Narrowed[p] = disk[p]
      BY <2>3, <3>1, NarrowedFacts
    <3> QED
      BY <1>0, <1>2, <3>2, ModeMove
  <2> QED
    BY <1>3, <2>1, <2>4
<1>14. CASE EndOperation
  <2>1. disk' = disk \/ (Target = Memory /\ disk' = WithLockFile(disk))
    BY <1>0, <1>14, EndOperationShape
  <2>2. pc = "ended" /\ todo # {}
    BY <1>0, <1>14, EndOperationShape DEF OperationInv
  <2>3. ASSUME Target = Memory PROVE disk[Memory].kind = "dir"
    <3>1. Kind = "create-directory"
      BY <1>1, <2>2, <2>3, TargetFacts, PathSets
    <3> QED
      BY <1>0, <2>2, <2>3, <3>1 DEF OperationInv
  <2>4. File(NoText, "apply") \in Nodes /\ File(NoText, "apply").kind = "file"
    BY NodeFacts, Made DEF Texts, Makers
  <2>5. CASE Target = Memory /\ disk' = WithLockFile(disk)
    BY <1>0, <1>2, <1>3, <2>3, <2>4, <2>5, LockMove DEF WithLockFile
  <2> QED
    BY <1>3, <2>1, <2>5
<1> QED
  BY <1>1, <1>4, <1>5, <1>8, <1>9, <1>10, <1>11, <1>12, <1>13, <1>14 DEF Operation, Verify

(* A directory may be made writable                                        *)
LEMMA OpenMove ==
    ASSUME TypeOK, NEW d, WellKept(d), NEW p \in Paths
    PROVE  WellKept(Opened(d, p)) /\ Spared(d, Opened(d, p))
<1> DEFINE e == Opened(d, p)
<1>1. d \in [Paths -> Nodes]
  BY DEF WellKept
<1>2. /\ e \in [Paths -> Nodes]
      /\ \A q \in Paths : q # p => e[q] = d[q]
      /\ \A q \in Paths : e[q].kind = d[q].kind /\ e[q].by = d[q].by
  BY ONLY <1>1, Widening, p \in Paths, Zenon
<1>3. d[p].kind # "dir" => e[p] = d[p]
  <2>1. e[p] = [d[p] EXCEPT !.rw = TRUE]
    BY <1>1 DEF Opened
  <2>2. d[p] \in Nodes
    BY <1>1
  <2> HIDE DEF e
  <2> QED
    BY <2>1, <2>2, NodeSteps, Zenon
<1> HIDE DEF e
<1>4. \A q \in Paths : d[q].kind # "dir" => e[q] = d[q]
  BY <1>2, <1>3
<1>5. WellKept(e) /\ Spared(d, e)
  BY <1>2, <1>4, ModeMove
<1> QED
  BY <1>5 DEF e

(* ... and read-only.                                                      *)
LEMMA CloseMove ==
    ASSUME TypeOK, NEW d, WellKept(d), NEW p \in Paths, d[p].kind = "dir"
    PROVE  WellKept(Closed(d, p)) /\ Spared(d, Closed(d, p))
<1> DEFINE e == Closed(d, p)
<1>1. d \in [Paths -> Nodes]
  BY DEF WellKept
<1>2. /\ e \in [Paths -> Nodes]
      /\ \A q \in Paths : q # p => e[q] = d[q]
      /\ \A q \in Paths : e[q].kind = d[q].kind /\ e[q].by = d[q].by
  BY ONLY <1>1, Narrowing, p \in Paths, d[p].kind = "dir", Zenon
<1> HIDE DEF e
<1>4. \A q \in Paths : d[q].kind # "dir" => e[q] = d[q]
  BY <1>2
<1>5. WellKept(e) /\ Spared(d, e)
  BY <1>2, <1>4, ModeMove
<1> QED
  BY <1>5 DEF e

(* A file that is put back is one. *)
LEMMA PutBack ==
    ASSUME NEW n \in Nodes, NEW m, m = [n EXCEPT !.by = "apply"]
    PROVE  m.kind = n.kind /\ m.text = n.text /\ m.rw = n.rw
<1>1. n = [kind |-> n.kind, text |-> n.text, rw |-> n.rw, by |-> n.by]
  BY NodeShape
<1>2. ASSUME NEW r, n.rw = r PROVE m.rw = r
  BY <1>1, <1>2
<1> QED
  BY <1>1, <1>2

(* A rollback step removes only what this process made and puts back only  *)
(* what it took away.                                                      *)
LEMMA RecoverDisk ==
    ASSUME Core, RecoverEntry
    PROVE  WellKept(disk') /\ Spared(disk, disk')
<1> DEFINE e == Last(journal)
<1>0. TypeOK /\ PlanInv /\ DiskInv
  BY DEF Core
<1>1. pc = "recovering" /\ manifest.mode # None
  BY <1>0, RecoverEntryShape DEF PlanInv, ApplyPhases
<1>2. e \in EntryType /\ EntryOK(e)
  BY RecoverEffect
<1>3. PICK n \in Nodes :
        /\ UndoneAt(e, n)
        /\ \/ disk' = [disk EXCEPT ![e.path] = n]
           \/ /\ e.path \in Owned
              /\ disk' = [[disk EXCEPT ![e.path] = n] EXCEPT ![Parent[e.path]].rw = TRUE]
  BY RecoverEffect, Zenon
<1>4. WellKept(disk) /\ disk \in [Paths -> Nodes] /\ e.path \in Paths /\ e.original \in Nodes
  BY <1>0, <1>2 DEF WellKept, TypeOK, DiskInv, EntryType
<1> DEFINE d == [disk EXCEPT ![e.path] = n]
<1>5. WellKept(d) /\ Spared(disk, d)
  <2> HIDE DEF e
  <2>0. disk[e.path] \in Nodes
    BY <1>4
  <2>1. CASE n = disk[e.path]
    <3>1. d = disk
      BY <1>4, <2>1
    <3> QED
      BY <1>4, <3>1 DEF Spared
  <2>2. CASE e.kind = "mode" /\ disk[e.path].kind = "dir" /\ n = [disk[e.path] EXCEPT !.rw = FALSE]
    <3>1. d = Closed(disk, e.path)
      BY <1>4, <2>2 DEF Closed
    <3> HIDE DEF d
    <3> QED
      BY <1>0, <1>4, <2>2, <3>1, CloseMove
  <2>f. /\ e.kind \in {"file", "replaced", "removed"} => e.path \in Files
        /\ e.kind = "dir" => e.path \in Dirs
        /\ e.kind # "mode" => e.path \in Owned /\ manifest.candidate[e.path].text # "foreign"
        /\ e.kind = "removed" => e.original.kind = "file"
    BY <1>0, <1>1, <1>2, EntryFacts
  <2>n. e.path \in Files => \A q \in DOMAIN Parent : Parent[q] = e.path => disk[q].kind = "missing"
    <3>1. e.path \in Files => e.path \notin Dirs \cup {Root}
      BY PathSets
    <3> QED
      BY <1>4, <3>1, NothingIn DEF WellKept
  <2>m. Missing.kind = "missing"
    BY DEF Missing, NodeOf
  <2>3. CASE e.kind = "file" /\ disk[e.path].text # "foreign" /\ n = Missing
    <3>1. e.path \in Owned /\ e.path \in Files /\ e.path \notin Dirs
      BY <2>3, <2>f, PathSets
    <3> QED
      BY <1>0, <1>4, <2>3, <2>n, <2>m, <3>1, PutMove
  <2>4. CASE e.kind = "dir" /\ Ours(e.path) /\ Entries(e.path) = {} /\ n = Missing
    <3>1. e.path \in Owned /\ e.path \in Dirs /\ e.path \notin Files
      BY <2>4, <2>f, PathSets
    <3>2. disk[e.path].text # "foreign"
      BY <1>0, <2>0, <2>4, <3>1, ForeignExists DEF DiskInv, Ours
    <3>3. \A q \in DOMAIN Parent : Parent[q] = e.path => disk[q].kind = "missing"
      BY <2>4 DEF Entries, Exists
    <3>4. n.by # "apply"
      BY <2>4 DEF Missing, NodeOf, Nobody
    <3> QED
      BY <1>0, <1>4, <2>4, <2>m, <3>1, <3>2, <3>3, <3>4, PutMove
  <2>5. CASE /\ e.kind = "replaced" /\ disk[e.path] = manifest.candidate[e.path]
             /\ e.original.kind = "file" /\ n = [e.original EXCEPT !.by = "apply"]
    <3>1. e.path \in Owned /\ e.path \in Files /\ e.path \notin Dirs
      BY <2>5, <2>f, PathSets
    <3>2. n.kind = "file"
      BY <1>4, <2>5, PutBack
    <3>3. disk[e.path].kind = "file"
      <4>1. manifest.kinds[e.path] = "replace-file"
        BY <1>2, <2>5 DEF EntryOK
      <4>2. manifest.candidate[e.path] = DesiredFile(manifest.candidate[e.path].text)
        BY <1>0, <1>1, <3>1, <4>1 DEF PlanInv, Planned, PlannedPath, PlanOf
      <4> QED
        BY <2>5, <4>2, Made
    <3>4. disk[Parent[e.path]].kind = "dir"
      BY <1>4, <3>1, <3>3, Parents DEF WellKept, Tree
    <3> QED
      BY <1>0, <1>4, <2>5, <2>f, <2>n, <3>1, <3>2, <3>4, PutMove, ZenonT(30)
  <2>6. CASE /\ e.kind = "removed" /\ ~Exists(disk, e.path) /\ disk[Parent[e.path]].kind = "dir"
             /\ n \in {[e.original EXCEPT !.by = "apply"], File("torn", "apply")}
    <3>1. e.path \in Owned /\ e.path \in Files /\ e.path \notin Dirs
      BY <2>6, <2>f, PathSets
    <3>2. n.kind = "file"
      BY <1>4, <2>6, <2>f, PutBack, Made
    <3>3. disk[e.path].text # "foreign"
      BY <2>0, <2>6, ForeignExists DEF Exists
    <3> QED
      BY <1>0, <1>4, <2>6, <2>n, <3>1, <3>2, <3>3, PutMove
  <2> QED
    BY <1>3, <2>1, <2>2, <2>3, <2>4, <2>5, <2>6 DEF UndoneAt
<1>6. CASE disk' = d
  BY <1>5, <1>6
<1>7. CASE e.path \in Owned /\ disk' = [d EXCEPT ![Parent[e.path]].rw = TRUE]
  <2>1. Parent[e.path] \in Paths
    BY <1>7, Parents, PathSets
  <2>2. disk' = Opened(d, Parent[e.path])
    BY <1>7 DEF Opened
  <2> HIDE DEF d, e
  <2>3. WellKept(disk') /\ Spared(d, disk')
    BY <1>0, <1>5, <2>1, <2>2, OpenMove
  <2> QED
    BY <1>5, <2>3, Spares
<1> QED
  BY <1>3, <1>6, <1>7

(* No command breaks the tree or touches somebody else's work.             *)
LEMMA CommandDisk ==
    ASSUME Core, Command
    PROVE  WellKept(disk') /\ Spared(disk, disk')
<1>0. TypeOK /\ PlanInv /\ DiskInv /\ OperationInv /\ JournalInv /\ WellKept(disk)
  BY DEF Core, WellKept, TypeOK, DiskInv
<1>1. ASSUME disk' = disk PROVE WellKept(disk') /\ Spared(disk, disk')
  BY <1>0, <1>1 DEF Spared
<1>2. CASE Inspect \/ Plan \/ CreateCandidateDir \/ CloseCandidateDir \/ ApplyStart \/ CheckPrestates
  BY <1>0, <1>1, <1>2, InspectShape, PlanShape, CandidateDirShape, ApplyStartShape,
     CheckPrestatesShape
<1>3. CASE Validate \/ Revalidate \/ Classify
  BY <1>0, <1>1, <1>3, ValidateShape, RevalidateShape, ClassifyShape
<1>4. CASE AcquireExistingLock
  <2>1. disk' = disk \/ (disk[Memory].kind = "dir" /\ disk' = WithLockFile(disk))
    BY <1>0, <1>4, AcquireExistingLockShape
  <2>2. File(NoText, "apply") \in Nodes /\ File(NoText, "apply").kind = "file"
    BY NodeFacts, Made DEF Texts, Makers
  <2>3. CASE disk[Memory].kind = "dir" /\ disk' = WithLockFile(disk)
    BY <1>0, <1>1, <2>2, <2>3, LockMove DEF WithLockFile
  <2> QED
    BY <1>1, <2>1, <2>3
<1>5. CASE HandleFailure
  <2>1. disk' = disk \/ disk' = [disk EXCEPT ![Lock] = Missing]
    BY <1>0, <1>5, HandleFailureShape
  <2>2. Missing \in Nodes /\ Missing.kind = "missing"
    BY NodeFacts DEF Missing, NodeOf
  <2>3. CASE disk' = [disk EXCEPT ![Lock] = Missing]
    BY <1>0, <2>2, <2>3, LockMove
  <2> QED
    BY <1>1, <2>1, <2>3
<1> QED
  BY <1>2, <1>3, <1>4, <1>5, OperationDisk, RecoverDisk DEF Command, ApplyCommand

(* An edit leaves a tree.                                                  *)
LEMMA EditDisk ==
    ASSUME Core, NEW p \in EditPaths, Edit(p)
    PROVE  WellKept(disk')
<1>0. TypeOK /\ DiskInv /\ WellKept(disk) /\ disk \in [Paths -> Nodes]
  BY DEF Core, WellKept, TypeOK, DiskInv
<1>1. /\ p \in Owned /\ p \in Paths /\ disk[Parent[p]].kind = "dir"
      /\ disk[p].kind = "dir" => Entries(p) = {}
  BY <1>0, EditShape, PathSets
<1>2. PICK n \in Nodes : /\ disk' = [disk EXCEPT ![p] = n] /\ n.kind # "dir"
                         /\ n.by = "apply" => disk[p].kind = "file" /\ disk[p].by = "apply"
  BY <1>0, EditShape
<1>3. \A q \in DOMAIN Parent : Parent[q] = p => disk[q].kind = "missing"
  <2>1. CASE disk[p].kind = "dir"
    BY <1>1, <2>1 DEF Entries, Exists
  <2>2. CASE disk[p].kind # "dir"
    BY <1>0, <2>2, NothingIn DEF WellKept
  <2> QED
    BY <2>1, <2>2
<1>4. p \in Dirs /\ n.by = "apply" => n.kind = "dir"
  BY <1>0, <1>2 DEF DiskInv
<1> QED
  BY <1>0, <1>1, <1>2, <1>3, <1>4, PutMove

-----------------------------------------------------------------------------
(* The core of the invariant is inductive. *)

(* The repository stays a tree of nodes.                                   *)
LEMMA DiskStep ==
    ASSUME Core, Next
    PROVE  /\ disk' \in [Paths -> Nodes] /\ head' \in [Paths -> Nodes]
           /\ DiskInv'
<1>0. TypeOK /\ DiskInv /\ PlanInv
  BY DEF Core
<1>1. CASE Command
  <2>1. WellKept(disk')
    BY <1>1, CommandDisk
  <2>2. head' = head
    <3>1. CASE RecoverEntry
      BY <1>0, <3>1, RecoverEntryShape
    <3>2. CASE Operation
      BY <1>0, <3>2, BeginOperationShape, MakeDirectoryShape, IdentifyDirectoryShape,
         InstallDirectoryShape, OpenFileShape, FillFileShape, OpenTemporaryShape,
         FillTemporaryShape, InstallReplacementShape, RemoveFlatShape, VerifyShape,
         RestoreParentModeShape, EndOperationShape, Steady DEF Operation, Verify
    <3>3. CASE \/ ApplyStart \/ AcquireExistingLock \/ CheckPrestates
               \/ Validate \/ Revalidate \/ HandleFailure \/ Classify
      BY <1>0, <3>3, ApplyStartShape, AcquireExistingLockShape, CheckPrestatesShape, ValidateShape,
         RevalidateShape, HandleFailureShape, ClassifyShape, Steady
    <3>4. CASE Inspect \/ Plan \/ CreateCandidateDir \/ CloseCandidateDir
      BY <1>0, <3>4, InspectShape, PlanShape, CandidateDirShape
    <3> QED
      BY <1>1, <3>1, <3>2, <3>3, <3>4 DEF Command, ApplyCommand
  <2>3. manifest'.mode # None => manifest.mode # None \/ \A p \in Files : disk'[p].kind # "dir"
    <3>1. CASE Plan
      BY <1>0, <3>1, PlanShape
    <3>2. CASE ~Plan
      <4>1. manifest' = manifest
        BY <1>1, <3>2 DEF Command, ApplyCommand, Inspect, CreateCandidateDir, CloseCandidateDir, ApplyStart,
           AcquireExistingLock, CheckPrestates, Operation, Validate, Revalidate, HandleFailure,
           RecoverEntry, Classify, OperationFrame, BeginOperation, MakeDirectory, IdentifyDirectory,
           InstallDirectory, OpenFile, FillFile, OpenTemporary, FillTemporary, InstallReplacement,
           RemoveFlat, VerifyDirectory, VerifyFile, VerifyReplacement, VerifyRemoved, VerifyIs,
           RestoreParentMode, EndOperation
      <4> QED
        BY <4>1
    <3> QED
      BY <3>1, <3>2
  <2>4. pc # "crashed"
    BY <1>1 DEF Command, ApplyCommand, Inspect, Plan, CreateCandidateDir, CloseCandidateDir, ApplyStart,
       AcquireExistingLock, CheckPrestates, Operation, Validate, Revalidate, HandleFailure,
       RecoverEntry, Classify, OperationFrame, BeginOperation, MakeDirectory, IdentifyDirectory,
       InstallDirectory, OpenFile, FillFile, OpenTemporary, FillTemporary, InstallReplacement,
       RemoveFlat, VerifyDirectory, VerifyFile, VerifyReplacement, VerifyRemoved, VerifyIs,
       RestoreParentMode, EndOperation
  <2> QED
    BY <1>0, <2>1, <2>2, <2>3, <2>4 DEF WellKept, DiskInv, TypeOK
<1>2. ASSUME NEW p \in EditPaths, Edit(p) PROVE disk' \in [Paths -> Nodes] /\ head' \in [Paths -> Nodes] /\ DiskInv'
  <2>1. WellKept(disk') /\ UNCHANGED <<head, manifest, pc>> /\ pc # "crashed"
    BY <1>0, <1>2, EditDisk, EditShape
  <2> QED
    BY <1>0, <2>1 DEF WellKept, DiskInv, TypeOK
<1>3. CASE Crash
  BY <1>0, <1>3, CrashShape DEF DiskInv, TypeOK
<1>4. CASE StartOver
  <2>1. manifest'.mode = None
    BY <1>0, <1>4, StartOverShape DEF NoManifest
  <2> QED
    BY <1>0, <1>4, <2>1, StartOverShape, PathSets DEF DiskInv
<1> QED
  BY <1>1, <1>2, <1>3, <1>4 DEF Next

(* What a step of an operation leaves in the temporaries and the journal.  *)
LEMMA OperationTypes ==
    ASSUME Core, Operation
    PROVE  /\ temps' \in [Owned -> Texts \cup {None, "dir"}] /\ journal' \in Seq(EntryType)
           /\ pc' \in Phases /\ report' \in ReportType /\ faults' \in Nat
           /\ locked' \in BOOLEAN /\ madeLock' \in BOOLEAN /\ lockSeen' \in Nodes
           /\ todo' \in SUBSET Owned
           /\ UNCHANGED <<stale, case, manifest, touched>>
<1>0. TypeOK /\ PlanInv /\ OperationInv /\ JournalInv
  BY DEF Core
<1>1. /\ temps \in [Owned -> Texts \cup {None, "dir"}] /\ journal \in Seq(EntryType)
      /\ report \in ReportType /\ faults \in Nat /\ locked \in BOOLEAN /\ madeLock \in BOOLEAN
      /\ lockSeen \in Nodes /\ todo \in SUBSET Owned
  BY <1>0 DEF TypeOK
<1>p. pc \in {"next", "ended"} \cup OpPhases
  BY Zenon DEF Operation, BeginOperation, MakeDirectory, IdentifyDirectory, InstallDirectory, OpenFile,
     FillFile, OpenTemporary, FillTemporary, InstallReplacement, RemoveFlat, VerifyDirectory,
     VerifyFile, VerifyReplacement, VerifyRemoved, RestoreParentMode, EndOperation, OpPhases,
     DirPhases, FilePhases, ReplacePhases
<1>t. manifest.mode # None /\ todo # {}
  <2>1. BeginOperation => todo # {}
    BY <1>0, BeginOperationShape
  <2>2. pc = "next" => BeginOperation
    BY DEF Operation, BeginOperation, MakeDirectory, IdentifyDirectory, InstallDirectory, OpenFile,
     FillFile, OpenTemporary, FillTemporary, InstallReplacement, RemoveFlat, VerifyDirectory,
     VerifyFile, VerifyReplacement, VerifyRemoved, RestoreParentMode, EndOperation
  <2> QED
    BY <1>0, <1>p, <2>1, <2>2 DEF PlanInv, OperationInv, ApplyPhases, OpPhases, DirPhases, FilePhases,
       ReplacePhases
<1>2. Target \in Owned /\ Wanted.text \in Texts
  <2>1. Target \in Owned /\ Wanted \in Nodes
    BY <1>t, TargetFacts
  <2> QED
    BY <2>1, NodeShape
<1>3. \A x \in Texts \cup {None, "dir"} :
         [temps EXCEPT ![Target] = x] \in [Owned -> Texts \cup {None, "dir"}]
  BY <1>1
<1>4. NoText \in Texts /\ "torn" \in Texts
  BY DEF Texts
<1>5. /\ \A e \in EntryType : Append(journal, e) \in Seq(EntryType)
      /\ LastState("temporary") \in Seq(EntryType) /\ LastState("installed") \in Seq(EntryType)
  BY <1>1, JournalTypes
<1>6. /\ Widened(Parent[Target]) \in EntryType
      /\ Entry("dir", "unknown", Missing) \in EntryType
      /\ Entry("file", "identified", Missing) \in EntryType
      /\ Entry("file", "unidentified", Missing) \in EntryType
      /\ Entry("replaced", "identified", disk[Target]) \in EntryType
      /\ Entry("replaced", "unidentified", disk[Target]) \in EntryType
      /\ Entry("removed", "removed", disk[Target]) \in EntryType
  <2>1. Parent[Target] \in Paths
    BY <1>2, Parents, PathSets
  <2> QED
    BY <1>0, <1>2, <2>1, EntryTypes
<1>7. /\ {"operation", "dir-made", "dir-named", "dir-installed", "file-opened", "file-filled",
          "temp-opened", "temp-filled", "replaced", "unlinked", "restoring", "ended", "failed",
          "next"} \subseteq Phases
  BY DEF Phases, ApplyPhases, OpPhases, DirPhases, FilePhases, ReplacePhases
<1>8. \A n : Goes(n) => pc' = n /\ report' \in ReportType /\ faults' \in Nat
  BY <1>1 DEF Goes
<1>9. \A n, x : Slips(n, x) => pc' = n /\ report' \in ReportType /\ faults' \in Nat
  BY <1>1 DEF Slips, Excused
<1>10. OperationFrame => /\ locked' \in BOOLEAN /\ madeLock' \in BOOLEAN /\ lockSeen' \in Nodes
                         /\ todo' \in SUBSET Owned /\ UNCHANGED <<stale, case, manifest, touched>>
  BY <1>1, Steady DEF OperationFrame
<1> HIDE DEF Phases, ReportType, EntryType
<1>11. CASE BeginOperation
  BY <1>0, <1>1, <1>5, <1>6, <1>7, <1>8, <1>9, <1>10, <1>11, BeginOperationShape
<1>12. CASE MakeDirectory
  BY <1>0, <1>1, <1>3, <1>5, <1>6, <1>7, <1>8, <1>9, <1>10, <1>12, MakeDirectoryShape
<1>13. CASE IdentifyDirectory
  BY <1>0, <1>1, <1>5, <1>7, <1>8, <1>9, <1>10, <1>13, IdentifyDirectoryShape
<1>14. CASE InstallDirectory
  BY <1>0, <1>1, <1>3, <1>5, <1>7, <1>8, <1>9, <1>10, <1>14, InstallDirectoryShape
<1>15. CASE OpenFile
  BY <1>0, <1>1, <1>5, <1>6, <1>7, <1>8, <1>9, <1>10, <1>15, OpenFileShape
<1>16. CASE FillFile
  BY <1>0, <1>1, <1>7, <1>8, <1>9, <1>10, <1>16, FillFileShape
<1>17. CASE OpenTemporary
  BY <1>0, <1>1, <1>3, <1>4, <1>5, <1>6, <1>7, <1>8, <1>9, <1>10, <1>17, OpenTemporaryShape
<1>18. CASE FillTemporary
  BY <1>0, <1>1, <1>2, <1>3, <1>4, <1>7, <1>8, <1>9, <1>10, <1>18, FillTemporaryShape
<1>19. CASE InstallReplacement
  BY <1>0, <1>1, <1>3, <1>5, <1>7, <1>8, <1>9, <1>10, <1>19, InstallReplacementShape
<1>20. CASE RemoveFlat
  BY <1>0, <1>1, <1>5, <1>6, <1>7, <1>8, <1>9, <1>10, <1>20, RemoveFlatShape
<1>21. CASE Verify
  BY <1>0, <1>1, <1>7, <1>8, <1>9, <1>10, <1>21, VerifyShape
<1>22. CASE RestoreParentMode
  <2>1. Settled \in Seq(EntryType)
    <3>1. Settled = [i \in 1..Len(journal) |-> Settled[i]] /\ DOMAIN Settled = 1..Len(journal)
      BY DEF Settled
    <3>2. ASSUME NEW i \in 1..Len(journal) PROVE Settled[i] \in EntryType
      <4>1. journal[i] \in EntryType
        BY <1>1
      <4>2. [journal[i] EXCEPT !.state = "settled"] \in EntryType
        BY <4>1 DEF EntryType
      <4> QED
        BY <4>1, <4>2 DEF Settled
    <3> QED
      BY <1>1, <3>1, <3>2, JournalTypes
  <2> QED
    BY <1>0, <1>1, <1>7, <1>8, <1>9, <1>10, <1>22, <2>1, RestoreParentModeShape
<1>23. CASE EndOperation
  <2>1. todo' \in SUBSET Owned /\ UNCHANGED <<temps, journal, stale, case, manifest, touched>>
    BY <1>0, <1>1, <1>23, EndOperationShape
  <2>2. pc' \in Phases /\ report' \in ReportType /\ faults' \in Nat
    BY <1>0, <1>7, <1>8, <1>9, <1>23, EndOperationShape
  <2>3. locked' \in BOOLEAN /\ madeLock' \in BOOLEAN
    BY <1>0, <1>1, <1>23, EndOperationShape
  <2>4. lockSeen' \in Nodes
    <3>1. disk'[Lock] \in Nodes
      BY DiskStep, PathSets DEF Next, Command, ApplyCommand
    <3> QED
      BY <1>0, <1>1, <1>23, <3>1, EndOperationShape
  <2> QED
    BY <1>1, <2>1, <2>2, <2>3, <2>4
<1> QED
  BY <1>11, <1>12, <1>13, <1>14, <1>15, <1>16, <1>17, <1>18, <1>19, <1>20, <1>21, <1>22, <1>23
     DEF Operation, Verify

(* The types are kept.                                                     *)
LEMMA TypeStep ==
    ASSUME Core, Next
    PROVE  TypeOK'
<1>0. TypeOK /\ PlanInv /\ DiskInv
  BY DEF Core
<1>1. disk' \in [Paths -> Nodes] /\ head' \in [Paths -> Nodes]
  BY DiskStep
<1>2. \A n \in Phases : Goes(n) => pc' \in Phases /\ report' \in ReportType /\ faults' \in Nat
  BY <1>0 DEF Goes, TypeOK
<1>3. \A n \in Phases : \A x : Slips(n, x) => pc' \in Phases /\ report' \in ReportType /\ faults' \in Nat
  BY <1>0 DEF Slips, Excused, TypeOK
<1>4. \A l, x : Refuses(l, x) => pc' \in Phases /\ report' \in ReportType /\ faults' \in Nat /\ locked' = FALSE
  BY <1>0 DEF Refuses, Excused, TypeOK, Phases
<1>5. {"inspected", "stage1", "staged1", "stage2", "staged2", "planned", "lock", "check", "next",
       "failed", "revalidating", "done", "recovering", "crashed", "idle"} \subseteq Phases
  BY DEF Phases, EarlyPhases, ApplyPhases
<1>6. CASE Operation
  BY <1>0, <1>1, <1>6, OperationTypes DEF TypeOK
<1> HIDE DEF Phases, ReportType, EntryType
<1>7. CASE Inspect
  BY <1>0, <1>1, <1>2, <1>4, <1>5, <1>7, InspectShape DEF TypeOK
<1>8. CASE Plan
  BY <1>0, <1>1, <1>2, <1>4, <1>5, <1>8, PlanShape DEF TypeOK
<1>9. CASE CreateCandidateDir \/ CloseCandidateDir
  <2>1. pc' \in Phases /\ report' \in ReportType /\ faults' \in Nat /\ locked' \in BOOLEAN
    <3>1. Leaves => pc' = "done" /\ report' \in ReportType /\ faults' \in Nat /\ locked' = locked
      BY <1>0 DEF TypeOK, Leaves, Excused
    <3>2. report \in ReportType /\ faults \in Nat /\ locked \in BOOLEAN
      BY <1>0 DEF TypeOK
    <3>3. CASE Leaves
      BY <1>5, <3>1, <3>2, <3>3
    <3>4. CASE \E l, x : Refuses(l, x)
      BY <1>4, <3>4
    <3>5. CASE /\ report' = report /\ faults' = faults /\ locked' = locked
               /\ pc' \in {"staged1", "staged2", "stage2", "planned"}
      BY <1>5, <3>2, <3>5
    <3> QED
      BY <1>0, <1>9, <3>3, <3>4, <3>5, CandidateDirShape
  <2> QED
    BY <1>0, <1>1, <1>9, <2>1, CandidateDirShape DEF TypeOK
<1>10. CASE ApplyStart
  BY <1>0, <1>1, <1>2, <1>4, <1>5, <1>10, ApplyStartShape DEF TypeOK
<1>11. CASE AcquireExistingLock
  BY <1>0, <1>1, <1>2, <1>4, <1>5, <1>11, AcquireExistingLockShape DEF TypeOK
<1>12. CASE CheckPrestates
  <2>1. Lock \in Paths /\ disk[Lock] \in Nodes
    BY <1>0, PathSets DEF TypeOK
  <2> QED
    BY <1>0, <1>1, <1>2, <1>4, <1>5, <1>12, <2>1, CheckPrestatesShape DEF TypeOK
<1>13. CASE Validate
  BY <1>0, <1>1, <1>2, <1>3, <1>5, <1>13, ValidateShape, Steady DEF TypeOK, OperationFrame
<1>14. CASE Revalidate
  <2>1. CASE Slips("failed", ~FinalStateApproved) /\ locked' = locked
    BY <1>0, <1>1, <1>3, <1>5, <1>14, <2>1, RevalidateShape DEF TypeOK
  <2>2. CASE /\ faults' = faults /\ pc' = "done" /\ locked' = FALSE
             /\ report' = [ok |-> TRUE, class |-> "success", layout |-> manifest.mode,
                           unresolved |-> {}]
    <3>1. report' \in ReportType
      BY <1>0, <2>2 DEF TypeOK, ReportType
    <3> QED
      BY <1>0, <1>1, <1>5, <1>14, <2>2, <3>1, RevalidateShape DEF TypeOK
  <2> QED
    BY <1>0, <1>14, <2>1, <2>2, RevalidateShape
<1>15. CASE HandleFailure
  <2>1. faults' \in Nat
    <3>1. faults \in Nat
      BY <1>0 DEF TypeOK
    <3>2. faults' = faults \/ faults' = faults + 1
      BY <1>0, <1>15, HandleFailureShape
    <3> QED
      BY ONLY <3>1, <3>2
  <2>2. locked' \in BOOLEAN /\ lockSeen' \in Nodes /\ pc' \in Phases
    BY <1>0, <1>5, <1>15, HandleFailureShape, NodeFacts DEF TypeOK
  <2> QED
    BY <1>0, <1>1, <1>15, <2>1, <2>2, HandleFailureShape DEF TypeOK
<1>16. CASE RecoverEntry
  <2>1. journal' \in Seq(EntryType)
    BY <1>0, <1>16, RecoverEntryShape, JournalTypes DEF TypeOK
  <2>2. temps' \in [Owned -> Texts \cup {None, "dir"}] /\ report' \in ReportType
    BY <1>16, RecoverEffect
  <2> QED
    BY <1>0, <1>1, <1>5, <1>16, <2>1, <2>2, RecoverEntryShape DEF TypeOK
<1>17. CASE Classify
  <2>1. faults' \in Nat
    <3>1. faults \in Nat
      BY <1>0 DEF TypeOK
    <3>2. faults' = faults \/ faults' = faults + 1
      BY <1>0, <1>17, ClassifyShape
    <3> QED
      BY ONLY <3>1, <3>2
  <2>2. locked' \in BOOLEAN /\ report' \in ReportType /\ pc' \in Phases
    BY <1>0, <1>5, <1>17, ClassifyShape
  <2> QED
    BY <1>0, <1>1, <1>17, <2>1, <2>2, ClassifyShape DEF TypeOK
<1>18. ASSUME NEW p \in EditPaths, Edit(p) PROVE TypeOK'
  BY <1>0, <1>1, <1>18, EditShape DEF TypeOK
<1>19. NoTemps \in [Owned -> Texts \cup {None, "dir"}] /\ <<>> \in Seq(EntryType)
  BY DEF NoTemps
<1>20. CASE Crash
  <2>1. NoReport \in ReportType
    BY <1>0, ReportTypes DEF TypeOK
  <2> QED
    BY <1>0, <1>1, <1>5, <1>19, <1>20, <2>1, CrashShape DEF TypeOK
<1>21. CASE StartOver
  <2>1. NoManifest \in [mode : {None, "minimal", "full"}, kinds : [Owned -> OperationKinds],
                        candidate : [Owned -> Nodes]]
    BY NodeFacts DEF NoManifest, OperationKinds
  <2> QED
    BY <1>0, <1>1, <1>5, <1>21, <2>1, NodeFacts, StartOverShape DEF TypeOK
<1> QED
  BY <1>6, <1>7, <1>8, <1>9, <1>10, <1>11, <1>12, <1>13, <1>14, <1>15, <1>16, <1>17, <1>18, <1>20, <1>21
     DEF Next, Command, ApplyCommand

(* What was approved and planned stays until another run.                  *)
LEMMA PlanFrame ==
    ASSUME Core, Next
    PROVE  \/ Inspect \/ Plan \/ StartOver
           \/ /\ UNCHANGED <<approved, manifest>>
              /\ pc' \in {"done", "crashed"} \/ pc' = pc
                 \/ (pc \in EarlyPhases \cup ApplyPhases /\ pc' \in EarlyPhases \cup ApplyPhases)
<1>0. TypeOK
  BY DEF Core
<1>1. /\ {"stage1", "staged1", "stage2", "staged2", "planned", "lock", "check"} \subseteq EarlyPhases
      /\ OpPhases \cup {"next", "failed", "recovering", "ended", "revalidating"} \subseteq ApplyPhases
      /\ {"operation", "dir-made", "dir-named", "dir-installed", "file-opened", "file-filled",
          "temp-opened", "temp-filled", "replaced", "unlinked", "restoring"} \subseteq OpPhases
  BY DEF EarlyPhases, ApplyPhases, OpPhases, DirPhases, FilePhases, ReplacePhases
<1>2. \A n, x : (Goes(n) => pc' = n) /\ (Slips(n, x) => pc' = n) /\ (Refuses(n, x) => pc' = "done")
                /\ (Leaves => pc' = "done")
  BY DEF Goes, Slips, Refuses, Leaves
<1> HIDE DEF Phases
<1>3. CASE CreateCandidateDir \/ CloseCandidateDir
  BY <1>0, <1>1, <1>2, <1>3, CandidateDirShape
<1>4. CASE ApplyStart \/ AcquireExistingLock \/ CheckPrestates
  BY <1>0, <1>1, <1>2, <1>4, ApplyStartShape, AcquireExistingLockShape, CheckPrestatesShape
<1>5. CASE Validate \/ Revalidate \/ HandleFailure
  BY <1>0, <1>1, <1>2, <1>5, ValidateShape, RevalidateShape, HandleFailureShape, Steady
<1>6. CASE RecoverEntry \/ Classify
  BY <1>0, <1>1, <1>6, RecoverEntryShape, ClassifyShape
<1>7. CASE BeginOperation \/ MakeDirectory \/ IdentifyDirectory \/ InstallDirectory
  BY <1>0, <1>1, <1>2, <1>7, BeginOperationShape, MakeDirectoryShape, IdentifyDirectoryShape,
     InstallDirectoryShape, Steady
<1>8. CASE OpenFile \/ FillFile \/ OpenTemporary \/ FillTemporary
  BY <1>0, <1>1, <1>2, <1>8, OpenFileShape, FillFileShape, OpenTemporaryShape, FillTemporaryShape, Steady
<1>9. CASE InstallReplacement \/ RemoveFlat \/ Verify
  BY <1>0, <1>1, <1>2, <1>9, InstallReplacementShape, RemoveFlatShape, VerifyShape, Steady
<1>10. CASE RestoreParentMode \/ EndOperation
  <2>1. CASE RestoreParentMode
    BY <1>0, <1>1, <1>2, <2>1, RestoreParentModeShape, Steady
  <2>2. CASE EndOperation
    BY <1>0, <1>1, <1>2, <2>2, EndOperationShape
  <2> QED
    BY <1>10, <2>1, <2>2
<1>11. ASSUME NEW p \in EditPaths, Edit(p) PROVE UNCHANGED <<approved, manifest>> /\ pc' = pc
  BY <1>0, <1>11, EditShape
<1>12. CASE Crash
  BY <1>0, <1>12, CrashShape
<1> QED
  BY <1>3, <1>4, <1>5, <1>6, <1>7, <1>8, <1>9, <1>10, <1>11, <1>12
     DEF Next, Command, ApplyCommand, Operation, Verify

(* The plan holds together over every step.                                *)
LEMMA PlanInvStep ==
    ASSUME Core, Next
    PROVE  PlanInv'
<1>0. TypeOK /\ PlanInv /\ disk \in [Paths -> Nodes]
  BY DEF Core, TypeOK
<1>1. /\ "idle" \notin EarlyPhases \cup ApplyPhases /\ "inspected" \notin EarlyPhases \cup ApplyPhases
      /\ "done" \notin EarlyPhases \cup ApplyPhases /\ "crashed" \notin EarlyPhases \cup ApplyPhases
      /\ "stage1" \in EarlyPhases
  BY DEF EarlyPhases, ApplyPhases, OpPhases, DirPhases, FilePhases, ReplacePhases
<1>2. CASE Inspect
  <2>1. pc = "idle" /\ manifest' = manifest /\ manifest.mode = None
    BY <1>0, <1>2, InspectShape DEF PlanInv
  <2>2. \/ pc' = "inspected" /\ approved' = Snapshot
        \/ pc' = "done"
    BY <1>0, <1>2, InspectShape DEF Goes, Refuses
  <2>3. Snapshot.nodes \in [Paths -> SeenNodes]
    BY <1>0, PrestateFacts DEF Snapshot
  <2> QED
    BY <1>0, <1>1, <2>1, <2>2, <2>3 DEF PlanInv
<1>3. CASE Plan
  <2>1. \/ pc' = "stage1" /\ manifest'.mode # None /\ Planned'
        \/ pc' = "done" /\ manifest' = manifest /\ approved' = approved
    BY <1>0, <1>3, PlanShape DEF Goes, Refuses, None
  <2>2. pc = "inspected" /\ manifest.mode = None
    BY <1>0, <1>3, PlanShape DEF PlanInv
  <2> QED
    BY <1>0, <1>1, <2>1, <2>2 DEF PlanInv
<1>4. CASE StartOver
  <2>1. pc' = "idle" /\ manifest' = NoManifest
    BY <1>0, <1>4, StartOverShape DEF Core
  <2> QED
    BY <1>1, <2>1 DEF PlanInv, NoManifest
<1>5. CASE /\ UNCHANGED <<approved, manifest>>
           /\ pc' \in {"done", "crashed"} \/ pc' = pc
                 \/ (pc \in EarlyPhases \cup ApplyPhases /\ pc' \in EarlyPhases \cup ApplyPhases)
  <2>1. Planned => Planned'
    BY <1>5 DEF Planned, PlannedPath, PlanOf
  <2> QED
    BY <1>0, <1>1, <1>5, <2>1 DEF PlanInv
<1> QED
  BY <1>2, <1>3, <1>4, <1>5, PlanFrame

(* Before the first operation nobody makes or removes a directory.         *)
LEMMA DirsStep ==
    ASSUME Core, Next
    PROVE  DirsInv'
<1>0. TypeOK /\ DirsInv /\ disk \in [Paths -> Nodes] /\ \A d \in Dirs : d \in Paths
  BY PathSets DEF Core, TypeOK
<1> DEFINE early == EarlyPhases \cup {"inspected"}
<1>1. /\ "idle" \notin early /\ "done" \notin early /\ "crashed" \notin early
      /\ early \cap ApplyPhases = {} /\ "next" \in ApplyPhases
      /\ {"stage1", "stage2", "staged1", "staged2", "planned", "lock", "check", "inspected"} \subseteq early
  BY DEF EarlyPhases, ApplyPhases, OpPhases, DirPhases, FilePhases, ReplacePhases
<1>2. CASE Inspect
  <2>1. disk' = disk /\ (approved' = Snapshot \/ pc' = "done")
    BY <1>0, <1>2, InspectShape DEF Goes, Refuses
  <2>2. \A d \in Dirs : Snapshot.nodes[d].kind = disk[d].kind
    BY <1>0, PrestateFacts DEF Snapshot
  <2> QED
    BY <1>1, <2>1, <2>2 DEF DirsInv
<1>3. CASE Plan \/ CreateCandidateDir \/ CloseCandidateDir \/ ApplyStart
  <2>1. disk' = disk /\ approved' = approved /\ pc \in early
    BY <1>0, <1>1, <1>3, PlanShape, CandidateDirShape, ApplyStartShape
  <2> QED
    BY <1>0, <2>1 DEF DirsInv
<1>4. CASE AcquireExistingLock
  <2>1. disk' = disk \/ disk' = WithLockFile(disk)
    BY <1>0, <1>4, AcquireExistingLockShape
  <2>2. \A d \in Dirs : disk'[d] = disk[d]
    <3>1. Lock \notin Dirs
      BY PathSets
    <3> QED
      BY <1>0, <2>1, <3>1 DEF WithLockFile
  <2>3. approved' = approved /\ pc \in early
    BY <1>0, <1>1, <1>4, AcquireExistingLockShape
  <2> QED
    BY <1>0, <2>2, <2>3 DEF DirsInv
<1>5. CASE CheckPrestates
  <2>1. pc' \in {"next", "done"}
    BY <1>0, <1>5, CheckPrestatesShape DEF Goes, Refuses
  <2> QED
    BY <1>1, <2>1 DEF DirsInv
<1>6. ASSUME NEW p \in EditPaths, Edit(p) PROVE DirsInv'
  <2>1. PICK n \in Nodes : disk' = [disk EXCEPT ![p] = n] /\ n.kind # "dir"
    BY <1>0, <1>6, EditShape
  <2>2. /\ UNCHANGED <<approved, pc>> /\ p \in Paths
        /\ pc \in early => disk[p].kind # "dir"
    <3>1. "dir-installed" \notin early
      BY DEF EarlyPhases
    <3> QED
      BY <1>0, <1>6, <3>1, EditShape, PathSets
  <2> QED
    BY <1>0, <2>1, <2>2 DEF DirsInv
<1>7. CASE StartOver \/ Crash
  BY <1>0, <1>1, <1>7, StartOverShape, CrashShape DEF DirsInv, Core
<1>8. CASE Operation \/ Validate \/ Revalidate \/ HandleFailure \/ RecoverEntry \/ Classify
  <2>1. pc \in ApplyPhases
    BY <1>8 DEF Operation, BeginOperation, MakeDirectory, IdentifyDirectory, InstallDirectory, OpenFile,
     FillFile, OpenTemporary, FillTemporary, InstallReplacement, RemoveFlat, VerifyDirectory,
     VerifyFile, VerifyReplacement, VerifyRemoved, RestoreParentMode, EndOperation, OpPhases,
     DirPhases, FilePhases, ReplacePhases, ApplyPhases, Validate, Revalidate, HandleFailure, RecoverEntry, Classify
  <2>2. pc' \in ApplyPhases \/ pc' = "done"
    <3>1. CASE Operation
      <4>1. /\ OpPhases \cup {"next", "failed", "recovering", "ended", "revalidating"} \subseteq ApplyPhases
            /\ {"operation", "dir-made", "dir-named", "dir-installed", "file-opened", "file-filled",
                "temp-opened", "temp-filled", "replaced", "unlinked", "restoring"} \subseteq OpPhases
        BY DEF ApplyPhases, OpPhases, DirPhases, FilePhases, ReplacePhases
      <4>2. \A n, x : (Goes(n) => pc' = n) /\ (Slips(n, x) => pc' = n)
        BY DEF Goes, Slips
      <4>3. CASE BeginOperation \/ MakeDirectory \/ IdentifyDirectory \/ InstallDirectory
        BY <1>0, <4>1, <4>2, <4>3, BeginOperationShape, MakeDirectoryShape, IdentifyDirectoryShape,
           InstallDirectoryShape
      <4>4. CASE OpenFile \/ FillFile \/ OpenTemporary \/ FillTemporary
        BY <1>0, <4>1, <4>2, <4>4, OpenFileShape, FillFileShape, OpenTemporaryShape, FillTemporaryShape
      <4>5. CASE InstallReplacement \/ RemoveFlat \/ Verify
        BY <1>0, <4>1, <4>2, <4>5, InstallReplacementShape, RemoveFlatShape, VerifyShape
      <4>6. CASE RestoreParentMode
        BY <1>0, <4>1, <4>2, <4>6, RestoreParentModeShape
      <4>7. CASE EndOperation
        BY <1>0, <4>1, <4>2, <4>7, EndOperationShape
      <4> QED
        BY <3>1, <4>3, <4>4, <4>5, <4>6, <4>7 DEF Operation, Verify
    <3>2. CASE Validate \/ Revalidate \/ HandleFailure \/ RecoverEntry \/ Classify
      BY <1>0, <3>2, ValidateShape, RevalidateShape, HandleFailureShape, RecoverEntryShape, ClassifyShape
         DEF Goes, Slips, ApplyPhases
    <3> QED
      BY <1>8, <3>1, <3>2
  <2> QED
    BY <1>1, <2>2 DEF DirsInv
<1> QED
  BY <1>2, <1>3, <1>4, <1>5, <1>6, <1>7, <1>8 DEF Next, Command, ApplyCommand

(* The journal as it grows, ...                                            *)
LEMMA Appended ==
    ASSUME journal \in Seq(EntryType), NEW e, NEW j, j = Append(journal, e)
    PROVE  /\ j # <<>> /\ Last(j) = e
           /\ \A i \in DOMAIN j : j[i] = e \/ (i \in DOMAIN journal /\ j[i] = journal[i])
           /\ \A i \in DOMAIN journal : i \in DOMAIN j /\ j[i] = journal[i]
           /\ \E i \in DOMAIN j : j[i] = e
<1>1. /\ Len(j) = Len(journal) + 1 /\ DOMAIN j = 1..Len(j) /\ j[Len(j)] = e
      /\ \A i \in 1..Len(journal) : j[i] = journal[i]
      /\ DOMAIN journal = 1..Len(journal) /\ Len(journal) \in Nat
  OBVIOUS
<1>2. j # <<>> /\ Len(j) \in DOMAIN j
  BY <1>1
<1> QED
  BY <1>1, <1>2 DEF Last

(* ... as its last entry is brought up to date, ...                        *)
LEMMA Restated ==
    ASSUME journal \in Seq(EntryType), journal # <<>>, NEW s \in {"temporary", "installed"},
           NEW j, j = LastState(s)
    PROVE  /\ j # <<>> /\ DOMAIN j = DOMAIN journal
           /\ Last(j).kind = Last(journal).kind /\ Last(j).path = Last(journal).path
           /\ Last(j).state = s /\ Last(j).original = Last(journal).original
           /\ \A i \in DOMAIN journal :
                \/ j[i] = journal[i]
                \/ j[i] = Last(j) /\ journal[i] = Last(journal)
           /\ \E i \in DOMAIN journal : j[i] = Last(j)
           /\ \A i \in DOMAIN journal : j[i].kind = journal[i].kind /\ j[i].path = journal[i].path
                                        /\ j[i].original = journal[i].original
<1> DEFINE n == Len(journal)
           x == [journal[n] EXCEPT !.state = s]
<1>1. n \in DOMAIN journal /\ journal[n] \in EntryType /\ DOMAIN journal = 1..n
  OBVIOUS
<1>2. j = [journal EXCEPT ![n] = x]
  BY DEF LastState
<1>3. x.kind = journal[n].kind /\ x.path = journal[n].path /\ x.original = journal[n].original
      /\ x.state = s
  BY <1>1 DEF EntryType
<1> HIDE DEF x
<1>4. /\ DOMAIN j = DOMAIN journal /\ j[n] = x /\ \A i \in DOMAIN journal : i # n => j[i] = journal[i]
  BY <1>1, <1>2
<1>5. Len(j) = n /\ j # <<>>
  BY <1>1, <1>2
<1> QED
  BY <1>1, <1>3, <1>4, <1>5 DEF Last

(* ... and as a rollback takes it back.                                    *)
LEMMA Shortened ==
    ASSUME journal \in Seq(EntryType), journal # <<>>, NEW j, j = Front(journal)
    PROVE  /\ \A i \in DOMAIN j : i \in DOMAIN journal /\ j[i] = journal[i]
           /\ \A i \in DOMAIN journal : journal[i] = Last(journal) \/ (i \in DOMAIN j /\ j[i] = journal[i])
<1> DEFINE n == Len(journal)
<1>1. DOMAIN journal = 1..n /\ n \in Nat
  OBVIOUS
<1>2. n # 0
  OBVIOUS
<1>3. j = SubSeq(journal, 1, n - 1)
  BY DEF Front
<1>4. Last(journal) = journal[n]
  BY DEF Last
<1> HIDE DEF n
<1>5. n - 1 \in Nat /\ n - 1 <= n
  BY <1>1, <1>2
<1>6. DOMAIN j = 1..(n - 1) /\ \A i \in 1..(n - 1) : j[i] = journal[i]
  BY <1>1, <1>3, <1>5
<1>7. \A i \in 1..(n - 1) : i \in 1..n
  BY ONLY <1>1
<1>8. \A i \in 1..n : i = n \/ i \in 1..(n - 1)
  BY ONLY <1>1
<1> QED
  BY <1>1, <1>4, <1>6, <1>7, <1>8

(* A restored mode is settled.                                             *)
LEMMA SettledFacts ==
    ASSUME journal \in Seq(EntryType)
    PROVE  /\ DOMAIN Settled = DOMAIN journal
           /\ \A i \in DOMAIN journal :
                /\ Settled[i].kind = journal[i].kind /\ Settled[i].path = journal[i].path
                /\ Settled[i].original = journal[i].original
                /\ \/ ~Active(i) /\ Settled[i] = journal[i]
                   \/ Active(i) /\ Settled[i].state = "settled"
<1>1. DOMAIN journal = 1..Len(journal) /\ DOMAIN Settled = 1..Len(journal)
  BY DEF Settled
<1>2. ASSUME NEW i \in DOMAIN journal
      PROVE  /\ Settled[i].kind = journal[i].kind /\ Settled[i].path = journal[i].path
             /\ Settled[i].original = journal[i].original
             /\ \/ ~Active(i) /\ Settled[i] = journal[i]
                \/ Active(i) /\ Settled[i].state = "settled"
  <2>1. journal[i] \in EntryType
    OBVIOUS
  <2>2. i \in ActiveModes <=> Active(i)
    BY <1>1 DEF ActiveModes, Active
  <2>3. CASE i \in ActiveModes
    <3>1. Settled[i] = [journal[i] EXCEPT !.state = "settled"]
      BY <1>1, <2>3 DEF Settled
    <3> QED
      BY <2>1, <2>2, <2>3, <3>1 DEF EntryType
  <2>4. CASE i \notin ActiveModes
    BY <1>1, <2>2, <2>4 DEF Settled
  <2> QED
    BY <2>3, <2>4
<1> QED
  BY <1>1, <1>2

(* During an operation only its phase, its target and its entry move.      *)
LEMMA OperationInvDuring ==
    ASSUME Core, Operation
    PROVE  OperationInv'
<1>0. TypeOK /\ PlanInv /\ OperationInv /\ DiskInv /\ journal \in Seq(EntryType)
      /\ disk \in [Paths -> Nodes]
  BY DEF Core, TypeOK
<1>1. manifest.mode # None /\ todo # {} /\ (pc = "next" \/ pc \in OpPhases \/ pc = "ended")
  <2>1. pc \in {"next", "ended"} \cup OpPhases
    BY Zenon DEF Operation, BeginOperation, MakeDirectory, IdentifyDirectory, InstallDirectory, OpenFile,
       FillFile, OpenTemporary, FillTemporary, InstallReplacement, RemoveFlat, VerifyDirectory,
       VerifyFile, VerifyReplacement, VerifyRemoved, RestoreParentMode, EndOperation, OpPhases,
       DirPhases, FilePhases, ReplacePhases
  <2>2. BeginOperation => todo # {}
    BY <1>0, BeginOperationShape
  <2>3. pc = "next" => BeginOperation
    BY DEF Operation, BeginOperation, MakeDirectory, IdentifyDirectory, InstallDirectory, OpenFile,
     FillFile, OpenTemporary, FillTemporary, InstallReplacement, RemoveFlat, VerifyDirectory,
     VerifyFile, VerifyReplacement, VerifyRemoved, RestoreParentMode, EndOperation
  <2> QED
    BY <1>0, <2>1, <2>2, <2>3 DEF PlanInv, OperationInv, ApplyPhases, OpPhases, DirPhases, FilePhases,
       ReplacePhases
<1>2. /\ Target \in Owned /\ Parent[Target] # Target /\ Parent[Target] \in Paths /\ Target \in Paths
      /\ Wanted \in Nodes
      /\ Kind = "create-directory" => Target \in Dirs /\ Wanted = Dir(TRUE, "apply")
  BY <1>1, TargetFacts, Parents, PathSets
<1>3. pc \in OpPhases => disk[Parent[Target]].kind = "dir"
  BY <1>0 DEF OperationInv
<1>f. OperationFrame => /\ todo' = todo /\ manifest' = manifest /\ Target' = Target /\ Kind' = Kind
                        /\ todo' \subseteq {p \in Owned : manifest'.kinds[p] # None} /\ todo' # {}
  BY <1>0, <1>1, Steady DEF OperationInv
<1>d. ASSUME NEW n, disk' = [disk EXCEPT ![Target] = n]
      PROVE  disk'[Target] = n /\ disk'[Parent[Target]] = disk[Parent[Target]]
  BY <1>0, <1>2, <1>d
<1>p. /\ \A x \in DirPhases \cup FilePhases \cup ReplacePhases \cup {"operation", "unlinked", "restoring"} :
           x \in OpPhases /\ x \in ApplyPhases
      /\ {"next", "ended", "failed"} \subseteq ApplyPhases
      /\ ApplyPhases \cap (EarlyPhases \cup {"idle", "inspected", "crashed"}) = {}
  BY DEF ApplyPhases, EarlyPhases, OpPhases, DirPhases, FilePhases, ReplacePhases
<1>q. /\ DirPhases = {"dir-made", "dir-named", "dir-installed"} /\ FilePhases = {"file-opened", "file-filled"}
      /\ ReplacePhases = {"temp-opened", "temp-filled", "replaced"}
      /\ OpPhases = {"operation", "unlinked", "restoring"} \cup DirPhases \cup FilePhases \cup ReplacePhases
  BY DEF OpPhases, DirPhases, FilePhases, ReplacePhases
<1>s. \A n, x : (Goes(n) => pc' = n) /\ (Slips(n, x) => pc' = n /\ report'.class # None)
  BY DEF Goes, Slips, None
<1>4. ASSUME OperationFrame, pc' = "failed" PROVE OperationInv'
  BY <1>f, <1>p, <1>q, <1>4 DEF OperationInv
<1>5. ASSUME OperationFrame, pc' = "restoring", pc \in OpPhases, report'.class # None,
             disk'[Parent[Target]] = disk[Parent[Target]]
      PROVE OperationInv'
  BY <1>3, <1>f, <1>p, <1>q, <1>5 DEF OperationInv
<1>6. CASE BeginOperation
  <2>1. /\ OperationFrame /\ todo # {}
        /\ \/ /\ Goes("operation") /\ disk[Parent[Target]].kind = "dir" /\ AsApproved(Target)
              /\ disk' = disk \/ disk' = [disk EXCEPT ![Parent[Target]].rw = TRUE]
           \/ \E x : Slips("failed", x)
    BY <1>0, <1>6, BeginOperationShape
  <2>2. CASE \E x : Slips("failed", x)
    BY <1>4, <1>s, <2>1, <2>2
  <2>3. CASE /\ Goes("operation") /\ disk[Parent[Target]].kind = "dir" /\ AsApproved(Target)
             /\ disk' = disk \/ disk' = [disk EXCEPT ![Parent[Target]].rw = TRUE]
    <3>1. disk'[Parent[Target]].kind = "dir"
      <4>1. CASE disk' = [disk EXCEPT ![Parent[Target]].rw = TRUE]
        <5>1. disk' = Opened(disk, Parent[Target])
          BY <4>1 DEF Opened
        <5>2. Opened(disk, Parent[Target])[Parent[Target]].kind = disk[Parent[Target]].kind
          BY ONLY <1>0, <1>2, Widening, Zenon
        <5> QED
          BY <5>1, <5>2, <2>3
      <4> QED
        BY <2>3, <4>1
    <3>2. AsApproved(Target)'
      <4>1. disk'[Target] = disk[Target]
        BY <1>0, <1>2, <2>3
      <4>2. approved' = approved
        BY <2>1, Steady
      <4> QED
        BY <1>f, <2>1, <2>3, <4>1, <4>2 DEF AsApproved
    <3> QED
      BY <1>f, <1>p, <1>q, <1>s, <2>1, <2>3, <3>1, <3>2 DEF OperationInv
  <2> QED
    BY <2>1, <2>2, <2>3
<1>7. CASE MakeDirectory
  <2>1. /\ pc = "operation" /\ Kind = "create-directory" /\ OperationFrame /\ disk' = disk
        /\ \/ Goes("dir-made") /\ journal' = Append(journal, Entry("dir", "unknown", Missing))
           \/ Slips("restoring", FALSE)
    BY <1>0, <1>7, MakeDirectoryShape
  <2>2. CASE Goes("dir-made") /\ journal' = Append(journal, Entry("dir", "unknown", Missing))
    <3>1. LastIs("dir", {"unknown"})'
      <4>1. journal' # <<>> /\ Last(journal') = Entry("dir", "unknown", Missing)
        BY <1>0, <2>2, Appended, Zenon
      <4> QED
        BY <1>f, <2>1, <4>1 DEF LastIs, Entry
    <3> QED
      BY <1>3, <1>f, <1>p, <1>q, <1>s, <2>1, <2>2, <3>1 DEF OperationInv
  <2> QED
    BY <1>5, <1>p, <1>s, <2>1, <2>2
<1>8. CASE IdentifyDirectory
  <2>1. /\ pc = "dir-made" /\ OperationFrame /\ disk' = disk
        /\ \/ Goes("dir-named") /\ journal' = LastState("temporary")
           \/ Slips("restoring", FALSE)
    BY <1>0, <1>8, IdentifyDirectoryShape
  <2>2. Kind = "create-directory" /\ LastIs("dir", {"unknown"}) /\ pc \in OpPhases
    BY <1>0, <1>q, <2>1 DEF OperationInv
  <2>3. CASE Goes("dir-named") /\ journal' = LastState("temporary")
    <3>1. LastIs("dir", {"temporary"})'
      BY <1>0, <1>f, <2>1, <2>2, <2>3, Restated DEF LastIs
    <3> QED
      BY <1>3, <1>f, <1>p, <1>q, <1>s, <2>1, <2>2, <2>3, <3>1 DEF OperationInv
  <2> QED
    BY <1>5, <1>p, <1>s, <2>1, <2>2, <2>3
<1>9. CASE InstallDirectory
  <2>1. /\ pc = "dir-named" /\ OperationFrame
        /\ \/ Goes("dir-installed") /\ disk' = [disk EXCEPT ![Target] = Wanted]
           \/ (\E x : Slips("restoring", x)) /\ disk' = disk
    BY <1>0, <1>9, InstallDirectoryShape
  <2>2. Kind = "create-directory" /\ pc \in OpPhases
    BY <1>0, <1>q, <2>1 DEF OperationInv
  <2>3. CASE Goes("dir-installed") /\ disk' = [disk EXCEPT ![Target] = Wanted]
    BY <1>3, <1>d, <1>f, <1>p, <1>q, <1>s, <2>1, <2>2, <2>3 DEF OperationInv
  <2> QED
    BY <1>5, <1>p, <1>s, <2>1, <2>2, <2>3
<1>10. CASE OpenFile
  <2>1. /\ pc = "operation" /\ Kind = "create-file" /\ OperationFrame
        /\ \/ /\ disk' = [disk EXCEPT ![Target] = File(NoText, "apply")]
              /\ \/ /\ Goes("file-opened")
                    /\ journal' = Append(journal, Entry("file", "identified", Missing))
                 \/ Slips("restoring", FALSE)
           \/ (\E x : Slips("restoring", x)) /\ disk' = disk
    BY <1>0, <1>10, OpenFileShape
  <2>2. CASE /\ disk' = [disk EXCEPT ![Target] = File(NoText, "apply")] /\ Goes("file-opened")
             /\ journal' = Append(journal, Entry("file", "identified", Missing))
    <3>1. LastIs("file", {"identified"})'
      <4>1. journal' # <<>> /\ Last(journal') = Entry("file", "identified", Missing)
        BY <1>0, <2>2, Appended, Zenon
      <4> QED
        BY <1>f, <2>1, <4>1 DEF LastIs, Entry
    <3>2. disk'[Target].text = NoText /\ disk'[Parent[Target]] = disk[Parent[Target]]
      BY <1>d, <2>2, Made, ZenonT(30)
    <3> QED
      BY <1>3, <1>f, <1>p, <1>q, <1>s, <2>1, <2>2, <3>1, <3>2 DEF OperationInv
  <2>3. disk' = [disk EXCEPT ![Target] = File(NoText, "apply")] => disk'[Parent[Target]] = disk[Parent[Target]]
    BY <1>d
  <2> QED
    BY <1>5, <1>p, <1>s, <2>1, <2>2, <2>3
<1>11. CASE FillFile
  <2>1. /\ pc = "file-opened" /\ OperationFrame /\ journal' = journal
        /\ \/ disk' = disk
           \/ disk' = [disk EXCEPT ![Target] = Wanted]
           \/ disk' = [disk EXCEPT ![Target] = File("torn", "apply")]
        /\ Goes("file-filled") \/ \E x : Slips("restoring", x)
    BY <1>0, <1>11, FillFileShape
  <2>2. Kind = "create-file" /\ pc \in OpPhases /\ LastIs("file", {"identified"})
    BY <1>0, <1>q, <2>1 DEF OperationInv
  <2>3. disk'[Parent[Target]] = disk[Parent[Target]]
    BY <1>d, <2>1
  <2>4. CASE Goes("file-filled")
    <3>1. LastIs("file", {"identified"})'
      BY <1>f, <2>1, <2>2 DEF LastIs
    <3> QED
      BY <1>3, <1>f, <1>p, <1>q, <1>s, <2>1, <2>2, <2>3, <2>4, <3>1 DEF OperationInv
  <2> QED
    BY <1>5, <1>p, <1>s, <2>1, <2>2, <2>3, <2>4
<1>12. CASE OpenTemporary
  <2>1. /\ pc = "operation" /\ Kind = "replace-file" /\ OperationFrame /\ disk' = disk
        /\ \/ /\ Goes("temp-opened")
              /\ journal' = Append(journal, Entry("replaced", "identified", disk[Target]))
           \/ Slips("restoring", FALSE)
    BY <1>0, <1>12, OpenTemporaryShape
  <2>2. CASE /\ Goes("temp-opened")
             /\ journal' = Append(journal, Entry("replaced", "identified", disk[Target]))
    <3>1. LastIs("replaced", {"identified", "installed"})'
      <4>1. journal' # <<>> /\ Last(journal') = Entry("replaced", "identified", disk[Target])
        BY <1>0, <2>2, Appended, Zenon
      <4> QED
        BY <1>f, <2>1, <4>1 DEF LastIs, Entry
    <3> QED
      BY <1>3, <1>f, <1>p, <1>q, <1>s, <2>1, <2>2, <3>1 DEF OperationInv
  <2> QED
    BY <1>5, <1>p, <1>s, <2>1, <2>2
<1>13. CASE FillTemporary
  <2>1. /\ pc = "temp-opened" /\ OperationFrame /\ disk' = disk /\ journal' = journal
        /\ Goes("temp-filled") \/ Slips("restoring", FALSE)
    BY <1>0, <1>13, FillTemporaryShape
  <2>2. Kind = "replace-file" /\ pc \in OpPhases /\ LastIs("replaced", {"identified", "installed"})
    BY <1>0, <1>q, <2>1 DEF OperationInv
  <2>3. CASE Goes("temp-filled")
    <3>1. LastIs("replaced", {"identified", "installed"})'
      BY <1>f, <2>1, <2>2 DEF LastIs
    <3> QED
      BY <1>3, <1>f, <1>p, <1>q, <1>s, <2>1, <2>2, <2>3, <3>1 DEF OperationInv
  <2> QED
    BY <1>5, <1>p, <1>s, <2>1, <2>2, <2>3
<1>14. CASE InstallReplacement
  <2>1. /\ pc = "temp-filled" /\ OperationFrame
        /\ \/ /\ Goes("replaced") /\ disk' = [disk EXCEPT ![Target] = Wanted]
              /\ journal' = LastState("installed")
           \/ (\E x : Slips("restoring", x)) /\ disk' = disk
    BY <1>0, <1>14, InstallReplacementShape
  <2>2. Kind = "replace-file" /\ pc \in OpPhases /\ LastIs("replaced", {"identified", "installed"})
    BY <1>0, <1>q, <2>1 DEF OperationInv
  <2>3. CASE /\ Goes("replaced") /\ disk' = [disk EXCEPT ![Target] = Wanted]
             /\ journal' = LastState("installed")
    <3>1. LastIs("replaced", {"identified", "installed"})'
      BY <1>0, <1>f, <2>1, <2>2, <2>3, Restated DEF LastIs
    <3>2. disk'[Parent[Target]] = disk[Parent[Target]]
      BY <1>d, <2>3
    <3> QED
      BY <1>3, <1>f, <1>p, <1>q, <1>s, <2>1, <2>2, <2>3, <3>1, <3>2 DEF OperationInv
  <2> QED
    BY <1>5, <1>p, <1>s, <2>1, <2>2, <2>3
<1>15. CASE RemoveFlat
  <2>1. /\ pc = "operation" /\ Kind = "remove-file" /\ OperationFrame
        /\ \/ Goes("unlinked") /\ disk' = [disk EXCEPT ![Target] = Missing]
           \/ (\E x : Slips("restoring", x)) /\ disk' = disk
    BY <1>0, <1>15, RemoveFlatShape
  <2>2. CASE Goes("unlinked") /\ disk' = [disk EXCEPT ![Target] = Missing]
    BY <1>3, <1>d, <1>f, <1>p, <1>q, <1>s, <2>1, <2>2 DEF OperationInv
  <2> QED
    BY <1>5, <1>p, <1>s, <2>1, <2>2
<1>16. CASE Verify
  <2>1. /\ pc \in {"dir-installed", "file-filled", "replaced", "unlinked"}
        /\ OperationFrame /\ disk' = disk /\ journal' = journal
        /\ \/ Goes("restoring") /\ disk[Target] = IF pc = "unlinked" THEN Missing ELSE Wanted
           \/ \E x : Slips("restoring", x)
    BY <1>0, <1>16, VerifyShape
  <2>2. CASE Goes("restoring") /\ disk[Target] = IF pc = "unlinked" THEN Missing ELSE Wanted
    <3>1. Kind = "create-directory" => pc = "dir-installed"
      BY <1>0, <1>q, <2>1 DEF OperationInv
    <3>2. Kind = "create-directory" => disk[Target].kind = "dir"
      <4>1. Kind = "create-directory" => disk[Target] = Dir(TRUE, "apply")
        BY <1>2, <2>2, <3>1
      <4>2. Dir(TRUE, "apply").kind = "dir"
        BY Made, Zenon
      <4> QED
        BY <4>1, <4>2
    <3> QED
      BY <1>3, <1>f, <1>p, <1>q, <1>s, <2>1, <2>2, <3>2 DEF OperationInv
  <2> QED
    BY <1>5, <1>p, <1>q, <1>s, <2>1, <2>2
<1>17. CASE RestoreParentMode
  <2>1. /\ pc = "restoring" /\ OperationFrame
        /\ disk' \in {disk, Narrowed}
        /\ \/ Goes("ended") /\ report.class = None
           \/ Goes("failed") \/ Slips("failed", FALSE)
    BY <1>0, <1>17, RestoreParentModeShape
  <2>2. \A p \in Paths : disk'[p].kind = disk[p].kind
    <3>1. \A i \in ActiveModes : disk[journal[i].path].kind = "dir"
      BY <1>0, <1>3, <1>q, <2>1 DEF Core, JournalInv, ActiveModes, Active
    <3> QED
      BY <1>0, <2>1, <3>1, NarrowedFacts, ZenonT(30)
  <2>3. CASE Goes("ended") /\ report.class = None
    <3>1. Kind = "create-directory" => disk'[Target].kind = "dir"
      BY <1>0, <1>2, <2>1, <2>2, <2>3 DEF OperationInv
    <3> QED
      BY <1>f, <1>p, <1>q, <1>s, <2>1, <2>3, <3>1 DEF OperationInv
  <2> QED
    BY <1>4, <1>s, <2>1, <2>3
<1>18. CASE EndOperation
  <2>1. todo' = todo \ {Target} /\ manifest' = manifest /\ pc' \in {"next", "failed"}
    BY <1>0, <1>s, <1>18, EndOperationShape
  <2> QED
    BY <1>0, <1>p, <1>q, <2>1 DEF OperationInv
<1> QED
  BY <1>6, <1>7, <1>8, <1>9, <1>10, <1>11, <1>12, <1>13, <1>14, <1>15, <1>16, <1>17, <1>18
     DEF Operation, Verify

(* The operations under way, over every step.                              *)
LEMMA OperationInvStep ==
    ASSUME Core, Next
    PROVE  OperationInv'
<1>0. TypeOK /\ OperationInv /\ disk \in [Paths -> Nodes]
  BY DEF Core, TypeOK
<1> DEFINE Calm == EarlyPhases \cup {"idle", "inspected", "crashed"}
<1>p. /\ ApplyPhases \cap Calm = {} /\ "done" \notin Calm /\ "done" \notin ApplyPhases
      /\ OpPhases \cup {"ended", "next", "failed", "recovering", "revalidating"} \subseteq ApplyPhases
      /\ OpPhases \cap {"ended", "next", "failed", "recovering", "revalidating"} = {}
      /\ DirPhases \cup FilePhases \cup ReplacePhases \cup {"operation", "unlinked", "restoring"} = OpPhases
      /\ {"dir-made", "dir-named"} \subseteq DirPhases /\ "file-opened" \in FilePhases
      /\ {"stage1", "stage2", "staged1", "staged2", "planned", "lock", "check"} \subseteq EarlyPhases
  BY DEF EarlyPhases, ApplyPhases, OpPhases, DirPhases, FilePhases, ReplacePhases
<1>s. \A n, x : (Goes(n) => pc' = n) /\ (Slips(n, x) => pc' = n) /\ (Refuses(n, x) => pc' = "done")
                /\ (Leaves => pc' = "done")
  BY DEF Goes, Slips, Refuses, Leaves
<1>1. ASSUME todo' = {}, pc' \notin ApplyPhases, pc' \in Calm => temps' = NoTemps
      PROVE OperationInv'
  BY <1>1, <1>p DEF OperationInv
<1>2. ASSUME todo' = {}, pc' = "revalidating" PROVE OperationInv'
  BY <1>2, <1>p DEF OperationInv
<1>3. ASSUME todo' \subseteq {p \in Owned : manifest'.kinds[p] # None},
             pc' \in {"next", "failed", "recovering", "done"}
      PROVE OperationInv'
  BY <1>3, <1>p DEF OperationInv
<1>4. CASE Inspect
  <2>1. pc = "idle" /\ todo' = todo /\ temps' = temps /\ pc' \in {"inspected", "done"}
    BY <1>0, <1>4, InspectShape DEF Goes, Refuses
  <2> QED
    BY <1>0, <1>1, <1>p, <2>1 DEF OperationInv
<1>5. CASE Plan
  <2>1. pc = "inspected" /\ todo' = todo /\ temps' = temps /\ pc' \in {"stage1", "done"}
    BY <1>0, <1>5, PlanShape DEF Goes, Refuses
  <2> QED
    BY <1>0, <1>1, <1>p, <2>1 DEF OperationInv
<1>6. CASE CreateCandidateDir \/ CloseCandidateDir
  <2>1. /\ pc \in {"stage1", "staged1", "stage2", "staged2"} /\ todo' = todo /\ temps' = temps
        /\ pc' \in {"stage2", "staged1", "staged2", "planned", "done"}
    BY <1>0, <1>s, <1>6, CandidateDirShape
  <2> QED
    BY <1>0, <1>1, <1>p, <2>1 DEF OperationInv
<1>7. CASE ApplyStart \/ AcquireExistingLock
  <2>1. /\ pc \in {"planned", "lock"} /\ todo' = todo /\ temps' = temps
        /\ pc' \in {"lock", "check", "done"}
    BY <1>0, <1>s, <1>7, ApplyStartShape, AcquireExistingLockShape
  <2> QED
    BY <1>0, <1>1, <1>p, <2>1 DEF OperationInv
<1>8. CASE CheckPrestates
  <2>1. /\ pc' \in {"next", "done"} /\ manifest' = manifest
        /\ todo' = {p \in Owned : manifest.kinds[p] # None} \/ todo' = todo
    BY <1>0, <1>s, <1>8, CheckPrestatesShape
  <2> QED
    BY <1>0, <1>3, <2>1 DEF OperationInv
<1>9. CASE Validate
  <2>1. todo' = {} /\ manifest' = manifest /\ pc' \in {"revalidating", "failed"}
    BY <1>0, <1>s, <1>9, ValidateShape, Steady
  <2> QED
    BY <1>2, <1>3, <2>1
<1>10. CASE Revalidate \/ HandleFailure \/ RecoverEntry \/ Classify
  <2>1. todo' = todo /\ manifest' = manifest /\ pc' \in {"done", "failed", "recovering"}
    BY <1>0, <1>s, <1>10, RevalidateShape, HandleFailureShape, RecoverEntryShape, ClassifyShape
  <2> QED
    BY <1>0, <1>3, <2>1 DEF OperationInv
<1>11. ASSUME NEW p \in EditPaths, Edit(p) PROVE OperationInv'
  <2>1. /\ UNCHANGED <<temps, pc, manifest, todo, journal, report, approved>> /\ Target' = Target
        /\ Kind' = Kind /\ p \in Paths /\ touched' = touched \cup {p}
        /\ disk[p].kind = "dir" => pc = "dir-installed" /\ p = Target
    BY <1>0, <1>11, EditShape, PathSets DEF Kind
  <2>2. PICK n \in Nodes :
          /\ disk' = [disk EXCEPT ![p] = n] /\ n.kind # "dir"
          /\ n.by = "apply" => ~(pc = "file-opened" /\ p = Target)
    BY <1>0, <1>11, EditShape
  <2>3. disk'[p] = n /\ \A q \in Paths : q # p => disk'[q] = disk[q]
    BY <1>0, <2>1, <2>2
  <2>4. pc \in OpPhases \cup {"ended"} =>
          Target \in Paths /\ Target \in Owned /\ Parent[Target] \in Paths /\ Parent[Target] # Target
    <3>1. pc \in OpPhases \cup {"ended"} => Target \in Owned
      BY <1>0, TargetIsFirst DEF OperationInv, TypeOK
    <3> QED
      BY <3>1, Parents, PathSets
  <2>5. pc \in OpPhases => disk'[Parent[Target]].kind = "dir"
    BY <1>0, <2>1, <2>3, <2>4 DEF OperationInv
  <2>6. pc = "file-opened" /\ Ours(Target)' => disk'[Target].text = NoText
    BY <1>0, <1>p, <2>1, <2>2, <2>3, <2>4 DEF OperationInv, Ours
  <2>7. pc = "operation" => AsApproved(Target)' \/ Target' \in touched'
    BY <1>0, <1>p, <2>1, <2>3, <2>4 DEF OperationInv, AsApproved
  <2>8. pc = "ended" \/ (pc = "restoring" /\ report.class = None) =>
          (Kind = "create-directory" => disk'[Target].kind = "dir")
    BY <1>0, <1>p, <2>1, <2>3, <2>4 DEF OperationInv
  <2>9. \A k, x : LastIs(k, x)' <=> LastIs(k, x)
    BY <2>1 DEF LastIs
  <2> QED
    BY <1>0, <2>1, <2>5, <2>6, <2>7, <2>8, <2>9 DEF OperationInv
<1>12. CASE Crash
  <2>1. todo' = {} /\ pc' = "crashed" /\ temps' = NoTemps
    BY <1>0, <1>12, CrashShape
  <2> QED
    BY <1>1, <1>p, <2>1
<1>13. CASE StartOver
  <2>1. pc = "crashed" /\ pc' = "idle" /\ todo' = todo /\ temps' = temps
    BY <1>0, <1>13, StartOverShape DEF Core
  <2> QED
    BY <1>0, <1>1, <1>p, <2>1 DEF OperationInv
<1> QED
  BY <1>4, <1>5, <1>6, <1>7, <1>8, <1>9, <1>10, <1>11, <1>12, <1>13, OperationInvDuring
     DEF Next, Command, ApplyCommand

(* An entry that is a mode not yet restored.                               *)
Live(e) == e.kind = "mode" /\ e.state = "active"

(* During an operation the journal's entries stay in order, and the only   *)
(* mode not restored is that of the target's parent.                       *)
LEMMA JournalDuring ==
    ASSUME Core, Operation
    PROVE  /\ \A i \in DOMAIN journal' :
                EntryOK(journal'[i]) /\ (Live(journal'[i]) => journal'[i].path = Parent[Target])
           /\ pc' \in {"next", "ended"} => \A i \in DOMAIN journal' : ~Live(journal'[i])
<1>0. TypeOK /\ PlanInv /\ OperationInv /\ JournalInv /\ journal \in Seq(EntryType)
      /\ disk \in [Paths -> Nodes]
  BY DEF Core, TypeOK
<1>1. manifest.mode # None /\ todo # {} /\ (pc = "next" \/ pc \in OpPhases \/ pc = "ended")
  <2>1. pc \in {"next", "ended"} \cup OpPhases
    BY Zenon DEF Operation, BeginOperation, MakeDirectory, IdentifyDirectory, InstallDirectory, OpenFile,
       FillFile, OpenTemporary, FillTemporary, InstallReplacement, RemoveFlat, VerifyDirectory,
       VerifyFile, VerifyReplacement, VerifyRemoved, RestoreParentMode, EndOperation, OpPhases,
       DirPhases, FilePhases, ReplacePhases
  <2>2. BeginOperation => todo # {}
    BY <1>0, BeginOperationShape
  <2>3. pc = "next" => BeginOperation
    BY DEF Operation, BeginOperation, MakeDirectory, IdentifyDirectory, InstallDirectory, OpenFile,
     FillFile, OpenTemporary, FillTemporary, InstallReplacement, RemoveFlat, VerifyDirectory,
     VerifyFile, VerifyReplacement, VerifyRemoved, RestoreParentMode, EndOperation
  <2> QED
    BY <1>0, <2>1, <2>2, <2>3 DEF PlanInv, OperationInv, ApplyPhases, OpPhases, DirPhases, FilePhases,
       ReplacePhases
<1>2. Target \in Owned /\ Parent[Target] \in Dirs \cup {Root} /\ Parent[Target] \in Paths /\ Target \in Paths
  BY <1>1, TargetFacts, Parents, PathSets
<1>3. \A i \in DOMAIN journal :
        EntryOK(journal[i]) /\ (Live(journal[i]) => journal[i].path = Parent[Target])
  <2>1. \A i \in DOMAIN journal : Active(i) <=> Live(journal[i])
    BY DEF Active, Live
  <2> QED
    BY <1>0, <1>1, <2>1 DEF JournalInv
<1>4. pc \in {"next", "ended"} => \A i \in DOMAIN journal : ~Live(journal[i])
  BY <1>0 DEF JournalInv, Active, Live
<1> DEFINE Good(e) == EntryOK(e) /\ (Live(e) => e.path = Parent[Target])
           G == \A i \in DOMAIN journal' : Good(journal'[i])
<1>a. ASSUME NEW e, journal' = Append(journal, e), Good(e) PROVE G
  BY <1>0, <1>3, <1>a, Appended
<1>b. ASSUME NEW s \in {"temporary", "installed"}, journal # <<>>, journal' = LastState(s),
             Good(Last(journal'))
      PROVE  G
  BY <1>0, <1>3, <1>b, Restated
<1>c. ASSUME journal' = journal PROVE G
  BY <1>3, <1>c
<1>k. Kind = manifest.kinds[Target]
  BY DEF Kind
<1>s. \A n, x : (Goes(n) => pc' = n) /\ (Slips(n, x) => pc' = n)
  BY DEF Goes, Slips
<1>q. SUFFICES G /\ (pc' \in {"next", "ended"} => \A i \in DOMAIN journal' : ~Live(journal'[i]))
  OBVIOUS
<1>n. ASSUME G, pc' \in {"operation", "dir-made", "dir-named", "dir-installed", "file-opened", "file-filled",
                         "temp-opened", "temp-filled", "replaced", "unlinked", "restoring", "failed"}
      PROVE  G /\ (pc' \in {"next", "ended"} => \A i \in DOMAIN journal' : ~Live(journal'[i]))
  BY <1>n
<1> HIDE DEF G
<1>5. CASE BeginOperation
  <2>1. /\ pc = "next" /\ pc' \in {"operation", "failed"}
        /\ \/ journal' = journal
           \/ ~disk[Parent[Target]].rw /\ journal' = Append(journal, Widened(Parent[Target]))
    BY <1>0, <1>5, <1>s, BeginOperationShape
  <2>2. CASE journal' = journal
    BY <1>c, <1>n, <2>1, <2>2
  <2>3. CASE ~disk[Parent[Target]].rw /\ journal' = Append(journal, Widened(Parent[Target]))
    <3> DEFINE e == Widened(Parent[Target])
    <3>1. e.kind = "mode" /\ e.state = "active" /\ e.path = Parent[Target]
      BY DEF Widened
    <3>2. disk[Parent[Target]].kind = "dir"
      BY <1>0, <1>2, <2>3, NodeShape
    <3>3. Parent[Target] \in Dirs =>
            approved.nodes[Parent[Target]].kind = "dir" /\ ~approved.nodes[Parent[Target]].rw
      BY <1>0, <1>1, <2>1, <2>3, <3>2 DEF JournalInv, Approving
    <3>4. EntryOK(e)
      <4> HIDE DEF e
      <4> QED
        BY <1>2, <3>1, <3>3 DEF EntryOK
    <3>5. Good(e)
      BY <3>1, <3>4
    <3> HIDE DEF e
    <3> QED
      BY <1>a, <1>n, <2>1, <2>3, <3>5 DEF e
  <2> QED
    BY <2>1, <2>2, <2>3
<1>6. CASE MakeDirectory
  <2>1. /\ Kind = "create-directory" /\ pc' \in {"dir-made", "restoring"}
        /\ journal' = journal \/ journal' = Append(journal, Entry("dir", "unknown", Missing))
    BY <1>0, <1>6, <1>s, MakeDirectoryShape
  <2>2. ASSUME NEW e, e = Entry("dir", "unknown", Missing) PROVE Good(e)
    <3>1. e.kind = "dir" /\ e.path = Target /\ e.state = "unknown"
      BY <2>2 DEF Entry
    <3> QED
      BY <1>2, <1>k, <2>1, <3>1 DEF EntryOK, Live
  <2> QED
    BY <1>a, <1>c, <1>n, <2>1, <2>2
<1>7. CASE IdentifyDirectory \/ InstallDirectory
  <2>1. /\ pc \in {"dir-made", "dir-named"} /\ pc' \in {"dir-named", "dir-installed", "restoring"}
        /\ journal' = journal \/ \E s \in {"temporary", "installed"} : journal' = LastState(s)
    BY <1>0, <1>7, <1>s, IdentifyDirectoryShape, InstallDirectoryShape
  <2>2. CASE journal' = journal
    BY <1>c, <1>n, <2>1, <2>2
  <2>3. ASSUME NEW s \in {"temporary", "installed"}, journal' = LastState(s) PROVE G
    <3>1. journal # <<>> /\ Last(journal).kind = "dir" /\ Last(journal).path = Target
      BY <1>0, <2>1 DEF OperationInv, LastIs
    <3>2. Last(journal').kind = "dir" /\ Last(journal').path = Target /\ Last(journal').state = s
      BY <1>0, <2>3, <3>1, Restated
    <3>3. Kind = "create-directory"
      BY <1>0, <2>1 DEF OperationInv, DirPhases
    <3>4. Good(Last(journal'))
      BY <1>2, <1>k, <3>2, <3>3 DEF EntryOK, Live
    <3> QED
      BY <1>b, <2>3, <3>1, <3>4
  <2> QED
    BY <1>n, <2>1, <2>2, <2>3
<1>8. CASE OpenFile
  <2>1. /\ Kind = "create-file" /\ pc' \in {"file-opened", "restoring"}
        /\ journal' = journal
           \/ \E s \in {"identified", "unidentified"} : journal' = Append(journal, Entry("file", s, Missing))
    BY <1>0, <1>8, <1>s, OpenFileShape
  <2>2. ASSUME NEW s \in {"identified", "unidentified"}, NEW e, e = Entry("file", s, Missing)
        PROVE  Good(e)
    <3>1. e.kind = "file" /\ e.path = Target /\ e.state = s
      BY <2>2 DEF Entry
    <3> QED
      BY <1>2, <1>k, <2>1, <3>1 DEF EntryOK, Live
  <2> QED
    BY <1>a, <1>c, <1>n, <2>1, <2>2
<1>9. CASE FillFile \/ FillTemporary \/ Verify
  <2>1. journal' = journal /\ pc' \in {"file-filled", "temp-filled", "restoring"}
    BY <1>0, <1>9, <1>s, FillFileShape, FillTemporaryShape, VerifyShape
  <2> QED
    BY <1>c, <1>n, <2>1
<1>10. CASE OpenTemporary
  <2>1. /\ pc = "operation" /\ Kind = "replace-file" /\ pc' \in {"temp-opened", "restoring"}
        /\ journal' = journal
           \/ \E s \in {"identified", "unidentified"} :
                 journal' = Append(journal, Entry("replaced", s, disk[Target]))
    BY <1>0, <1>10, <1>s, OpenTemporaryShape
  <2>2. AsApproved(Target) \/ Target \in touched
    BY <1>0, <2>1 DEF OperationInv
  <2>3. ASSUME NEW s \in {"identified", "unidentified"}, NEW e, e = Entry("replaced", s, disk[Target])
        PROVE  Good(e)
    <3>1. e.kind = "replaced" /\ e.path = Target /\ e.state = s /\ e.original = disk[Target]
      BY <2>3 DEF Entry
    <3> QED
      BY <1>2, <1>k, <2>1, <2>2, <3>1 DEF EntryOK, Live, AsApproved
  <2> QED
    BY <1>a, <1>c, <1>n, <2>1, <2>3
<1>11. CASE InstallReplacement
  <2>1. /\ pc = "temp-filled" /\ pc' \in {"replaced", "restoring"}
        /\ \/ journal' = journal
           \/ disk[Target] = Last(journal).original /\ AsApproved(Target) /\ journal' = LastState("installed")
    BY <1>0, <1>11, <1>s, InstallReplacementShape
  <2>2. CASE journal' = journal
    BY <1>c, <1>n, <2>1, <2>2
  <2>3. CASE disk[Target] = Last(journal).original /\ AsApproved(Target) /\ journal' = LastState("installed")
    <3>1. /\ Kind = "replace-file"
          /\ journal # <<>> /\ Last(journal).kind = "replaced" /\ Last(journal).path = Target
      BY <1>0, <2>1 DEF OperationInv, LastIs, ReplacePhases
    <3>2. /\ Last(journal').kind = "replaced" /\ Last(journal').path = Target
          /\ Last(journal').state = "installed" /\ Last(journal').original = disk[Target]
      BY <1>0, <2>3, <3>1, Restated
    <3>3. Good(Last(journal'))
      BY <1>2, <1>k, <2>3, <3>1, <3>2 DEF EntryOK, Live, AsApproved
    <3> QED
      BY <1>b, <1>n, <2>1, <2>3, <3>1, <3>3
  <2> QED
    BY <2>1, <2>2, <2>3
<1>12. CASE RemoveFlat
  <2>1. /\ Kind = "remove-file" /\ pc' \in {"unlinked", "restoring"}
        /\ \/ journal' = journal
           \/ AsApproved(Target) /\ journal' = Append(journal, Entry("removed", "removed", disk[Target]))
    BY <1>0, <1>12, <1>s, RemoveFlatShape
  <2>2. ASSUME NEW e, e = Entry("removed", "removed", disk[Target]), AsApproved(Target) PROVE Good(e)
    <3>1. e.kind = "removed" /\ e.path = Target /\ e.state = "removed" /\ e.original = disk[Target]
      BY <2>2 DEF Entry
    <3> QED
      BY <1>2, <1>k, <2>1, <2>2, <3>1 DEF EntryOK, Live, AsApproved
  <2> QED
    BY <1>a, <1>c, <1>n, <2>1, <2>2
<1>13. CASE RestoreParentMode
  <2>1. /\ pc' \in {"ended", "failed"}
        /\ \/ ActiveModes = {} /\ journal' = journal
           \/ journal' = Settled
           \/ pc' = "failed" /\ journal' = journal
    BY <1>0, <1>13, <1>s, RestoreParentModeShape
  <2>2. CASE journal' = journal
    <3>1. \A i \in DOMAIN journal : Live(journal[i]) => i \in ActiveModes
      BY <1>0 DEF Live, ActiveModes
    <3>2. ActiveModes = {} => \A i \in DOMAIN journal' : ~Live(journal'[i])
      BY <2>2, <3>1
    <3>3. pc' = "failed" \/ ActiveModes = {} \/ journal' = Settled
      BY <2>1
    <3>4. journal = Settled => \A i \in DOMAIN journal' : ~Live(journal'[i])
      BY <1>0, <2>2, SettledFacts DEF Live, Active
    <3> QED
      BY <1>c, <2>2, <3>2, <3>3, <3>4
  <2>3. CASE journal' = Settled
    <3>1. /\ DOMAIN journal' = DOMAIN journal
          /\ \A i \in DOMAIN journal :
                /\ journal'[i].kind = journal[i].kind /\ journal'[i].path = journal[i].path
                /\ journal'[i].original = journal[i].original
                /\ \/ ~Live(journal[i]) /\ journal'[i] = journal[i]
                   \/ Live(journal[i]) /\ journal'[i].state = "settled"
      BY <1>0, <2>3, SettledFacts DEF Live, Active
    <3>2. ASSUME NEW i \in DOMAIN journal PROVE Good(journal'[i]) /\ ~Live(journal'[i])
      <4>1. CASE ~Live(journal[i]) /\ journal'[i] = journal[i]
        BY <1>3, <4>1
      <4>2. CASE Live(journal[i]) /\ journal'[i].state = "settled"
        BY <1>3, <3>1, <4>2 DEF Live, EntryOK
      <4> QED
        BY <3>1, <4>1, <4>2
    <3> QED
      BY <3>1, <3>2 DEF G
  <2> QED
    BY <2>1, <2>2, <2>3
<1>14. CASE EndOperation
  <2>1. pc = "ended" /\ journal' = journal
    BY <1>0, <1>14, EndOperationShape
  <2> QED
    BY <1>4, <1>c, <2>1
<1> QED
  BY <1>q, <1>5, <1>6, <1>7, <1>8, <1>9, <1>10, <1>11, <1>12, <1>13, <1>14 DEF Operation, Verify

(* The journal over every step: empty outside an apply, of entries in      *)
(* order, with no mode left open between two operations.                   *)
LEMMA JournalStep ==
    ASSUME Core, Next
    PROVE  /\ pc' \notin ApplyPhases \cup {"done"} => journal' = <<>>
           /\ (\A i \in DOMAIN journal : EntryOK(journal[i]))'
           /\ (pc \in OpPhases => \A i \in DOMAIN journal : Active(i) => journal[i].path = Parent[Target])'
           /\ (pc \in {"next", "ended", "revalidating"} => \A i \in DOMAIN journal : ~Active(i))'
<1>0. TypeOK /\ JournalInv /\ journal \in Seq(EntryType)
  BY DEF Core, TypeOK
<1>s. \A n, x : (Goes(n) => pc' = n) /\ (Slips(n, x) => pc' = n) /\ (Refuses(n, x) => pc' = "done")
                /\ (Leaves => pc' = "done")
  BY DEF Goes, Slips, Refuses, Leaves
<1>p. /\ {"idle", "inspected", "crashed", "stage1", "staged1", "stage2", "staged2", "planned", "lock",
          "check"} \cap (ApplyPhases \cup {"done"}) = {}
      /\ {"next", "ended", "failed", "recovering", "revalidating"} \cap OpPhases = {}
      /\ {"next", "ended", "failed", "recovering", "revalidating"} \cup OpPhases \subseteq ApplyPhases
      /\ "done" \notin OpPhases
  BY DEF ApplyPhases, OpPhases, DirPhases, FilePhases, ReplacePhases
<1>q. SUFFICES /\ pc' \notin ApplyPhases \cup {"done"} => journal' = <<>>
               /\ (\A i \in DOMAIN journal : EntryOK(journal[i]))'
               /\ pc' \in OpPhases => \A i \in DOMAIN journal' : Live(journal'[i]) => journal'[i].path = Parent[Target']
               /\ pc' \in {"next", "ended", "revalidating"} => \A i \in DOMAIN journal' : ~Live(journal'[i])
  BY DEF Active, Live
<1> DEFINE G1 == pc' \notin ApplyPhases \cup {"done"} => journal' = <<>>
           G2 == (\A i \in DOMAIN journal : EntryOK(journal[i]))'
           G3 == pc' \in OpPhases => \A i \in DOMAIN journal' : Live(journal'[i]) => journal'[i].path = Parent[Target']
           G4 == pc' \in {"next", "ended", "revalidating"} => \A i \in DOMAIN journal' : ~Live(journal'[i])
<1>1. ASSUME journal' = <<>> PROVE G1 /\ G2 /\ G3 /\ G4
  <2>1. DOMAIN journal' = {}
    BY <1>1
  <2> QED
    BY <1>1, <2>1
<1>2. ASSUME UNCHANGED <<manifest, approved>>, touched \subseteq touched',
             \A i \in DOMAIN journal' : EntryOK(journal'[i])
      PROVE  G2
  BY <1>2 DEF EntryOK
<1>3. \A i \in DOMAIN journal : EntryOK(journal[i])
  BY <1>0 DEF JournalInv
<1> HIDE DEF G2
<1>4. CASE Inspect \/ Plan \/ CreateCandidateDir \/ CloseCandidateDir \/ ApplyStart \/ AcquireExistingLock
           \/ CheckPrestates
  <2>1. /\ journal' = journal
        /\ pc \in {"idle", "inspected", "stage1", "staged1", "stage2", "staged2", "planned", "lock", "check"}
    BY <1>0, <1>4, InspectShape, PlanShape, CandidateDirShape, ApplyStartShape, AcquireExistingLockShape,
       CheckPrestatesShape
  <2>2. journal' = <<>>
    BY <1>0, <1>p, <2>1 DEF JournalInv
  <2> QED
    BY <1>1, <2>2
<1>5. CASE Crash \/ StartOver
  <2>1. journal' = <<>> \/ (pc = "crashed" /\ journal' = journal)
    BY <1>0, <1>5, CrashShape, StartOverShape DEF Core
  <2> QED
    BY <1>0, <1>1, <1>p, <2>1 DEF JournalInv
<1>6. CASE Operation
  <2>1. UNCHANGED <<manifest, approved, touched>>
    <3>1. EndOperation => UNCHANGED <<manifest, approved, touched>>
      BY <1>0, EndOperationShape
    <3>2. OperationFrame => UNCHANGED <<manifest, approved, touched>>
      BY Steady
    <3>3. OperationFrame \/ EndOperation
      BY <1>0, <1>6, BeginOperationShape, MakeDirectoryShape, IdentifyDirectoryShape,
         InstallDirectoryShape, OpenFileShape, FillFileShape, OpenTemporaryShape, FillTemporaryShape,
         InstallReplacementShape, RemoveFlatShape, VerifyShape, RestoreParentModeShape DEF Operation, Verify
    <3> QED
      BY <3>1, <3>2, <3>3
  <2>2. /\ pc' \in ApplyPhases /\ pc' # "revalidating"
        /\ pc' \in OpPhases => Target' = Target
    <3>1. EndOperation => pc' \in {"next", "failed"}
      BY <1>0, <1>s, EndOperationShape
    <3>2. OperationFrame => Target' = Target
      BY Steady
    <3>3. EndOperation \/ (/\ OperationFrame
                           /\ pc' \in {"operation", "dir-made", "dir-named", "dir-installed", "file-opened",
                                       "file-filled", "temp-opened", "temp-filled", "replaced", "unlinked",
                                       "restoring", "ended", "failed"})
      BY <1>0, <1>6, <1>s, BeginOperationShape, MakeDirectoryShape, IdentifyDirectoryShape,
         InstallDirectoryShape, OpenFileShape, FillFileShape, OpenTemporaryShape, FillTemporaryShape,
         InstallReplacementShape, RemoveFlatShape, VerifyShape, RestoreParentModeShape DEF Operation, Verify
    <3>4. {"operation", "dir-made", "dir-named", "dir-installed", "file-opened",
           "file-filled", "temp-opened", "temp-filled", "replaced", "unlinked",
           "restoring", "ended", "failed"} \subseteq ApplyPhases \ {"revalidating"}
      BY DEF ApplyPhases, OpPhases, DirPhases, FilePhases, ReplacePhases
    <3> QED
      BY <1>p, <3>1, <3>2, <3>3, <3>4
  <2>3. G2
    BY <1>2, <1>6, <2>1, JournalDuring
  <2>4. G3
    BY <1>6, <2>2, JournalDuring
  <2>5. G4
    BY <1>6, <2>2, JournalDuring
  <2> QED
    BY <2>2, <2>3, <2>4, <2>5 DEF G2
<1>7. CASE Validate \/ Revalidate \/ HandleFailure \/ Classify
  <2>1. /\ UNCHANGED <<manifest, approved, touched, journal>>
        /\ pc = "next" \/ pc' # "revalidating"
        /\ pc' \in {"revalidating", "failed", "done", "recovering"}
    BY <1>0, <1>7, <1>s, ValidateShape, RevalidateShape, HandleFailureShape, ClassifyShape, Steady
  <2>2. pc = "next" => \A i \in DOMAIN journal : ~Live(journal[i])
    BY <1>0 DEF JournalInv, Active, Live
  <2> QED
    BY <1>2, <1>3, <1>p, <2>1, <2>2 DEF G2
<1>8. CASE RecoverEntry
  <2>1. /\ UNCHANGED <<manifest, approved, touched>> /\ journal # <<>> /\ journal' = Front(journal)
        /\ pc' = "recovering"
    BY <1>0, <1>8, RecoverEntryShape
  <2>2. \A i \in DOMAIN journal' : EntryOK(journal'[i])
    BY <1>0, <1>3, <2>1, Shortened
  <2> QED
    BY <1>2, <1>p, <2>1, <2>2 DEF G2
<1>9. ASSUME NEW p \in EditPaths, Edit(p) PROVE G1 /\ G2 /\ G3 /\ G4
  <2>1. /\ UNCHANGED <<manifest, approved, journal, pc>> /\ touched \subseteq touched' /\ Target' = Target
    BY <1>0, <1>9, EditShape
  <2>2. G1 /\ G3 /\ G4
    BY <1>0, <2>1 DEF JournalInv, Active, Live
  <2> QED
    BY <1>2, <1>3, <2>1, <2>2
<1> QED
  BY <1>4, <1>5, <1>6, <1>7, <1>8, <1>9 DEF Next, Command, ApplyCommand, G2

(* What an operation changes has an entry that covers it, or is brought    *)
(* back to what was approved; and the entries there were go on covering.   *)
LEMMA OperationEffect ==
    ASSUME Core, Operation, NEW p \in Owned
    PROVE  \/ /\ disk'[p] = disk[p]
              /\ \A i \in DOMAIN journal : Covers(journal[i], p) =>
                    \E k \in DOMAIN journal' : Covers(journal'[k], p)
           \/ /\ \E k \in DOMAIN journal' : Covers(journal'[k], p)
              /\ disk'[p].kind = "dir" => disk'[p].rw
           \/ SamePrestate(disk'[p], approved.nodes[p])
<1>0. TypeOK /\ PlanInv /\ OperationInv /\ JournalInv /\ journal \in Seq(EntryType)
      /\ disk \in [Paths -> Nodes] /\ p \in Paths
  BY PathSets DEF Core, TypeOK
<1>1. manifest.mode # None /\ (pc = "next" \/ pc \in OpPhases \/ pc = "ended")
  <2>1. pc \in {"next", "ended"} \cup OpPhases
    BY Zenon DEF Operation, BeginOperation, MakeDirectory, IdentifyDirectory, InstallDirectory, OpenFile,
       FillFile, OpenTemporary, FillTemporary, InstallReplacement, RemoveFlat, VerifyDirectory,
       VerifyFile, VerifyReplacement, VerifyRemoved, RestoreParentMode, EndOperation, OpPhases,
       DirPhases, FilePhases, ReplacePhases
  <2> QED
    BY <1>0, <2>1 DEF PlanInv, ApplyPhases, OpPhases, DirPhases, FilePhases, ReplacePhases
<1>t. pc \in OpPhases \cup {"ended"} => todo # {}
  BY <1>0 DEF OperationInv
<1>u. todo # {} => /\ Target \in Owned /\ Target \in Paths /\ Parent[Target] \in Paths /\ Wanted \in Nodes
                   /\ Parent[Target] # Target
                   /\ Kind = "create-directory" => Wanted = Dir(TRUE, "apply")
                   /\ Kind \in {"create-file", "replace-file"} => Wanted.kind = "file"
  <2> SUFFICES ASSUME todo # {}
               PROVE  /\ Target \in Owned /\ Target \in Paths /\ Parent[Target] \in Paths /\ Wanted \in Nodes
                      /\ Parent[Target] # Target
                      /\ Kind = "create-directory" => Wanted = Dir(TRUE, "apply")
                      /\ Kind \in {"create-file", "replace-file"} => Wanted.kind = "file"
    OBVIOUS
  <2>1. /\ Target \in Owned /\ Wanted \in Nodes
        /\ Kind = "create-directory" => Wanted = Dir(TRUE, "apply")
        /\ Kind \in {"create-file", "replace-file"} => Wanted = DesiredFile(Wanted.text)
    BY <1>1, TargetFacts
  <2>2. \A t : DesiredFile(t).kind = "file"
    BY Made
  <2> QED
    BY <2>1, <2>2, Parents, PathSets
<1> DEFINE Stays == \A i \in DOMAIN journal : Covers(journal[i], p) =>
                       \E k \in DOMAIN journal' : Covers(journal'[k], p)
           Covered == \E k \in DOMAIN journal' : Covers(journal'[k], p)
           Free == disk'[p].kind = "dir" => disk'[p].rw
           Back == SamePrestate(disk'[p], approved.nodes[p])
           Goal == (disk'[p] = disk[p] /\ Stays) \/ (Covered /\ Free) \/ Back
<1>a. journal' = journal => Stays
  OBVIOUS
<1>b. ASSUME NEW e, journal' = Append(journal, e) PROVE Stays /\ (Covers(e, p) => Covered)
  BY <1>0, <1>b, Appended
<1>c. ASSUME NEW s \in {"temporary", "installed"}, journal # <<>>, journal' = LastState(s),
             Last(journal).kind = "dir" => Last(journal).state # "installed",
             Last(journal).kind # "mode"
      PROVE  Stays /\ (Covers(Last(journal'), p) => Covered)
  <2> DEFINE j == journal'
  <2>1. /\ j # <<>> /\ DOMAIN j = DOMAIN journal
        /\ Last(j).kind = Last(journal).kind /\ Last(j).path = Last(journal).path
        /\ Last(j).state = s /\ Last(j).original = Last(journal).original
        /\ \A i \in DOMAIN journal : j[i] = journal[i] \/ (j[i] = Last(j) /\ journal[i] = Last(journal))
        /\ \E i \in DOMAIN journal : j[i] = Last(j)
    BY <1>0, <1>c, Restated
  <2>2. Covers(Last(journal), p) => Covers(Last(j), p)
    BY <1>c, <2>1 DEF Covers
  <2> QED
    BY <2>1, <2>2
<1> HIDE DEF Stays, Covered, Free, Back
<1>g. SUFFICES Goal
  BY DEF Stays, Covered, Free, Back
<1>d. disk' = disk /\ Stays => Goal
  OBVIOUS
<1>e. ASSUME NEW q \in Paths, NEW n, disk' = [disk EXCEPT ![q] = n],
             q = p => Covered /\ (n.kind = "dir" => n.rw), Stays
      PROVE  Goal
  <2>1. CASE q = p
    <3>1. disk'[p] = n
      BY <1>0, <1>e, <2>1
    <3> QED
      BY <1>e, <2>1, <3>1 DEF Free
  <2>2. CASE q # p
    BY <1>0, <1>e, <2>2
  <2> QED
    BY <2>1, <2>2
<1>5. CASE BeginOperation
  <2>1. /\ todo # {}
        /\ \/ disk' = disk /\ journal' = journal
           \/ /\ disk' = disk \/ disk' = [disk EXCEPT ![Parent[Target]].rw = TRUE]
              /\ journal' = Append(journal, Widened(Parent[Target]))
    BY <1>0, <1>5, BeginOperationShape
  <2>2. CASE journal' = Append(journal, Widened(Parent[Target]))
             /\ disk' = [disk EXCEPT ![Parent[Target]].rw = TRUE]
    <3>1. disk' = Opened(disk, Parent[Target])
      BY <2>2 DEF Opened
    <3>2. /\ Opened(disk, Parent[Target])[Parent[Target]].rw = TRUE
          /\ \A q \in Paths : q # Parent[Target] => Opened(disk, Parent[Target])[q] = disk[q]
      BY ONLY <1>0, <1>u, <2>1, Widening, Zenon
    <3>3. p = Parent[Target] => Covers(Widened(Parent[Target]), p)
      BY DEF Covers, Widened
    <3>4. Stays /\ (p = Parent[Target] => Covered)
      BY <1>b, <2>2, <3>3
    <3> QED
      BY <1>0, <3>1, <3>2, <3>4 DEF Free
  <2> QED
    BY <1>a, <1>b, <1>d, <2>1, <2>2
<1>6. CASE MakeDirectory \/ OpenTemporary
  <2>1. disk' = disk /\ (journal' = journal \/ \E e : journal' = Append(journal, e))
    BY <1>0, <1>6, MakeDirectoryShape, OpenTemporaryShape
  <2> QED
    BY <1>a, <1>b, <1>d, <2>1
<1>7. CASE IdentifyDirectory
  <2>1. /\ pc = "dir-made" /\ disk' = disk
        /\ journal' = journal \/ journal' = LastState("temporary")
    BY <1>0, <1>7, IdentifyDirectoryShape
  <2>2. journal # <<>> /\ Last(journal).kind = "dir" /\ Last(journal).state = "unknown"
    BY <1>0, <2>1 DEF OperationInv, LastIs
  <2> QED
    BY <1>a, <1>c, <1>d, <2>1, <2>2
<1>8. CASE InstallDirectory
  <2>1. /\ pc = "dir-named"
        /\ \/ disk' = disk /\ journal' = journal
           \/ disk' = [disk EXCEPT ![Target] = Wanted] /\ journal' = LastState("installed")
    BY <1>0, <1>8, InstallDirectoryShape
  <2>2. /\ journal # <<>> /\ Last(journal).kind = "dir" /\ Last(journal).state = "temporary"
        /\ Last(journal).path = Target /\ Kind = "create-directory" /\ todo # {}
    BY <1>0, <1>t, <2>1 DEF OperationInv, LastIs, DirPhases, OpPhases
  <2>3. CASE disk' = [disk EXCEPT ![Target] = Wanted] /\ journal' = LastState("installed")
    <3>1. Stays /\ (Covers(Last(journal'), p) => Covered)
      BY <1>c, <2>2, <2>3
    <3>2. Target = p => Covers(Last(journal'), p)
      BY <1>0, <2>2, <2>3, Restated DEF Covers
    <3>3. Wanted.rw
      BY <1>u, <2>2, Made, ZenonT(30)
    <3> QED
      BY <1>e, <1>u, <2>2, <2>3, <3>1, <3>2, <3>3
  <2> QED
    BY <1>a, <1>d, <2>1, <2>3
<1>9. CASE OpenFile
  <2>1. /\ pc = "operation"
        /\ \/ disk' = disk /\ journal' = journal
           \/ /\ disk' = [disk EXCEPT ![Target] = File(NoText, "apply")]
              /\ \E s : journal' = Append(journal, Entry("file", s, Missing))
    BY <1>0, <1>9, OpenFileShape
  <2>2. CASE /\ disk' = [disk EXCEPT ![Target] = File(NoText, "apply")]
             /\ \E s : journal' = Append(journal, Entry("file", s, Missing))
    <3>1. \A s : Target = p => Covers(Entry("file", s, Missing), p)
      BY DEF Covers, Entry
    <3>2. Stays /\ (Target = p => Covered)
      BY <1>b, <2>2, <3>1
    <3>3. File(NoText, "apply").kind = "file"
      BY Made
    <3>4. Target \in Paths
      BY <1>t, <1>u, <2>1 DEF OpPhases
    <3> QED
      BY <1>e, <2>2, <3>2, <3>3, <3>4
  <2> QED
    BY <1>a, <1>d, <2>1, <2>2
<1>10. CASE FillFile
  <2>1. /\ pc = "file-opened" /\ journal' = journal
        /\ disk' = disk \/ disk' = [disk EXCEPT ![Target] = Wanted]
           \/ disk' = [disk EXCEPT ![Target] = File("torn", "apply")]
    BY <1>0, <1>10, FillFileShape
  <2>2. /\ journal # <<>> /\ Last(journal).kind = "file" /\ Last(journal).path = Target /\ todo # {}
        /\ Kind = "create-file"
    BY <1>0, <1>t, <2>1 DEF OperationInv, LastIs, FilePhases, OpPhases
  <2>3. Stays /\ (Target = p => Covered)
    <3>1. \E i \in DOMAIN journal : journal[i] = Last(journal)
      BY <1>0, <2>2 DEF Last
    <3>2. Target = p => Covers(Last(journal), p)
      BY <2>2 DEF Covers
    <3> QED
      BY <1>a, <2>1, <3>1, <3>2 DEF Covered
  <2>4. File("torn", "apply").kind = "file"
    BY Made
  <2> QED
    BY <1>d, <1>e, <1>u, <2>1, <2>2, <2>3, <2>4
<1>11. CASE FillTemporary \/ Verify
  <2>1. journal' = journal /\ disk' = disk
    BY <1>0, <1>11, FillTemporaryShape, VerifyShape
  <2> QED
    BY <1>a, <1>d, <2>1
<1>12. CASE InstallReplacement
  <2>1. /\ pc = "temp-filled"
        /\ \/ disk' = disk /\ journal' = journal
           \/ disk' = [disk EXCEPT ![Target] = Wanted] /\ journal' = LastState("installed")
    BY <1>0, <1>12, InstallReplacementShape
  <2>2. /\ journal # <<>> /\ Last(journal).kind = "replaced" /\ Last(journal).path = Target
        /\ Kind = "replace-file" /\ todo # {}
    BY <1>0, <1>t, <2>1 DEF OperationInv, LastIs, ReplacePhases, OpPhases
  <2>3. CASE disk' = [disk EXCEPT ![Target] = Wanted] /\ journal' = LastState("installed")
    <3>1. Stays /\ (Covers(Last(journal'), p) => Covered)
      BY <1>c, <2>2, <2>3
    <3>2. Target = p => Covers(Last(journal'), p)
      BY <1>0, <2>2, <2>3, Restated DEF Covers
    <3> QED
      BY <1>e, <1>u, <2>2, <2>3, <3>1, <3>2
  <2> QED
    BY <1>a, <1>d, <2>1, <2>3
<1>13. CASE RemoveFlat
  <2>1. /\ pc = "operation"
        /\ \/ disk' = disk /\ journal' = journal
           \/ /\ disk' = [disk EXCEPT ![Target] = Missing]
              /\ journal' = Append(journal, Entry("removed", "removed", disk[Target]))
    BY <1>0, <1>13, RemoveFlatShape
  <2>2. CASE /\ disk' = [disk EXCEPT ![Target] = Missing]
             /\ journal' = Append(journal, Entry("removed", "removed", disk[Target]))
    <3>1. Target = p => Covers(Entry("removed", "removed", disk[Target]), p)
      BY DEF Covers, Entry
    <3>2. Stays /\ (Target = p => Covered)
      BY <1>b, <2>2, <3>1
    <3>3. Missing.kind = "missing"
      BY DEF Missing, NodeOf
    <3>4. Target \in Paths
      BY <1>t, <1>u, <2>1 DEF OpPhases
    <3> QED
      BY <1>e, <2>2, <3>2, <3>3, <3>4
  <2> QED
    BY <1>a, <1>d, <2>1, <2>2
<1>14. CASE RestoreParentMode
  <2>1. /\ pc = "restoring"
        /\ \/ disk' = disk /\ journal' = journal
           \/ disk' = Narrowed /\ journal' \in {journal, Settled}
    BY <1>0, <1>14, RestoreParentModeShape
  <2>2. \A i \in ActiveModes : /\ journal[i].path = Parent[Target] /\ EntryOK(journal[i])
                               /\ journal[i].kind = "mode"
    BY <1>0, <2>1 DEF JournalInv, ActiveModes, Active, OpPhases
  <2>3. disk[Parent[Target]].kind = "dir"
    BY <1>0, <2>1 DEF OperationInv, OpPhases
  <2>4. \A i \in ActiveModes : disk[journal[i].path].kind = "dir"
    BY <2>2, <2>3
  <2>5. CASE disk' = Narrowed /\ \E i \in ActiveModes : journal[i].path = p
    <3>1. PICK i \in ActiveModes : journal[i].path = p
      BY <2>5
    <3>2. disk[p].kind = "dir" /\ disk[p] \in Nodes
      BY <1>0, <2>4, <3>1
    <3>3. p \in Dirs /\ approved.nodes[p].kind = "dir" /\ ~approved.nodes[p].rw
      BY <1>0, <2>2, <3>1, PathSets DEF EntryOK
    <3>4. approved.nodes[p] \in Nodes
      BY <1>0, <1>1 DEF PlanInv, Planned, SeenNodes
    <3>5. Narrowed[p].kind = "dir" /\ Narrowed[p].rw = FALSE /\ Narrowed[p] \in Nodes
      <4>1. Narrowed[p] = [disk[p] EXCEPT !.rw = FALSE]
        BY <1>0, <2>5 DEF Narrowed
      <4>2. \A m, x : m = [disk[p] EXCEPT !.rw = x] => m.rw = x
        BY ONLY <3>2, ModeOf
      <4>3. Narrowed[p].rw = FALSE
        BY ONLY <4>1, <4>2, Zenon
      <4> QED
        BY <1>0, <2>4, <3>2, <4>3, NarrowedFacts
    <3>6. disk'[p].text = NoText /\ approved.nodes[p].text = NoText
      BY <2>5, <3>3, <3>4, <3>5, NodeShape
    <3>7. disk'[p].rw = approved.nodes[p].rw
      BY <2>5, <3>3, <3>4, <3>5, NodeShape
    <3> QED
      BY <2>5, <3>3, <3>4, <3>5, <3>6, <3>7, SameMeans DEF Back
  <2>6. CASE disk' = Narrowed /\ \A i \in ActiveModes : journal[i].path # p
    <3>1. disk'[p] = disk[p]
      BY <1>0, <2>6 DEF Narrowed
    <3>2. Stays
      <4>1. journal' = Settled => Stays
        <5>1. ASSUME journal' = Settled, NEW i \in DOMAIN journal, Covers(journal[i], p)
              PROVE  i \in DOMAIN journal' /\ Covers(journal'[i], p)
          <6>1. ~Active(i)
            BY <1>0, <2>6, <5>1 DEF Active, ActiveModes, Covers
          <6> QED
            BY <1>0, <5>1, <6>1, SettledFacts
        <5> QED
          BY <5>1 DEF Stays
      <4> QED
        BY <1>a, <2>1, <4>1
    <3> QED
      BY <3>1, <3>2
  <2> QED
    BY <1>a, <1>d, <2>1, <2>5, <2>6
<1>15. CASE EndOperation
  <2>1. journal' = journal /\ (disk' = disk \/ disk' = WithLockFile(disk))
    BY <1>0, <1>15, EndOperationShape
  <2>2. disk'[p] = disk[p]
    BY <1>0, <2>1, PathSets DEF WithLockFile
  <2> QED
    BY <1>a, <2>1, <2>2
<1> QED
  BY <1>5, <1>6, <1>7, <1>8, <1>9, <1>10, <1>11, <1>12, <1>13, <1>14, <1>15 DEF Operation, Verify

(* Until a rollback has begun, only directories that were inspected so are *)
(* closed to their owner.                                                  *)
LEMMA ModesStep ==
    ASSUME Core, Next
    PROVE  (Approving /\ pc \notin {"recovering", "done"} =>
              \A d \in Dirs : disk[d].kind = "dir" /\ ~disk[d].rw =>
                 approved.nodes[d].kind = "dir" /\ ~approved.nodes[d].rw)'
<1>0. TypeOK /\ JournalInv /\ PlanInv /\ disk \in [Paths -> Nodes] /\ Dirs \subseteq Owned /\ Dirs \subseteq Paths
      /\ Lock \notin Dirs /\ Owned \subseteq Paths
  BY PathSets DEF Core, TypeOK
<1>s. \A n, x : (Goes(n) => pc' = n) /\ (Slips(n, x) => pc' = n) /\ (Refuses(n, x) => pc' = "done")
                /\ (Leaves => pc' = "done")
  BY DEF Goes, Slips, Refuses, Leaves
<1> DEFINE Before == Approving /\ pc \notin {"recovering", "done"}
           After == (Approving /\ pc \notin {"recovering", "done"})'
           Closed1(d) == approved.nodes[d].kind = "dir" /\ ~approved.nodes[d].rw
           Goal == After => \A d \in Dirs : disk'[d].kind = "dir" /\ ~disk'[d].rw => Closed1(d)'
<1>g. SUFFICES Goal
  BY Zenon
<1>1. ASSUME approved' = approved, After => Before,
             \A d \in Dirs : disk'[d] = disk[d] \/ disk'[d].kind # "dir" \/ disk'[d].rw \/ Closed1(d)
      PROVE  Goal
  <2>1. Before => \A d \in Dirs : disk[d].kind = "dir" /\ ~disk[d].rw => Closed1(d)
    BY <1>0 DEF JournalInv
  <2> HIDE DEF Before, After
  <2> QED
    BY <1>1, <2>1
<1>2. pc' \in {"recovering", "done"} => ~After
  OBVIOUS
<1>3. ASSUME manifest' = manifest, pc \notin {"inspected", "crashed", "recovering", "done"}, pc' # "inspected"
      PROVE  After => Before
  BY <1>3 DEF Approving
<1>4. CASE Inspect
  <2>1. CASE approved' = Snapshot /\ disk' = disk
    <3>1. \A d \in Dirs : approved'.nodes[d] = Prestate(disk[d]) /\ disk[d] \in Nodes
      BY <1>0, <2>1 DEF Snapshot
    <3>2. \A d \in Dirs : approved'.nodes[d].kind = disk[d].kind /\ approved'.nodes[d].rw = disk[d].rw
      BY <3>1, PrestateFacts
    <3> QED
      BY <2>1, <3>2
  <2> QED
    BY <1>0, <1>2, <1>4, <1>s, <2>1, InspectShape DEF Goes, Refuses
<1>5. CASE Plan
  <2>1. pc = "inspected" /\ disk' = disk /\ approved' = approved
    BY <1>0, <1>5, PlanShape
  <2>2. After => Before
    BY <2>1 DEF Approving
  <2> QED
    BY <1>1, <2>1, <2>2
<1>6. CASE CreateCandidateDir \/ CloseCandidateDir \/ ApplyStart \/ CheckPrestates \/ AcquireExistingLock
  <2>1. /\ manifest' = manifest /\ approved' = approved
        /\ pc \in {"stage1", "staged1", "stage2", "staged2", "planned", "lock", "check"}
        /\ pc' \in {"stage2", "staged1", "staged2", "planned", "lock", "check", "next", "done"}
        /\ disk' = disk \/ disk' = WithLockFile(disk)
    BY <1>0, <1>6, <1>s, CandidateDirShape, ApplyStartShape, CheckPrestatesShape, AcquireExistingLockShape
  <2>2. \A d \in Dirs : disk'[d] = disk[d]
    BY <1>0, <2>1 DEF WithLockFile
  <2>3. After => Before
    BY <1>3, <2>1
  <2> QED
    BY <1>1, <2>1, <2>2, <2>3
<1>7. CASE Validate \/ Revalidate
  <2>1. /\ manifest' = manifest /\ approved' = approved /\ disk' = disk /\ pc \in {"next", "revalidating"}
        /\ pc' \in {"revalidating", "failed", "done"}
    BY <1>0, <1>7, <1>s, ValidateShape, RevalidateShape, Steady
  <2>3. After => Before
    BY <1>3, <2>1
  <2> QED
    BY <1>1, <2>1, <2>3
<1>8. CASE HandleFailure \/ RecoverEntry \/ Classify
  <2>1. pc' \in {"recovering", "done"}
    BY <1>0, <1>8, HandleFailureShape, RecoverEntryShape, ClassifyShape
  <2> QED
    BY <1>2, <2>1
<1>9. CASE Operation
  <2>1. /\ pc \notin {"inspected", "crashed", "recovering", "done"} /\ manifest.mode # None
    <3>1. pc \in {"next", "ended"} \cup OpPhases
      BY <1>9, Zenon DEF Operation, BeginOperation, MakeDirectory, IdentifyDirectory, InstallDirectory, OpenFile,
         FillFile, OpenTemporary, FillTemporary, InstallReplacement, RemoveFlat, VerifyDirectory,
         VerifyFile, VerifyReplacement, VerifyRemoved, RestoreParentMode, EndOperation, OpPhases,
         DirPhases, FilePhases, ReplacePhases
    <3> QED
      BY <1>0, <3>1 DEF PlanInv, ApplyPhases, OpPhases, DirPhases, FilePhases, ReplacePhases
  <2>2. approved' = approved /\ manifest' = manifest /\ pc' # "inspected"
    BY <1>0, <1>9, <1>s, BeginOperationShape, MakeDirectoryShape, IdentifyDirectoryShape,
       InstallDirectoryShape, OpenFileShape, FillFileShape, OpenTemporaryShape, FillTemporaryShape,
       InstallReplacementShape, RemoveFlatShape, VerifyShape, RestoreParentModeShape, EndOperationShape,
       Steady DEF Operation, Verify
  <2>3. ASSUME NEW d \in Dirs
        PROVE  disk'[d] = disk[d] \/ disk'[d].kind # "dir" \/ disk'[d].rw \/ Closed1(d)
    <3>1. approved.nodes[d] \in Nodes /\ disk'[d] \in Nodes
      BY <1>0, <1>9, <2>1, DiskStep DEF PlanInv, Planned, SeenNodes, Next, Command, ApplyCommand
    <3>2. SamePrestate(disk'[d], approved.nodes[d]) =>
             disk'[d].kind = approved.nodes[d].kind /\ disk'[d].rw = approved.nodes[d].rw
      BY <3>1, SameMeans
    <3> QED
      BY <1>0, <1>9, <3>2, OperationEffect
  <2> QED
    BY <1>1, <1>3, <2>1, <2>2, <2>3
<1>10. ASSUME NEW p \in EditPaths, Edit(p) PROVE Goal
  <2>1. approved' = approved /\ manifest' = manifest /\ pc' = pc /\ p \in Owned
    BY <1>0, <1>10, EditShape
  <2>2. \E n : disk' = [disk EXCEPT ![p] = n] /\ n.kind # "dir"
    BY <1>0, <1>10, EditShape
  <2>3. \A d \in Dirs : disk'[d] = disk[d] \/ disk'[d].kind # "dir"
    BY <1>0, <2>2
  <2>4. After => Before
    BY <2>1 DEF Approving
  <2> QED
    BY <1>1, <2>1, <2>3, <2>4
<1>11. CASE Crash \/ StartOver
  <2>1. pc' = "crashed" \/ (pc' = "idle" /\ manifest' = NoManifest)
    BY <1>0, <1>11, CrashShape, StartOverShape DEF Core
  <2>2. ~After
    BY <2>1 DEF Approving, NoManifest
  <2> QED
    BY <2>2
<1> QED
  BY <1>4, <1>5, <1>6, <1>7, <1>8, <1>9, <1>10, <1>11 DEF Next, Command, ApplyCommand

(* The core of the invariant is inductive.                                 *)
LEMMA CoreStep ==
    ASSUME Core, Next
    PROVE  Core'
<1>1. JournalInv'
  BY JournalStep, ModesStep DEF JournalInv
<1> QED
  BY <1>1, TypeStep, PlanInvStep, DiskStep, DirsStep, OperationInvStep DEF Core

(* It holds in the beginning.                                              *)
LEMMA InitCore ==
    ASSUME Init
    PROVE  Core
<1>1. /\ disk \in [Paths -> Nodes] /\ Tree(disk) /\ \A p \in Paths : disk[p].by # "apply"
      /\ head = disk /\ temps = NoTemps /\ stale = {} /\ staging = "none" /\ case \in Cases
      /\ pc = "idle" /\ manifest = NoManifest /\ todo = {} /\ journal = <<>>
      /\ locked = FALSE /\ madeLock = FALSE /\ lockSeen = Missing /\ report = NoReport
      /\ touched = {} /\ faults = 0
  BY InitShape
<1>p. /\ "idle" \in Phases /\ "idle" \notin EarlyPhases \cup ApplyPhases \cup {"done", "inspected", "crashed"}
      /\ OpPhases \subseteq ApplyPhases
      /\ "idle" \notin DirPhases /\ "idle" \notin FilePhases /\ "idle" \notin ReplacePhases
  BY DEF Phases, EarlyPhases, ApplyPhases, OpPhases, DirPhases, FilePhases, ReplacePhases
<1>2. manifest.mode = None /\ manifest \in [mode : {None, "minimal", "full"},
                                             kinds : [Owned -> OperationKinds], candidate : [Owned -> Nodes]]
  BY <1>1, NodeFacts DEF NoManifest, OperationKinds
<1>3. TypeOK
  <2>1. report \in ReportType
    <3>1. \A b : b = FALSE => b \in BOOLEAN
      OBVIOUS
    <3>2. NoReport \in ReportType
      BY DEF NoReport, ReportType, None
    <3> QED
      BY <1>1, <3>2
  <2>2. temps \in [Owned -> Texts \cup {None, "dir"}]
    BY <1>1 DEF NoTemps
  <2>3. journal \in Seq(EntryType) /\ faults \in Nat /\ todo \in SUBSET Owned /\ touched \in SUBSET Owned
        /\ stale \in SUBSET Owned
    BY <1>1
  <2>4. locked \in BOOLEAN /\ madeLock \in BOOLEAN /\ lockSeen \in Nodes
    BY <1>1, NodeFacts
  <2> QED
    BY <1>1, <1>2, <1>p, <2>1, <2>2, <2>3, <2>4 DEF TypeOK
<1>4. PlanInv
  BY <1>1, <1>2, <1>p DEF PlanInv
<1>5. DiskInv
  BY <1>1, <1>2, PathSets DEF DiskInv
<1>6. DirsInv
  BY <1>1, <1>p DEF DirsInv
<1>7. OperationInv
  BY <1>1, <1>p DEF OperationInv
<1>8. JournalInv
  BY <1>1, <1>2, <1>p DEF JournalInv, Approving
<1> QED
  BY <1>3, <1>4, <1>5, <1>6, <1>7, <1>8 DEF Core

(* ... and a stuttering step keeps it.                                     *)
LEMMA CoreStutter ==
    ASSUME Core, UNCHANGED vars
    PROVE  Core'
<1> USE DEF vars
<1>1. TypeOK' /\ PlanInv' /\ DiskInv' /\ DirsInv'
  BY DEF Core, TypeOK, PlanInv, Planned, PlannedPath, DiskInv, DirsInv
<1>2. OperationInv'
  BY DEF Core, OperationInv, Target, Kind, LastIs, AsApproved, Ours
<1>3. JournalInv'
  BY DEF Core, JournalInv, EntryOK, Active, Approving, Target
<1> QED
  BY <1>1, <1>2, <1>3 DEF Core

-----------------------------------------------------------------------------
(* Theorems. *)

(* Every variable has its type, and the plan, the repository, the          *)
(* operation under way and the journal fit together, in every reachable    *)
(* state: an operation's entry is the journal's last one, every entry      *)
(* stands for an operation of the plan and records what was approved or    *)
(* what the environment put there, and whatever exists lies in a directory *)
(* (apply_manifest_classified, make_parent_writable, recover).             *)
THEOREM CoreIsInvariant == Spec => []Core
<1>1. Init => Core
  BY InitCore
<1>2. Core /\ [Next]_vars => Core'
  BY CoreStep, CoreStutter
<1> QED
  BY <1>1, <1>2, PTL DEF Spec

(* No step of the command overwrites or removes what somebody else put in  *)
(* place of an approved file or the directory it lies in, for every        *)
(* repository, request and schedule of edits, failures and crashes.        *)
THEOREM ForeignWorkIsSafe == Spec => ForeignWorkSurvives
<1> DEFINE Kept == \A p \in touched : disk[p].text = "foreign" /\ ~AsApproved(p) /\ Command =>
                      disk'[p] = disk[p] /\ disk'[Parent[p]].kind = disk[Parent[p]].kind
<1>1. Core /\ Next => Kept
  <2> SUFFICES ASSUME Core, NEW p \in touched, disk[p].text = "foreign", ~AsApproved(p), Command
               PROVE  disk'[p] = disk[p] /\ disk'[Parent[p]].kind = disk[Parent[p]].kind
    OBVIOUS
  <2> QED
    BY CommandDisk DEF Spared, AsApproved
<1>2. Core /\ [Next]_vars => [Kept]_vars
  BY <1>1
<1> QED
  BY <1>2, CoreIsInvariant, PTL DEF Spec, ForeignWorkSurvives
==============================================================================
