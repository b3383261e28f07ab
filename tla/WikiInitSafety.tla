---------------------------- MODULE WikiInitSafety ----------------------------
(***************************************************************************)
(* What `yams-wiki init` reports, proved for any repositories, requests    *)
(* and environment, and any number of edits, failing calls and kills.      *)
(*                                                                         *)
(* Safe adds to the Core of WikiInitProofs the lock, what a success and a  *)
(* failure report, and that every difference from the inspected repository *)
(* is touched, reported or still in the journal.  QuietInv follows a run   *)
(* that nothing disturbs from its plan to its success.                     *)
(***************************************************************************)
EXTENDS WikiInitProofs

-----------------------------------------------------------------------------
(* The inductive invariants, in parts. *)

Accounted(p) == \/ AsApproved(p) \/ p \in touched \/ Reported(p)
                \/ \E i \in DOMAIN journal : Covers(journal[i], p)

InstalledMemory == \E i \in DOMAIN journal : /\ journal[i].kind = "dir" /\ journal[i].path = Memory
                                             /\ journal[i].state = "installed"

AccountInv ==
    /\ Approving => \A p \in Owned : Accounted(p)
    /\ Approving /\ Exists(disk, Lock) =>
         approved.nodes[Memory].kind = "dir" \/ Reported(Memory) \/ InstalledMemory
    /\ pc \in {"dir-installed", "ended"} \/ (pc = "restoring" /\ report.class = None) =>
         (Kind = "create-directory" /\ Target = Memory => InstalledMemory)

(* The write lock is held from the check on when the memory directory is   *)
(* there; when it is not, the plan makes it, and takes the lock then.      *)
LockInv ==
    /\ pc \in {"idle", "inspected", "crashed"} \cup (EarlyPhases \ {"check"}) => ~locked
    /\ pc = "check" => IF locked THEN Exists(disk, Lock)
                       ELSE approved.nodes[Memory].kind = "missing"
    /\ pc \in OpPhases \cup {"next", "ended", "revalidating"} =>
         \/ Memory \in todo /\ ~locked
         \/ lockSeen.kind # "missing"

(* Only a command that is done has succeeded.                              *)
SuccessInv == (report.ok => pc = "done") /\ SuccessIsApproved

(* A layout is what is there, or what was there when nothing was done.     *)
LayoutIsHonest == \/ report.layout = LayoutOf(disk, stale)
                  \/ report.layout = initial_layout /\ \A p \in Owned \ touched : AsApproved(p)

(* What a report that is not a success has to say, as it comes about.      *)
FailureInv ==
    /\ pc \notin {"recovering", "done"} => report.unresolved = {}
    /\ pc = "done" /\ ~report.ok => journal = <<>>
    /\ staging # "none" => \/ pc \in {"staged1", "staged2"}
                           \/ pc = "done" /\ TempOf(Root) \in report.unresolved
    /\ pc = "done" /\ ~report.ok =>
         \A p \in Owned : temps[p] # None => {TempOf(p), At(p), At(Root)} \cap report.unresolved # {}
    /\ report.layout \in {"absent", "minimal", "full"} /\ ~report.ok =>
         pc = "done" /\ report.unresolved = {} /\ LayoutIsHonest

(* Nothing has failed and nobody but this command has been there. *)
Quiet == manifest.mode # None /\ faults = 0 /\ touched = {} /\ stale = {}

(* A directory as it is but for a mode that is widened at the moment. *)
WidenedAt(p) == \E i \in DOMAIN journal : Active(i) /\ journal[i].path = p
Unwidened(p) == IF WidenedAt(p) THEN [disk[p] EXCEPT !.rw = FALSE] ELSE disk[p]

(* How far a path has come: as approved until its operation, as planned    *)
(* after it.                                                               *)
Progress(p) == IF p \in todo THEN AsApproved(p)
               ELSE SamePrestate(Unwidened(p), manifest.candidate[p])

TargetState ==
    /\ pc \in {"operation", "dir-made", "dir-named", "temp-opened", "temp-filled"} => AsApproved(Target)
    /\ pc = "file-opened" => Ours(Target)
    /\ pc \in {"dir-installed", "file-filled", "replaced", "unlinked"} => disk[Target] = Wanted
    /\ pc \in {"restoring", "ended"} => SamePrestate(disk[Target], Wanted)
    /\ pc \in {"temp-opened", "temp-filled"} => disk[Target] = Last(journal).original

StagePhases == {"stage1", "staged1", "stage2", "staged2", "planned"}
TempPhases == {"dir-made", "dir-named", "temp-opened", "temp-filled"}

(* What plan does not look at and apply cannot do without. *)
LockToTake == approved.nodes[Memory].kind = "dir" => Lockable(approved.nodes)

(* Past the lock there was one to take; without it nothing was done. *)
LockState ==
    /\ report.class \in {None, IF LockToTake THEN "success" ELSE "operational"}
    /\ report.class = "operational" => \A p \in Paths : AsApproved(p)
    /\ pc \in {"check"} \cup ApplyPhases => LockToTake

(* A run that nothing disturbs, step by step. *)
QuietState ==
    /\ LockState
    /\ pc # "done" => report.class = None
    /\ pc \notin {"failed", "recovering"}
    /\ pc \in StagePhases => Snapshot = approved
    /\ pc = "lock" => \A p \in Paths : AsApproved(p)
    /\ pc = "check" => \A p \in Owned : AsApproved(p)
    /\ pc \in {"next", "revalidating"} => \A p \in Owned : Progress(p)
    /\ pc \in OpPhases \cup {"ended"} => (\A p \in Owned \ {Target} : Progress(p)) /\ TargetState
    /\ pc \in ApplyPhases => disk[Lock] = lockSeen
    /\ pc \in ApplyPhases => \A p \in Owned : temps[p] # None => pc \in TempPhases /\ p = Target

QuietInv == /\ pc \in {"idle", "inspected", "crashed"} => report.class = None
            /\ Quiet => QuietState

-----------------------------------------------------------------------------
(* Layouts. *)

(* A valid wiki of its mode, by what the nodes are and say.                *)
Wiki(d, mode) ==
    /\ d[AgentsMd].kind = "file" /\ d[AgentsMd].text = "policy"
    /\ d[AgentsDir].kind = "dir" /\ d[Memory].kind = "dir"
    /\ d[Gitignore].kind = "file" /\ d[Gitignore].text = "ignore"
    /\ mode = "minimal" =>
         /\ ValidPage(d[Flat])
         /\ \A p \in {Pages, Schema, Index, Project, Extra} : d[p].kind = "missing"
    /\ mode = "full" =>
         /\ d[Flat].kind = "missing" /\ d[Pages].kind = "dir"
         /\ d[Schema].kind = "file" /\ d[Schema].text = "schema"
         /\ d[Index].kind = "file" /\ d[Index].text = CanonicalIndex(d)
         /\ ValidPage(d[Project])
         /\ d[Extra].kind # "missing" => ValidPage(d[Extra])

(* An owned candidate is one.                                              *)
LEMMA CandidateIsWiki ==
    ASSUME NEW c, NEW mode \in {"minimal", "full"}, validate_owned_candidate(c, mode)
    PROVE  Wiki(c, mode)
BY OwnedCandidate DEF Wiki

(* What has the kinds and the texts of a valid wiki is one.                *)
LEMMA WikiByContents ==
    ASSUME NEW c, NEW d, NEW mode \in {"minimal", "full"}, Wiki(c, mode),
           \A p \in Owned : d[p].kind = c[p].kind /\ d[p].text = c[p].text
    PROVE  Wiki(d, mode)
<1>1. \A p \in {AgentsMd, AgentsDir, Memory, Gitignore, Flat, Pages, Schema, Index, Project, Extra} :
        d[p].kind = c[p].kind /\ d[p].text = c[p].text
  BY PathSets
<1>2. CanonicalIndex(d) = CanonicalIndex(c)
  BY <1>1 DEF CanonicalIndex, Exists
<1>3. \A p \in {Flat, Project, Extra} : ValidPage(d[p]) <=> ValidPage(c[p])
  BY <1>1 DEF ValidPage
<1> QED
  BY <1>1, <1>2, <1>3 DEF Wiki

(* ... and a valid wiki of its mode is an owned candidate.                 *)
LEMMA WikiIsCandidate ==
    ASSUME NEW c, NEW mode \in {"minimal", "full"}, Wiki(c, mode)
    PROVE  validate_owned_candidate(c, mode)
<1>1. inspect_policy(c[AgentsMd]).exact
  BY DEF Wiki, inspect_policy
<1>2. {p \in Owned \ {Extra} : Exists(c, p)} =
         {AgentsMd, AgentsDir, Memory, Gitignore}
         \cup (IF mode = "minimal" THEN {Flat} ELSE {Schema, Index, Pages, Project})
  <2>1. Extra \notin {AgentsMd, AgentsDir, Memory, Gitignore, Flat, Pages, Schema, Index, Project}
    BY DEF AgentsMd, AgentsDir, Memory, Gitignore, Index, Schema, Pages, Flat, Project, Extra
  <2>2. {AgentsMd, AgentsDir, Memory, Gitignore, Flat, Pages, Schema, Index, Project} \subseteq Owned
    BY PathSets
  <2>3. CASE mode = "minimal"
    BY <2>1, <2>2, <2>3, OwnedPaths DEF Wiki, Exists, ValidPage
  <2>4. CASE mode = "full"
    BY <2>1, <2>2, <2>4, OwnedPaths DEF Wiki, Exists, ValidPage
  <2> QED
    BY <2>3, <2>4
<1>3. mode = "full" => validate_full_layout(c)
  BY <1>1 DEF Wiki, validate_full_layout, ShapeComplete, Exists, PagesValid, PagePaths, ValidPage
<1> QED
  BY <1>1, <1>2, <1>3 DEF Wiki, validate_owned_candidate, validate_candidate, Exists

(* A valid wiki is what an inspection takes it for.                        *)
LEMMA WikiLayout ==
    ASSUME NEW d, NEW mode \in {"minimal", "full"}, Wiki(d, mode)
    PROVE  LayoutOf(d, {}) = mode
<1>1. inspect_policy(d[AgentsMd]) = [heading_count |-> 1, exact |-> TRUE]
  BY DEF Wiki, inspect_policy
<1>2. validate_expected_kinds(d) = {}
  <2>1. \A p \in Owned : d[p].kind \in {"missing", IF p \in Dirs THEN "dir" ELSE "file"}
    <3>1. AgentsDir \in Dirs /\ Memory \in Dirs /\ Pages \in Dirs
          /\ \A p \in {AgentsMd, Gitignore, Flat, Schema, Index, Project, Extra} : p \notin Dirs
      BY PathSets
    <3> QED
      BY <3>1, OwnedPaths DEF Wiki, ValidPage
  <2> QED
    BY <2>1 DEF validate_expected_kinds, Exists
<1>3. validate_flat_page(d) /\ validate_memory_gitignore(d) /\ validate_schema(d)
  BY DEF Wiki, validate_flat_page, validate_memory_gitignore, validate_schema
<1>4. \A p \in PagePaths : Exists(d, p) => ValidPage(d[p])
  BY DEF Wiki, PagePaths, Exists
<1>5. ShapeComplete(d) => validate_full_layout(d)
  BY DEF Wiki, ShapeComplete, validate_full_layout, Exists
<1>6. Conflicts(d, {}) = {}
  <2>1. {p \in {AgentsMd} : LET q == inspect_policy(d[p]) IN q.heading_count > 0 /\ ~q.exact} = {}
    BY <1>1
  <2>2. /\ {p \in {Flat} : ~validate_flat_page(d)} = {}
        /\ {p \in {Gitignore} : ~validate_memory_gitignore(d)} = {}
        /\ {p \in {Schema} : ~validate_schema(d)} = {}
        /\ {p \in PagePaths : Exists(d, p) /\ ~ValidPage(d[p])} = {}
        /\ {p \in {Memory} : ShapeComplete(d) /\ ~validate_full_layout(d)} = {}
        /\ {p \in {} : Parent[p] = Pages} = {}
    BY <1>3, <1>4, <1>5
  <2> QED
    BY <1>2, <2>1, <2>2, Zenon DEF Conflicts
<1>7. CASE mode = "minimal"
  <2>1. Exists(d, Flat) /\ ~Structured(d)
    BY <1>7 DEF Wiki, Exists, Structured, ValidPage
  <2>2. ~validate_full_layout(d)
    BY <2>1 DEF validate_full_layout, ShapeComplete
  <2> QED
    BY <1>1, <1>6, <1>7, <2>1, <2>2 DEF LayoutOf
<1>8. CASE mode = "full"
  <2>1. ~Exists(d, Flat)
    BY <1>8 DEF Wiki, Exists
  <2>2. validate_full_layout(d)
    BY <1>1, <1>8 DEF Wiki, validate_full_layout, ShapeComplete, Exists, PagesValid, PagePaths, ValidPage
  <2> QED
    BY <1>1, <1>6, <1>8, <2>1, <2>2 DEF LayoutOf
<1> QED
  BY <1>7, <1>8

(* Without a memory directory, a policy or anything in the way there is no *)
(* wiki.                                                                   *)
LEMMA AbsentLayout ==
    ASSUME NEW d \in [Paths -> Nodes], Tree(d), ~Exists(d, Memory), ~Blocked(d),
           inspect_policy(d[AgentsMd]).heading_count = 0, \A p \in Files : d[p].kind # "dir"
    PROVE  LayoutOf(d, {}) = "absent"
<1>1. d[Memory].kind = "missing" /\ d[Memory].kind # "dir"
  BY DEF Exists
<1>2. \A p \in {Gitignore, Index, Schema, Pages, Flat} : d[p].kind = "missing"
  <2>1. \A p \in {Gitignore, Index, Schema, Pages, Flat} : p \in DOMAIN Parent /\ Parent[p] = Memory
    BY Parents, PathSets
  <2> QED
    BY <1>1, <2>1 DEF Tree
<1>3. d[Project].kind = "missing" /\ d[Extra].kind = "missing"
  <2>1. d[Pages].kind = "missing"
    BY <1>2
  <2>2. d[Pages].kind # "dir"
    BY <2>1
  <2>3. Project \in DOMAIN Parent /\ Extra \in DOMAIN Parent /\ Parent[Project] = Pages /\ Parent[Extra] = Pages
    BY Parents, PathSets
  <2> QED
    BY <2>2, <2>3 DEF Tree
<1>4. validate_expected_kinds(d) = {}
  <2>1. ASSUME NEW p \in Owned PROVE d[p].kind \in {"missing", IF p \in Dirs THEN "dir" ELSE "file"}
    <3>1. d[p] \in Nodes /\ d[p].kind \in {"missing", "file", "dir"}
      BY PathSets, NodeShape
    <3>2. CASE p \in Dirs
      <4>1. d[AgentsDir].kind # "file"
        BY DEF Blocked
      <4> QED
        BY <1>1, <1>2, <3>1, <3>2, <4>1 DEF Dirs
    <3>3. CASE p \notin Dirs
      BY <3>1, <3>3, PathSets
    <3> QED
      BY <3>2, <3>3
  <2> QED
    BY <2>1 DEF validate_expected_kinds, Exists
<1>5. validate_flat_page(d) /\ validate_memory_gitignore(d) /\ validate_schema(d)
  BY <1>2 DEF validate_flat_page, validate_memory_gitignore, validate_schema
<1>6. \A p \in PagePaths : ~Exists(d, p)
  BY <1>3 DEF PagePaths, Exists
<1>7. ~ShapeComplete(d)
  BY <1>3 DEF ShapeComplete, Exists
<1>8. Conflicts(d, {}) = {}
  <2>1. {p \in {AgentsMd} : LET q == inspect_policy(d[p]) IN q.heading_count > 0 /\ ~q.exact} = {}
    BY SMT
  <2>2. /\ {p \in {Flat} : ~validate_flat_page(d)} = {}
        /\ {p \in {Gitignore} : ~validate_memory_gitignore(d)} = {}
        /\ {p \in {Schema} : ~validate_schema(d)} = {}
        /\ {p \in PagePaths : Exists(d, p) /\ ~ValidPage(d[p])} = {}
        /\ {p \in {Memory} : ShapeComplete(d) /\ ~validate_full_layout(d)} = {}
        /\ {p \in {} : Parent[p] = Pages} = {}
    BY <1>5, <1>6, <1>7
  <2> QED
    BY <1>4, <2>1, <2>2, Zenon DEF Conflicts
<1>9. ~validate_full_layout(d) /\ ~Exists(d, Flat)
  BY <1>2, <1>7 DEF validate_full_layout, Exists
<1> QED
  BY <1>8, <1>9 DEF LayoutOf

-----------------------------------------------------------------------------
(* The write lock. *)

(* Which directories a plan operates on.                                   *)
LEMMA DirectoryKinds ==
    ASSUME TypeOK, PlanInv, manifest.mode # None, NEW d \in Dirs
    PROVE  /\ approved.nodes[d].kind \in {"missing", "dir"} /\ approved.nodes[d] \in Nodes
           /\ manifest.kinds[d] \in {None, "create-directory"}
           /\ manifest.kinds[d] = None => SamePrestate(approved.nodes[d], manifest.candidate[d])
           /\ manifest.kinds[d] = "create-directory" => approved.nodes[d].kind = "missing"
<1>1. Planned /\ d \in Owned /\ d \in Paths /\ d \notin Files
  BY PathSets DEF PlanInv
<1>2. PlannedPath(d) /\ approved.nodes[d] \in Nodes
  BY <1>1 DEF Planned, SeenNodes
<1>3. manifest.kinds[d] \in OperationKinds
  BY <1>1 DEF TypeOK
<1>4. Flat \in Files
  BY PathSets
<1> QED
  BY <1>1, <1>2, <1>3, <1>4 DEF PlannedPath, PlanOf, OperationKinds

(* The write lock over every step.                                         *)
LEMMA LockStep ==
    ASSUME Core, LockInv, Next
    PROVE  LockInv'
<1>0. TypeOK /\ PlanInv /\ OperationInv /\ DirsInv /\ disk \in [Paths -> Nodes] /\ Memory \in Owned /\ Memory \in Dirs
      /\ Lock \in Paths /\ Lock \notin Owned
  BY PathSets DEF Core, TypeOK
<1>s. \A n, x : (Goes(n) => pc' = n) /\ (Slips(n, x) => pc' = n) /\ (Refuses(n, x) => pc' = "done" /\ ~locked')
                /\ (Leaves => pc' = "done")
  BY DEF Goes, Slips, Refuses, Leaves
<1> DEFINE Calm == {"idle", "inspected", "crashed"} \cup (EarlyPhases \ {"check"})
           Busy == OpPhases \cup {"next", "ended", "revalidating"}
<1>p. /\ EarlyPhases = {"stage1", "staged1", "stage2", "staged2", "planned", "lock", "check"}
      /\ OpPhases = {"operation", "unlinked", "restoring", "dir-made", "dir-named", "dir-installed",
                     "file-opened", "file-filled", "temp-opened", "temp-filled", "replaced"}
  BY DEF EarlyPhases, OpPhases, DirPhases, FilePhases, ReplacePhases
<1>1. ASSUME pc' \in Calm => ~locked', pc' # "check", pc' \notin Busy PROVE LockInv'
  BY <1>1 DEF LockInv
<1>2. ASSUME pc' = "next" \/ pc' = "revalidating" \/ pc' \in OpPhases \/ pc' = "ended",
             (Memory \in todo' /\ ~locked') \/ lockSeen'.kind # "missing"
      PROVE  LockInv'
  BY <1>2, <1>p DEF LockInv
<1>3. CASE Inspect \/ Plan \/ CreateCandidateDir \/ CloseCandidateDir \/ ApplyStart
  <2>1. /\ pc \in {"idle", "inspected", "stage1", "staged1", "stage2", "staged2", "planned"}
        /\ pc' \in {"inspected", "stage1", "staged1", "stage2", "staged2", "planned", "lock", "done"}
        /\ pc' = "done" \/ locked' = locked
    BY <1>0, <1>3, <1>s, InspectShape, PlanShape, CandidateDirShape, ApplyStartShape
  <2> QED
    BY <1>1, <1>p, <2>1 DEF LockInv
<1>4. CASE AcquireExistingLock
  <2>1. /\ pc = "lock" /\ approved' = approved
        /\ \/ pc' = "done"
           \/ pc' = "check" /\ ~Exists(disk, Memory) /\ disk' = disk /\ locked' = locked
           \/ pc' = "check" /\ disk' = WithLockFile(disk) /\ locked' = TRUE
    BY <1>0, <1>4, <1>s, AcquireExistingLockShape
  <2>2. CASE pc' = "done"
    BY <1>1, <1>p, <2>2
  <2>3. CASE pc' = "check" /\ ~Exists(disk, Memory) /\ disk' = disk /\ locked' = locked
    <3>1. disk[Memory].kind # "dir"
      BY <2>3 DEF Exists
    <3>2. approved.nodes[Memory].kind = "missing"
      BY <1>0, <1>p, <2>1, <3>1, DirectoryKinds DEF DirsInv, PlanInv
    <3>3. ~locked'
      BY <1>p, <2>1, <2>3 DEF LockInv
    <3> QED
      BY <1>p, <2>1, <2>3, <3>2, <3>3 DEF LockInv
  <2>4. CASE pc' = "check" /\ disk' = WithLockFile(disk) /\ locked' = TRUE
    <3>1. Exists(disk', Lock)
      BY <1>0, <2>4, Made DEF WithLockFile, Exists
    <3> QED
      BY <1>p, <2>4, <3>1 DEF LockInv, Exists
  <2> QED
    BY <2>1, <2>2, <2>3, <2>4
<1>5. CASE CheckPrestates
  <2>1. /\ pc = "check"
        /\ \/ pc' = "done"
           \/ /\ pc' = "next" /\ lockSeen' = disk[Lock] /\ locked' = locked
              /\ todo' = {p \in Owned : manifest.kinds[p] # None}
    BY <1>0, <1>5, <1>s, CheckPrestatesShape
  <2>2. CASE pc' = "done"
    BY <1>1, <1>p, <2>2
  <2>3. CASE /\ pc' = "next" /\ lockSeen' = disk[Lock] /\ locked' = locked
             /\ todo' = {p \in Owned : manifest.kinds[p] # None}
    <3>1. locked => lockSeen'.kind # "missing"
      BY <2>1, <2>3 DEF LockInv, Exists
    <3>2. ASSUME ~locked PROVE manifest.kinds[Memory] # None
      <4>1. approved.nodes[Memory].kind = "missing"
        BY <2>1, <3>2 DEF LockInv
      <4>2. manifest.mode # None /\ manifest.mode \in {None, "minimal", "full"}
        BY <1>0, <1>p, <2>1 DEF PlanInv, TypeOK
      <4>3. manifest.candidate[Memory].kind = "dir" /\ manifest.candidate[Memory] \in Nodes
        BY <1>0, <4>2, OwnedCandidate DEF PlanInv, Planned, TypeOK
      <4>4. manifest.kinds[Memory] = None => SamePrestate(approved.nodes[Memory], manifest.candidate[Memory])
            /\ approved.nodes[Memory] \in Nodes
        BY <1>0, <4>2, DirectoryKinds
      <4>5. approved.nodes[Memory] \in Nodes
        BY <1>0, <4>2, DirectoryKinds
      <4> QED
        BY <4>1, <4>3, <4>4, <4>5, SameMeans
    <3> QED
      BY <1>0, <1>2, <2>3, <3>1, <3>2
  <2> QED
    BY <2>1, <2>2, <2>3
<1>6. CASE Validate
  <2>1. /\ pc = "next" /\ UNCHANGED <<todo, locked, lockSeen>> /\ pc' \in {"revalidating", "failed"}
    BY <1>0, <1>6, <1>s, ValidateShape, Steady
  <2> QED
    BY <1>1, <1>2, <1>p, <2>1 DEF LockInv
<1>7. CASE Revalidate \/ HandleFailure \/ RecoverEntry \/ Classify
  <2>1. pc' \in {"done", "failed", "recovering"}
    BY <1>0, <1>7, <1>s, RevalidateShape, HandleFailureShape, RecoverEntryShape, ClassifyShape
  <2> QED
    BY <1>1, <1>p, <2>1
<1>8. CASE Operation /\ ~EndOperation
  <2>1. /\ OperationFrame /\ pc \in {"next"} \cup OpPhases
        /\ pc' \in {"operation", "dir-made", "dir-named", "dir-installed", "file-opened",
                    "file-filled", "temp-opened", "temp-filled", "replaced", "unlinked",
                    "restoring", "ended", "failed"}
    BY <1>0, <1>p, <1>8, <1>s, BeginOperationShape, MakeDirectoryShape, IdentifyDirectoryShape,
       InstallDirectoryShape, OpenFileShape, FillFileShape, OpenTemporaryShape, FillTemporaryShape,
       InstallReplacementShape, RemoveFlatShape, VerifyShape, RestoreParentModeShape DEF Operation, Verify
  <2>2. UNCHANGED <<todo, locked, lockSeen>>
    BY <2>1, Steady
  <2>3. (Memory \in todo' /\ ~locked') \/ lockSeen'.kind # "missing"
    BY <2>1, <2>2 DEF LockInv
  <2> QED
    BY <1>1, <1>2, <1>p, <2>1, <2>3
<1>9. CASE EndOperation
  <2>1. /\ pc = "ended" /\ todo' = todo \ {Target}
        /\ \/ pc' = "next" /\ (locked \/ Target # Memory) /\ UNCHANGED <<locked, lockSeen>>
           \/ pc' = "next" /\ disk' = WithLockFile(disk) /\ lockSeen' = disk'[Lock]
           \/ pc' = "failed"
    BY <1>0, <1>9, <1>s, EndOperationShape
  <2>2. CASE pc' = "next" /\ (locked \/ Target # Memory) /\ UNCHANGED <<locked, lockSeen>>
    BY <1>2, <2>1, <2>2 DEF LockInv
  <2>3. CASE pc' = "next" /\ disk' = WithLockFile(disk) /\ lockSeen' = disk'[Lock]
    <3>1. Exists(disk', Lock)
      BY <1>0, <2>3, Made DEF WithLockFile, Exists
    <3> QED
      BY <1>2, <2>3, <3>1 DEF Exists
  <2> QED
    BY <1>1, <1>p, <2>1, <2>2, <2>3
<1>10. ASSUME NEW p \in EditPaths, Edit(p) PROVE LockInv'
  <2>1. /\ UNCHANGED <<pc, approved, todo, locked, lockSeen>> /\ p \in Owned
        /\ \E n : disk' = [disk EXCEPT ![p] = n]
    BY <1>0, <1>10, EditShape
  <2>2. disk'[Lock] = disk[Lock]
    BY <1>0, <2>1
  <2> QED
    BY <2>1, <2>2 DEF LockInv, Exists
<1>11. CASE Crash \/ StartOver
  <2>1. (pc' = "crashed" /\ ~locked') \/ (pc = "crashed" /\ pc' = "idle" /\ locked' = locked)
    BY <1>0, <1>11, CrashShape, StartOverShape DEF Core
  <2> QED
    BY <1>1, <1>p, <2>1 DEF LockInv
<1> QED
  BY <1>3, <1>4, <1>5, <1>6, <1>7, <1>8, <1>9, <1>10, <1>11 DEF Next, Command, ApplyCommand, Operation

-----------------------------------------------------------------------------
(* Success. *)

(* A command that is done takes no further step.                           *)
LEMMA NotDone ==
    ASSUME TypeOK, DiskInv, Next
    PROVE  pc # "done"
<1>1. Command => pc # "done"
  <2>1. Inspect \/ Plan \/ CreateCandidateDir \/ CloseCandidateDir => pc # "done"
    BY InspectShape, PlanShape, CandidateDirShape
  <2>2. ApplyStart \/ AcquireExistingLock \/ CheckPrestates \/ Validate \/ Revalidate \/ HandleFailure
           \/ RecoverEntry \/ Classify => pc # "done"
    BY ApplyStartShape, AcquireExistingLockShape, CheckPrestatesShape, ValidateShape, RevalidateShape,
       HandleFailureShape, RecoverEntryShape, ClassifyShape
  <2>3. Operation => pc # "done"
    BY Zenon DEF Operation, BeginOperation, MakeDirectory, IdentifyDirectory, InstallDirectory, OpenFile,
       FillFile, OpenTemporary, FillTemporary, InstallReplacement, RemoveFlat, VerifyDirectory,
       VerifyFile, VerifyReplacement, VerifyRemoved, RestoreParentMode, EndOperation
  <2> QED
    BY <2>1, <2>2, <2>3 DEF Command, ApplyCommand
<1>2. (\E p \in EditPaths : Edit(p)) => pc # "done"
  BY EditShape
<1>3. Crash \/ StartOver => pc # "done"
  BY CrashShape, StartOverShape
<1> QED
  BY <1>1, <1>2, <1>3 DEF Next

(* Nothing but the last validation reports success.                        *)
LEMMA OnlyRevalidateSucceeds ==
    ASSUME Core, report.ok => pc = "done", Next, report'.ok
    PROVE  Revalidate /\ FinalStateApproved /\ pc' = "done" /\ pc = "revalidating"
           /\ UNCHANGED <<repo, approved, manifest, todo, lockSeen>>
<1>0. TypeOK /\ DiskInv
  BY DEF Core
<1>1. ~report.ok
  BY <1>0, NotDone
<1>2. \A n, x : (Goes(n) => report' = report) /\ (Slips(n, x) => report'.ok = report.ok)
                /\ (Refuses(n, x) => ~report'.ok) /\ (Leaves => ~report'.ok)
  <2>1. \A n : Goes(n) => report' = report
    BY DEF Goes
  <2>2. \A n, x : Slips(n, x) => report'.ok = report.ok
    BY DEF Slips
  <2>3. \A n, x : Refuses(n, x) => ~report'.ok
    BY DEF Refuses
  <2>4. Leaves => ~report'.ok
    BY DEF Leaves
  <2> QED
    BY <2>1, <2>2, <2>3, <2>4
<1>3. ~(Inspect \/ Plan \/ CreateCandidateDir \/ CloseCandidateDir)
  BY <1>0, <1>1, <1>2, InspectShape, PlanShape, CandidateDirShape
<1>4. ~(ApplyStart \/ AcquireExistingLock \/ CheckPrestates \/ Validate)
  BY <1>0, <1>1, <1>2, ApplyStartShape, AcquireExistingLockShape, CheckPrestatesShape, ValidateShape
<1>5. ~(HandleFailure \/ RecoverEntry \/ Classify)
  BY <1>0, <1>1, HandleFailureShape, RecoverEffect, ClassifyShape
<1>6. ~Operation
  <2>1. ~(BeginOperation \/ MakeDirectory \/ IdentifyDirectory \/ InstallDirectory \/ OpenFile \/ FillFile)
    BY <1>0, <1>1, <1>2, BeginOperationShape, MakeDirectoryShape, IdentifyDirectoryShape,
       InstallDirectoryShape, OpenFileShape, FillFileShape
  <2>2. ~(OpenTemporary \/ FillTemporary \/ InstallReplacement \/ RemoveFlat \/ Verify)
    BY <1>0, <1>1, <1>2, OpenTemporaryShape, FillTemporaryShape,
       InstallReplacementShape, RemoveFlatShape, VerifyShape
  <2>3. ~(RestoreParentMode \/ EndOperation)
    BY <1>0, <1>1, <1>2, RestoreParentModeShape, EndOperationShape
  <2> QED
    BY <2>1, <2>2, <2>3 DEF Operation, Verify
<1>7. ~((\E p \in EditPaths : Edit(p)) \/ Crash \/ StartOver)
  <2>1. ~NoReport.ok
    BY Zenon DEF NoReport
  <2> QED
    BY <1>0, <1>1, <2>1, EditShape, CrashShape, StartOverShape
<1>8. Revalidate
  BY <1>3, <1>4, <1>5, <1>6, <1>7 DEF Next, Command, ApplyCommand
<1>9. /\ pc = "revalidating" /\ UNCHANGED <<disk, head, temps, stale, approved, manifest, todo, lockSeen>>
      /\ \/ FinalStateApproved /\ pc' = "done"
         \/ Slips("failed", ~FinalStateApproved)
  BY <1>0, <1>8, RevalidateShape
<1> QED
  BY <1>1, <1>2, <1>8, <1>9 DEF repo

(* A repository that passes the last validation is the approved candidate. *)
LEMMA FinalState ==
    ASSUME Core, manifest.mode # None, FinalStateApproved
    PROVE  /\ \A p \in Owned : SamePrestate(disk[p], manifest.candidate[p])
           /\ \A p \in Dirs : approved.nodes[p].kind = "dir" => AsApproved(p)
           /\ LayoutOf(disk, stale) = manifest.mode
           /\ Residues = {} /\ disk[Lock] = lockSeen
<1> DEFINE c == manifest.candidate
           mode == manifest.mode
<1>0. TypeOK /\ PlanInv /\ DiskInv /\ disk \in [Paths -> Nodes] /\ c \in [Owned -> Nodes]
      /\ mode \in {"minimal", "full"} /\ Owned \subseteq Paths /\ Dirs \subseteq Owned
  BY PathSets DEF Core, TypeOK
<1>1. /\ Residues = {} /\ disk[Lock] = lockSeen
      /\ \A p \in Owned : Exists(c, p) => SamePrestate(disk[p], c[p])
      /\ mode = "minimal" => \A p \in Forbidden : ~Exists(disk, p)
      /\ mode = "full" => /\ ~Exists(disk, Flat)
                          /\ \A p \in PagePaths : Exists(disk, p) <=> Exists(c, p)
  BY DEF FinalStateApproved
<1>2. validate_owned_candidate(c, mode) /\ Wiki(c, mode)
  BY <1>0, CandidateIsWiki DEF PlanInv, Planned
<1>3. ASSUME NEW p \in Owned, ~Exists(c, p) PROVE ~Exists(disk, p)
  <2>1. CASE mode = "minimal"
    <3>1. \A q \in {Schema, Index, Pages} : ~Exists(disk, q)
      BY <1>1, <2>1 DEF Forbidden
    <3>2. \A q \in {Project, Extra} : ~Exists(disk, q)
      <4>1. disk[Pages].kind # "dir"
        BY <3>1 DEF Exists
      <4>2. \A q \in {Project, Extra} : q \in DOMAIN Parent /\ Parent[q] = Pages
        BY Parents, PathSets
      <4> QED
        BY <1>0, <4>1, <4>2 DEF DiskInv, Tree, Exists
    <3>3. \A q \in {AgentsMd, AgentsDir, Memory, Gitignore, Flat} : Exists(c, q)
      BY <1>2, <2>1 DEF Wiki, ValidPage, Exists
    <3> QED
      BY <1>3, <3>1, <3>2, <3>3, OwnedPaths
  <2>2. CASE mode = "full"
    <3>1. \A q \in {AgentsMd, AgentsDir, Memory, Gitignore, Pages, Schema, Index, Project} : Exists(c, q)
      BY <1>2, <2>2 DEF Wiki, ValidPage, Exists
    <3> QED
      BY <1>1, <1>3, <2>2, <3>1, OwnedPaths DEF PagePaths
  <2> QED
    BY <1>0, <2>1, <2>2
<1>4. ASSUME NEW p \in Owned PROVE SamePrestate(disk[p], c[p])
  <2>1. CASE Exists(c, p)
    BY <1>1, <2>1
  <2>2. CASE ~Exists(c, p)
    <3>1. disk[p] = Missing /\ c[p] = Missing
      BY <1>0, <1>3, <2>2, NodeShape DEF Exists
    <3> QED
      BY <3>1 DEF SamePrestate
  <2> QED
    BY <2>1, <2>2
<1>5. ASSUME NEW p \in Dirs, approved.nodes[p].kind = "dir" PROVE AsApproved(p)
  <2>1. SamePrestate(approved.nodes[p], c[p]) /\ approved.nodes[p] \in Nodes
    BY <1>0, <1>5, DirectoryKinds
  <2>2. disk[p] \in Nodes /\ c[p] \in Nodes /\ SamePrestate(disk[p], c[p])
    BY <1>0, <1>4
  <2> QED
    BY <2>1, <2>2, SameMeans DEF AsApproved
<1>6. LayoutOf(disk, stale) = mode
  <2>1. \A p \in Owned : disk[p].kind = c[p].kind /\ disk[p].text = c[p].text
    BY <1>0, <1>4, SameMeans
  <2>2. Wiki(disk, mode)
    BY <1>0, <1>2, <2>1, WikiByContents
  <2>3. stale = {}
    BY <1>1 DEF Residues
  <2> QED
    BY <1>0, <2>2, <2>3, WikiLayout
<1> QED
  BY <1>1, <1>4, <1>5, <1>6

(* Success over every step.                                                *)
LEMMA SuccessStep ==
    ASSUME Core, LockInv, report.ok => pc = "done", Next
    PROVE  (report.ok => pc = "done")' /\ SuccessIsApproved'
<1> SUFFICES ASSUME report'.ok PROVE pc' = "done" /\ SuccessIsApproved'
  BY DEF SuccessIsApproved
<1>1. /\ FinalStateApproved /\ pc' = "done" /\ pc = "revalidating"
      /\ UNCHANGED <<disk, head, temps, stale, approved, manifest, todo, lockSeen>>
  BY OnlyRevalidateSucceeds DEF repo
<1>2. manifest.mode # None /\ todo = {}
  BY <1>1 DEF Core, PlanInv, OperationInv, ApplyPhases
<1>3. lockSeen.kind # "missing"
  BY <1>1, <1>2 DEF LockInv
<1>4. /\ \A p \in Owned : SamePrestate(disk[p], manifest.candidate[p])
      /\ \A p \in Dirs : approved.nodes[p].kind = "dir" => AsApproved(p)
      /\ LayoutOf(disk, stale) = manifest.mode
      /\ Residues = {} /\ disk[Lock] = lockSeen
  BY <1>1, <1>2, FinalState
<1>5. LayoutOf(disk, stale)' = LayoutOf(disk, stale)
  BY <1>1
<1>6. Residues' = {}
  BY <1>1, <1>4 DEF Residues
<1>7. \A p \in Dirs : AsApproved(p) => AsApproved(p)'
  BY <1>1 DEF AsApproved
<1> QED
  BY <1>1, <1>3, <1>4, <1>5, <1>6, <1>7 DEF SuccessIsApproved, Exists

-----------------------------------------------------------------------------
(* Failure: what the report says. *)

(* The layout that is reported after a rollback is the one an inspection   *)
(* would find, and temporaries are reported.                               *)
LEMMA ClassifiedLayout ==
    ASSUME Core, pc = "recovering", NEW found, found = classify_recovered_layout
    PROVE  /\ found.drift = {} /\ found.layout \in {"absent", "minimal", "full"} =>
                found.layout = LayoutOf(disk, stale)
           /\ \A p \in Owned : temps[p] # None => TempOf(p) \in found.drift
<1>0. TypeOK /\ PlanInv /\ DiskInv /\ disk \in [Paths -> Nodes]
  BY DEF Core, TypeOK
<1>1. manifest.mode # None /\ \A p \in Files : disk[p].kind # "dir"
  BY <1>0 DEF PlanInv, DiskInv, ApplyPhases
<1>2. CASE Residues # {}
  <2>1. found = [layout |-> "partial", drift |-> {TempOf(p) : p \in Residues}]
    BY <1>2 DEF classify_recovered_layout
  <2>2. \A p \in Owned : temps[p] # None => p \in Residues
    BY DEF Residues
  <2> QED
    BY <2>1, <2>2
<1>3. CASE Residues = {}
  <2>1. stale = {} /\ \A p \in Owned : temps[p] = None
    BY <1>3 DEF Residues
  <2> DEFINE drift == IF disk[Lock] # lockSeen \/ Blocked(disk) THEN {At(Lock)} ELSE {}
             fragments == {p \in Forbidden : Exists(disk, p)}
             A1 == /\ drift = {} /\ lockSeen = Missing /\ ~Exists(disk, Memory)
                   /\ inspect_policy(disk[AgentsMd]).heading_count = 0
             A2 == drift = {} /\ fragments = {} /\ validate_owned_candidate(disk, "minimal")
             A3 == drift = {} /\ ~Exists(disk, Flat) /\ validate_owned_candidate(disk, "full")
             partial == [layout |-> "partial", drift |-> drift \cup {At(p) : p \in fragments}]
  <2>2. found = classify_recovered_layout_once
    BY <1>3 DEF classify_recovered_layout
  <2>3. found = CASE A1 -> [layout |-> "absent", drift |-> {}]
                  [] A2 -> [layout |-> "minimal", drift |-> {}]
                  [] A3 -> [layout |-> "full", drift |-> {}]
                  [] OTHER -> partial
    BY <2>2, Zenon DEF classify_recovered_layout_once
  <2>4. \/ A1 /\ found = [layout |-> "absent", drift |-> {}]
        \/ A2 /\ found = [layout |-> "minimal", drift |-> {}]
        \/ A3 /\ found = [layout |-> "full", drift |-> {}]
        \/ found = partial
    <3> HIDE DEF A1, A2, A3, partial
    <3> QED
      BY <2>3
  <2>5. drift = {} => ~Blocked(disk)
    OBVIOUS
  <2>6. A1 => LayoutOf(disk, {}) = "absent"
    BY <1>0, <1>1, <2>5, AbsentLayout DEF DiskInv
  <2>7. A2 => LayoutOf(disk, {}) = "minimal"
    BY CandidateIsWiki, WikiLayout
  <2>8. A3 => LayoutOf(disk, {}) = "full"
    BY CandidateIsWiki, WikiLayout
  <2>9. partial.layout = "partial"
    OBVIOUS
  <2> HIDE DEF A1, A2, A3, partial
  <2> QED
    BY <2>1, <2>4, <2>6, <2>7, <2>8, <2>9
<1> QED
  BY <1>2, <1>3

(* What an operation leaves alone; a failure in it goes on to the          *)
(* restoration of the mode or to the rollback.                             *)
LEMMA OperationQuiet ==
    ASSUME TypeOK, Operation
    PROVE  /\ UNCHANGED <<stale, staging, approved, manifest, touched>>
           /\ report'.ok = report.ok /\ report'.layout = report.layout
           /\ report'.unresolved = report.unresolved
           /\ pc \in {"next", "ended"} \cup OpPhases
           /\ pc' \in {"next", "ended", "failed"} \cup OpPhases
<1> DEFINE Same == /\ report'.ok = report.ok /\ report'.layout = report.layout
                   /\ report'.unresolved = report.unresolved
           Rest == UNCHANGED <<stale, staging, approved, manifest, touched>>
           Onward == {"next", "ended", "failed"} \cup OpPhases
<1>1. \A n : Goes(n) => Same /\ pc' = n
  BY DEF Goes
<1>2. \A n, x : Slips(n, x) => Same /\ pc' = n
  BY DEF Slips
<1>3. OperationFrame => Rest
  BY Steady
<1>p. {"operation", "unlinked", "restoring", "dir-made", "dir-named", "dir-installed", "file-opened",
       "file-filled", "temp-opened", "temp-filled", "replaced", "next", "ended", "failed"} = Onward
  BY DEF OpPhases, DirPhases, FilePhases, ReplacePhases
<1>q. pc \in {"next", "ended"} \cup OpPhases
  BY Zenon DEF Operation, BeginOperation, MakeDirectory, IdentifyDirectory, InstallDirectory, OpenFile,
     FillFile, OpenTemporary, FillTemporary, InstallReplacement, RemoveFlat, VerifyDirectory,
     VerifyFile, VerifyReplacement, VerifyRemoved, RestoreParentMode, EndOperation, OpPhases,
     DirPhases, FilePhases, ReplacePhases
<1> HIDE DEF Same, Rest, Onward
<1>4. BeginOperation => Same /\ Rest /\ pc' \in Onward
  BY <1>1, <1>2, <1>3, <1>p, BeginOperationShape
<1>5. MakeDirectory \/ IdentifyDirectory => Same /\ Rest /\ pc' \in Onward
  BY <1>1, <1>2, <1>3, <1>p, MakeDirectoryShape, IdentifyDirectoryShape
<1>6. InstallDirectory => Same /\ Rest /\ pc' \in Onward
  BY <1>1, <1>2, <1>3, <1>p, InstallDirectoryShape
<1>7. OpenFile => Same /\ Rest /\ pc' \in Onward
  BY <1>1, <1>2, <1>3, <1>p, OpenFileShape
<1>8. FillFile => Same /\ Rest /\ pc' \in Onward
  BY <1>1, <1>2, <1>3, <1>p, FillFileShape
<1>9. OpenTemporary \/ FillTemporary => Same /\ Rest /\ pc' \in Onward
  BY <1>1, <1>2, <1>3, <1>p, OpenTemporaryShape, FillTemporaryShape
<1>10. InstallReplacement => Same /\ Rest /\ pc' \in Onward
  BY <1>1, <1>2, <1>3, <1>p, InstallReplacementShape
<1>11. RemoveFlat => Same /\ Rest /\ pc' \in Onward
  BY <1>1, <1>2, <1>3, <1>p, RemoveFlatShape
<1>12. Verify => Same /\ Rest /\ pc' \in Onward
  BY <1>1, <1>2, <1>3, <1>p, VerifyShape
<1>13. RestoreParentMode => Same /\ Rest /\ pc' \in Onward
  BY <1>1, <1>2, <1>3, <1>p, RestoreParentModeShape
<1>14. EndOperation => Same /\ Rest /\ pc' \in Onward
  <2>1. EndOperation => Rest
    BY EndOperationShape DEF Rest
  <2> QED
    BY <1>1, <1>2, <1>p, <2>1, EndOperationShape
<1>15. Same /\ Rest /\ pc' \in Onward
  BY <1>4, <1>5, <1>6, <1>7, <1>8, <1>9, <1>10, <1>11, <1>12, <1>13, <1>14 DEF Operation, Verify
<1> QED
  BY <1>15, <1>q DEF Same, Rest, Onward

(* The report over every step.                                             *)
LEMMA FailureStep ==
    ASSUME Core, SuccessInv, FailureInv, AccountInv, Next
    PROVE  FailureInv'
<1>0. TypeOK /\ DiskInv /\ OperationInv /\ JournalInv
  BY DEF Core
<1>d. pc # "done" /\ ~report.ok
  BY <1>0, NotDone DEF SuccessInv
<1>l. report.layout \notin {"absent", "minimal", "full"}
  BY <1>d DEF FailureInv
<1>p. /\ EarlyPhases = {"stage1", "staged1", "stage2", "staged2", "planned", "lock", "check"}
      /\ {"idle", "inspected", "crashed", "stage1", "staged1", "stage2", "staged2", "planned", "lock",
          "check"} \cap (ApplyPhases \cup {"done"}) = {}
  BY DEF EarlyPhases, ApplyPhases, OpPhases, DirPhases, FilePhases, ReplacePhases
<1>s. /\ \A n : Goes(n) => pc' = n /\ report' = report
      /\ \A n, x : Slips(n, x) => /\ pc' = n /\ report'.ok = report.ok /\ report'.layout = report.layout
                                  /\ report'.unresolved = report.unresolved
      /\ \A n, x : Refuses(n, x) => /\ pc' = "done" /\ report'.ok = FALSE /\ report'.layout = n
                                    /\ report'.unresolved = {}
      /\ Leaves => /\ pc' = "done" /\ report'.ok = FALSE /\ report'.layout = None /\ staging' = "residue"
                   /\ report'.unresolved = {TempOf(Root)}
  BY Zenon DEF Goes, Slips, Refuses, Leaves
<1>n. None \notin {"absent", "minimal", "full"} /\ "partial" \notin {"absent", "minimal", "full"}
  BY DEF None
<1> DEFINE Drops == \A p \in Owned : temps'[p] = None
<1>1. ASSUME pc' \notin {"recovering", "done"}, report'.unresolved = report.unresolved,
             pc # "recovering", report'.layout = report.layout,
             staging' = "none" \/ pc' \in {"staged1", "staged2"}
      PROVE  FailureInv'
  BY <1>1, <1>d, <1>l DEF FailureInv
<1>2. ASSUME pc' = "done", report'.ok = FALSE, journal' = <<>>, Drops,
             staging' = "none" \/ TempOf(Root) \in report'.unresolved,
             \/ report'.layout \notin {"absent", "minimal", "full"}
             \/ report'.unresolved = {} /\ LayoutIsHonest'
      PROVE  FailureInv'
  BY <1>2 DEF FailureInv
<1>3. ASSUME pc' = "recovering", report'.ok = report.ok, report'.layout = report.layout, staging' = "none"
      PROVE  FailureInv'
  BY <1>3, <1>l, <1>d DEF FailureInv
<1>e. ASSUME pc \in EarlyPhases \cup {"idle", "inspected"}, journal' = journal, temps' = temps
      PROVE  journal' = <<>> /\ Drops
  BY <1>0, <1>e, <1>p DEF JournalInv, OperationInv, NoTemps
<1>f. pc \notin {"staged1", "staged2"} => staging = "none"
  BY <1>d DEF FailureInv
<1> HIDE DEF Drops
<1>4. CASE Inspect \/ Plan
  <2>1. /\ pc \in {"idle", "inspected"} /\ journal' = journal /\ temps' = temps /\ staging' = staging
        /\ \/ pc' \in {"inspected", "stage1"} /\ report' = report
           \/ pc' = "done" /\ report'.ok = FALSE /\ report'.layout = None
    BY <1>0, <1>4, <1>s, InspectShape, PlanShape
  <2>2. journal' = <<>> /\ Drops /\ staging' = "none"
    BY <1>e, <1>f, <1>p, <2>1
  <2> QED
    BY <1>1, <1>2, <1>n, <1>p, <2>1, <2>2
<1>5. CASE CreateCandidateDir \/ CloseCandidateDir
  <2>1. /\ UNCHANGED <<temps, journal>> /\ pc \in {"stage1", "staged1", "stage2", "staged2"}
        /\ \/ /\ report' = report
              /\ pc' \in {"staged1", "staged2"} \/ (pc' \in {"stage2", "planned"} /\ staging' = "none")
           \/ /\ pc' = "done" /\ report'.ok = FALSE /\ report'.layout = None
              /\ \/ pc \in {"stage1", "stage2"} /\ staging' = staging
                 \/ staging' = "none"
           \/ /\ pc' = "done" /\ report'.ok = FALSE /\ report'.layout = None
              /\ report'.unresolved = {TempOf(Root)}
    BY <1>0, <1>5, <1>s, CandidateDirShape
  <2>2. journal' = <<>> /\ Drops
    BY <1>e, <1>p, <2>1
  <2> QED
    BY <1>1, <1>2, <1>f, <1>n, <1>p, <2>1, <2>2
<1>6. CASE ApplyStart \/ AcquireExistingLock \/ CheckPrestates
  <2>1. /\ UNCHANGED <<temps, journal, staging>> /\ pc \in {"planned", "lock", "check"}
        /\ \/ report' = report /\ pc' \in {"lock", "check", "next"}
           \/ /\ pc' = "done" /\ report'.ok = FALSE /\ report'.unresolved = {}
              /\ \/ report'.layout = "partial"
                 \/ report'.layout = LayoutOf(disk, stale) /\ disk' = disk /\ stale' = stale
                 \/ /\ pc = "check" /\ report'.layout = initial_layout
                    /\ UNCHANGED <<disk, approved, touched>>
    <3>1. CASE ApplyStart
      BY <1>0, <1>s, <3>1, ApplyStartShape, ZenonT(30)
    <3>2. CASE AcquireExistingLock
      BY <1>0, <1>s, <3>2, AcquireExistingLockShape, ZenonT(30)
    <3>3. CASE CheckPrestates
      BY <1>0, <1>s, <3>3, CheckPrestatesShape, ZenonT(30)
    <3> QED
      BY <1>6, <3>1, <3>2, <3>3
  <2>2. journal' = <<>> /\ Drops /\ staging' = "none"
    BY <1>e, <1>f, <1>p, <2>1
  <2>3. pc = "check" => \A p \in Owned \ touched : AsApproved(p)
    <3>1. pc = "check" => Approving /\ journal = <<>> /\ report.unresolved = {}
      BY <1>0, <1>p, <1>d DEF Core, PlanInv, Approving, JournalInv, FailureInv
    <3> QED
      BY <3>1 DEF AccountInv, Accounted, Reported
  <2>4. pc' = "done" => report'.layout = "partial" \/ LayoutIsHonest'
    <3>1. CASE report'.layout = LayoutOf(disk, stale) /\ disk' = disk /\ stale' = stale
      BY <3>1 DEF LayoutIsHonest
    <3>2. CASE /\ pc = "check" /\ report'.layout = initial_layout
               /\ UNCHANGED <<disk, approved, touched>>
      BY <2>3, <3>2 DEF LayoutIsHonest, initial_layout, AsApproved
    <3> QED
      BY <1>p, <2>1, <3>1, <3>2
  <2> QED
    BY <1>1, <1>2, <1>n, <1>p, <2>1, <2>2, <2>4
<1>7. CASE Operation \/ Validate
  <2>1. /\ pc \notin {"staged1", "staged2", "recovering"} /\ staging' = staging
        /\ pc' \notin {"recovering", "done"}
        /\ report'.layout = report.layout /\ report'.unresolved = report.unresolved
    <3>1. CASE Operation
      <4>1. {"staged1", "staged2", "recovering", "done"} \cap ({"next", "ended", "failed"} \cup OpPhases) = {}
        BY DEF OpPhases, DirPhases, FilePhases, ReplacePhases
      <4> QED
        BY <1>0, <3>1, <4>1, OperationQuiet
    <3>2. CASE Validate
      <4>1. /\ pc = "next" /\ staging' = staging
            /\ Goes("revalidating") \/ Slips("failed", ~FinalStateApproved)
        BY <1>0, <3>2, ValidateShape, Steady
      <4> QED
        BY <1>s, <4>1
    <3> QED
      BY <1>7, <3>1, <3>2
  <2> QED
    BY <1>1, <1>f, <2>1
<1>8. CASE Revalidate
  <2>1. /\ pc = "revalidating" /\ staging' = staging
        /\ \/ pc' = "done" /\ report'.ok
           \/ /\ pc' = "failed" /\ report'.layout = report.layout
              /\ report'.unresolved = report.unresolved
    <3>1. \A r, x : r = [ok |-> x, class |-> "success", layout |-> manifest.mode, unresolved |-> {}]
                      => r.ok = x
      OBVIOUS
    <3>2. report' = [ok |-> TRUE, class |-> "success", layout |-> manifest.mode, unresolved |-> {}]
             => report'.ok = TRUE
      BY ONLY <3>1, Zenon
    <3>3. /\ pc = "revalidating" /\ staging' = staging
          /\ \/ /\ pc' = "done"
                /\ report' = [ok |-> TRUE, class |-> "success", layout |-> manifest.mode,
                              unresolved |-> {}]
             \/ Slips("failed", ~FinalStateApproved)
      BY <1>0, <1>8, RevalidateShape
    <3> QED
      BY <1>s, <3>2, <3>3
  <2>2. pc' = "done" /\ report'.ok => FailureInv'
    BY <1>f, <2>1 DEF FailureInv
  <2> QED
    BY <1>1, <1>f, <2>1, <2>2
<1>9. CASE HandleFailure \/ RecoverEntry
  <2>1. /\ pc \in {"failed", "recovering"} /\ pc' = "recovering" /\ staging' = staging
        /\ report'.ok = report.ok /\ report'.layout = report.layout
    BY <1>0, <1>9, HandleFailureShape, RecoverEntryShape, RecoverEffect
  <2> QED
    BY <1>3, <1>f, <2>1
<1>10. CASE Classify
  <2> DEFINE found == classify_recovered_layout
  <2>1. /\ pc = "recovering" /\ pc' = "done" /\ journal = <<>>
        /\ UNCHANGED <<disk, temps, stale, staging, journal>> /\ report'.ok = report.ok
        /\ \/ /\ report'.unresolved = report.unresolved \cup found.drift
              /\ report'.layout = IF report'.unresolved = {} THEN found.layout ELSE "partial"
           \/ /\ report'.unresolved = report.unresolved \cup {At(Root)}
              /\ report'.layout = "partial"
    BY <1>0, <1>10, ClassifyShape
  <2>2. /\ found.drift = {} /\ found.layout \in {"absent", "minimal", "full"} =>
             found.layout = LayoutOf(disk, stale)
        /\ \A p \in Owned : temps[p] # None => TempOf(p) \in found.drift
    BY <2>1, ClassifiedLayout
  <2> HIDE DEF found
  <2>3. \A p \in Owned : temps'[p] # None => {TempOf(p), At(p), At(Root)} \cap report'.unresolved # {}
    BY <2>1, <2>2
  <2>4. report'.layout \in {"absent", "minimal", "full"} =>
           report'.unresolved = {} /\ LayoutIsHonest'
    BY <1>n, <2>1, <2>2 DEF LayoutIsHonest
  <2> QED
    BY <1>f, <2>1, <2>3, <2>4 DEF FailureInv
<1>11. ASSUME NEW p \in EditPaths, Edit(p) PROVE FailureInv'
  <2>1. UNCHANGED <<temps, staging, pc, journal, report>>
    BY <1>0, <1>11, EditShape
  <2> QED
    BY <1>d, <1>l, <2>1 DEF FailureInv
<1>12. CASE Crash \/ StartOver
  <2>1. /\ pc' \in {"crashed", "idle"}
        /\ staging' = "none" \/ (staging' = staging /\ pc = "crashed")
        /\ report' = NoReport \/ (report' = report /\ pc = "crashed")
    BY <1>0, <1>12, CrashShape, StartOverShape
  <2>2. NoReport.unresolved = {} /\ NoReport.layout = None
    BY DEF NoReport
  <2> QED
    BY <1>1, <1>d, <1>f, <1>l, <1>n, <2>1, <2>2 DEF FailureInv
<1> QED
  BY <1>4, <1>5, <1>6, <1>7, <1>8, <1>9, <1>10, <1>11, <1>12 DEF Next, Command, ApplyCommand

-----------------------------------------------------------------------------
(* Failure: what it leaves. *)

(* What a rollback step leaves at a path of the plan is accounted for.     *)
LEMMA RecoverAccounts ==
    ASSUME Core, AccountInv, RecoverEntry, NEW p \in Owned
    PROVE  Accounted(p)'
<1> DEFINE e == Last(journal)
<1>0. TypeOK /\ PlanInv /\ DiskInv /\ journal \in Seq(EntryType) /\ disk \in [Paths -> Nodes] /\ p \in Paths
  BY PathSets DEF Core, TypeOK
<1>1. /\ pc = "recovering" /\ journal # <<>> /\ journal' = Front(journal)
      /\ UNCHANGED <<approved, touched, manifest>>
  BY <1>0, RecoverEntryShape
<1>2. manifest.mode # None
  BY <1>0, <1>1 DEF PlanInv, ApplyPhases
<1>3. Accounted(p)
  BY <1>1, <1>2 DEF AccountInv, Approving
<1>4. /\ e \in EntryType /\ EntryOK(e) /\ report.unresolved \subseteq report'.unresolved
      /\ \E n \in Nodes :
           /\ UndoneAt(e, n)
           /\ \/ disk' = [disk EXCEPT ![e.path] = n]
              \/ /\ e.path \in Owned /\ entry_report_path(e) \in report'.unresolved
                 /\ disk' = [[disk EXCEPT ![e.path] = n] EXCEPT ![Parent[e.path]].rw = TRUE]
           /\ \/ entry_report_path(e) \in report'.unresolved
              \/ Restored(e, n) /\ report' = report
  BY RecoverEffect
<1>5. PICK n \in Nodes :
        /\ UndoneAt(e, n)
        /\ \/ disk' = [disk EXCEPT ![e.path] = n]
           \/ /\ e.path \in Owned /\ entry_report_path(e) \in report'.unresolved
              /\ disk' = [[disk EXCEPT ![e.path] = n] EXCEPT ![Parent[e.path]].rw = TRUE]
        /\ \/ entry_report_path(e) \in report'.unresolved
           \/ Restored(e, n) /\ report' = report
  BY <1>4
<1>6. entry_report_path(e).path = e.path /\ e.path \in Paths
  BY <1>4 DEF entry_report_path, At, TempOf, EntryType
<1>7. \A i \in DOMAIN journal : journal[i] = e \/ (i \in DOMAIN journal' /\ journal'[i] = journal[i])
  BY <1>0, <1>1, Shortened
<1> HIDE DEF e
<1>8. CASE entry_report_path(e) \in report'.unresolved /\ (e.path = p \/ (e.path \in DOMAIN Parent /\ Parent[e.path] = p))
  BY <1>6, <1>8 DEF Accounted, Reported
<1>9. CASE e.path # p /\ ~(entry_report_path(e) \in report'.unresolved /\ e.path \in Owned /\ Parent[e.path] = p)
  <2>1. disk'[p] = disk[p]
    <3> DEFINE d == [disk EXCEPT ![e.path] = n]
    <3>1. d[p] = disk[p] /\ d \in [Paths -> Nodes]
      BY <1>0, <1>9
    <3>2. CASE disk' = d
      BY <3>1, <3>2
    <3>3. CASE /\ e.path \in Owned /\ entry_report_path(e) \in report'.unresolved
               /\ disk' = [d EXCEPT ![Parent[e.path]].rw = TRUE]
      <4>1. Parent[e.path] # p
        BY <1>9, <3>3
      <4> HIDE DEF d
      <4> QED
        BY <1>0, <3>1, <3>3, <4>1
    <3> QED
      BY <1>5, <3>2, <3>3
  <2>2. \A i \in DOMAIN journal : Covers(journal[i], p) => \E k \in DOMAIN journal' : Covers(journal'[k], p)
    BY <1>7, <1>9 DEF Covers
  <2> QED
    BY <1>1, <1>3, <1>4, <2>1, <2>2 DEF Accounted, AsApproved, Reported, Covers
<1>10. CASE e.path = p /\ entry_report_path(e) \notin report'.unresolved
  <2>1. disk'[p] = n /\ Restored(e, n) /\ report' = report
    BY <1>0, <1>5, <1>10
  <2>2. approved.nodes[p] \in Nodes
    BY <1>0, <1>2 DEF PlanInv, Planned, SeenNodes
  <2>3. CASE Covers(e, p)
    <3>1. CASE e.kind = "mode"
      <4>1. e.state = "active" /\ n = [disk[p] EXCEPT !.rw = FALSE]
        BY <1>10, <2>1, <2>3, <3>1 DEF Covers, Restored
      <4>2. p \in Dirs /\ approved.nodes[p].kind = "dir" /\ ~approved.nodes[p].rw
        <5>1. p \in Dirs \cup {Root} /\ p # Root
          BY <1>4, <1>10, <3>1, PathSets DEF EntryOK
        <5> QED
          BY <1>4, <1>10, <3>1, <5>1 DEF EntryOK
      <4>3. disk[p].kind = "dir" \/ p \in touched \/ Reported(p) \/ n = disk[p]
        BY <1>5, <1>10, <3>1 DEF UndoneAt
      <4>4. disk[p] \in Nodes
        BY <1>0
      <4>5. \A m, x : m = [disk[p] EXCEPT !.rw = x] =>
               m.kind = disk[p].kind /\ m.text = disk[p].text /\ m.by = disk[p].by /\ m.rw = x
        BY ONLY <4>4, ModeOf
      <4>6. n.kind = disk[p].kind /\ n.rw = FALSE
        BY ONLY <4>1, <4>5, Zenon
      <4>7. n.kind = "dir"
        BY <4>6, NodeShape
      <4>8. SamePrestate(n, approved.nodes[p])
        <5>1. n.text = NoText /\ approved.nodes[p].text = NoText
          BY <2>2, <4>2, <4>7, NodeShape
        <5>2. n.rw = approved.nodes[p].rw
          BY <2>2, <4>2, <4>6, NodeShape
        <5> QED
          BY <2>2, <4>2, <4>7, <5>1, <5>2, SameMeans
      <4> QED
        BY <1>1, <2>1, <4>8 DEF Accounted, AsApproved
    <3>2. CASE e.kind # "mode"
      <4>1. SamePrestate(n, approved.nodes[p]) \/ p \in touched
        BY <1>10, <2>1, <2>3, <3>2 DEF Covers, Restored
      <4> QED
        BY <1>1, <2>1, <4>1 DEF Accounted, AsApproved
    <3> QED
      BY <3>1, <3>2
  <2>4. CASE ~Covers(e, p)
    <3>1. e.kind \notin {"file", "replaced", "removed"}
      BY <1>10, <2>4 DEF Covers
    <3>2. e.kind \in {"dir", "mode"}
      BY <1>4, <3>1 DEF EntryType
    <3>3. CASE n = disk[p]
      <4>1. disk'[p] = disk[p]
        BY <2>1, <3>3
      <4>2. \A i \in DOMAIN journal : Covers(journal[i], p) => \E k \in DOMAIN journal' : Covers(journal'[k], p)
        BY <1>7, <2>4
      <4> QED
        BY <1>1, <1>3, <2>1, <4>1, <4>2 DEF Accounted, AsApproved, Reported, Covers
    <3>4. CASE n # disk[p] /\ e.kind = "dir"
      <4>1. n = Missing
        BY <1>5, <1>10, <3>4 DEF UndoneAt
      <4>2. approved.nodes[p].kind = "missing"
        BY <1>0, <1>2, <1>4, <1>10, <3>4, EntryFacts
      <4>3. approved.nodes[p] = Missing
        BY <2>2, <4>2, NodeShape
      <4>4. SamePrestate(n, approved.nodes[p])
        BY <4>1, <4>3 DEF SamePrestate
      <4> QED
        BY <1>1, <2>1, <4>4 DEF Accounted, AsApproved
    <3>5. CASE n # disk[p] /\ e.kind = "mode"
      <4>1. disk[p].kind = "dir" /\ n = [disk[p] EXCEPT !.rw = FALSE]
        BY <1>5, <1>10, <3>5 DEF UndoneAt
      <4>2. p \in Dirs /\ approved.nodes[p].kind = "dir" /\ ~approved.nodes[p].rw
        <5>1. p \in Dirs \cup {Root} /\ p # Root
          BY <1>4, <1>10, <3>5, PathSets DEF EntryOK
        <5> QED
          BY <1>4, <1>10, <3>5, <5>1 DEF EntryOK
      <4>4. disk[p] \in Nodes
        BY <1>0
      <4>5. \A m, x : m = [disk[p] EXCEPT !.rw = x] =>
               m.kind = disk[p].kind /\ m.text = disk[p].text /\ m.by = disk[p].by /\ m.rw = x
        BY ONLY <4>4, ModeOf
      <4>6. n.kind = disk[p].kind /\ n.rw = FALSE
        BY ONLY <4>1, <4>5, Zenon
      <4>8. SamePrestate(n, approved.nodes[p])
        <5>1. n.text = NoText /\ approved.nodes[p].text = NoText
          BY <2>2, <4>1, <4>2, <4>6, NodeShape
        <5>2. n.rw = approved.nodes[p].rw
          BY <2>2, <4>2, <4>6, NodeShape
        <5> QED
          BY <2>2, <4>1, <4>2, <4>6, <5>1, <5>2, SameMeans
      <4> QED
        BY <1>1, <2>1, <4>8 DEF Accounted, AsApproved
    <3> QED
      BY <3>2, <3>3, <3>4, <3>5
  <2> QED
    BY <2>3, <2>4
<1> QED
  BY <1>8, <1>9, <1>10, Parents, PathSets

(* Every path of the plan is accounted for over every step.                *)
LEMMA AccountPaths ==
    ASSUME Core, FailureInv, AccountInv, Next
    PROVE  Approving' => \A p \in Owned : Accounted(p)'
<1>0. TypeOK /\ PlanInv /\ DiskInv /\ disk \in [Paths -> Nodes] /\ Owned \subseteq Paths /\ Lock \notin Owned
  BY PathSets DEF Core, TypeOK
<1>s. /\ \A n : Goes(n) => pc' = n /\ report' = report
      /\ \A n, x : Slips(n, x) => pc' = n /\ report'.unresolved = report.unresolved
      /\ \A n, x : Refuses(n, x) => pc' = "done" /\ report'.unresolved = {}
      /\ Leaves => pc' = "done" /\ report'.unresolved = {TempOf(Root)}
  BY Zenon DEF Goes, Slips, Refuses, Leaves
<1> DEFINE Goal == Approving' => \A p \in Owned : Accounted(p)'
<1>1. ASSUME UNCHANGED <<manifest, approved, journal>>, touched \subseteq touched',
             \A p \in Owned : disk'[p] = disk[p] \/ p \in touched',
             report.unresolved \subseteq report'.unresolved, Approving' => Approving
      PROVE Goal
  BY <1>1 DEF AccountInv, Accounted, AsApproved, Reported, Covers
<1>2. ASSUME manifest' = manifest, pc \notin {"inspected", "crashed"}, pc' # "inspected"
      PROVE  Approving' => Approving
  BY <1>2 DEF Approving
<1>3. CASE Inspect
  <2>1. /\ pc = "idle" /\ manifest' = manifest /\ disk' = disk
        /\ \/ pc' = "inspected" /\ approved' = Snapshot
           \/ pc' = "done"
    BY <1>0, <1>3, <1>s, InspectShape
  <2>2. CASE pc' = "done"
    BY <1>0, <2>1, <2>2 DEF Approving, PlanInv
  <2>3. CASE approved' = Snapshot
    <3>1. ASSUME NEW p \in Owned PROVE AsApproved(p)'
      <4>1. approved'.nodes[p] = Prestate(disk[p]) /\ disk[p] \in Nodes
        BY <1>0, <2>3 DEF Snapshot
      <4>2. SamePrestate(disk[p], approved'.nodes[p])
        BY <4>1, PrestateFacts DEF SamePrestate
      <4> QED
        BY <2>1, <4>2 DEF AsApproved
    <3> QED
      BY <3>1 DEF Accounted
  <2> QED
    BY <2>1, <2>2, <2>3
<1>4. CASE Plan
  <2>1. /\ pc = "inspected" /\ UNCHANGED <<disk, approved, journal, touched>>
        /\ (pc' = "stage1" /\ report' = report) \/ (pc' = "done" /\ manifest' = manifest)
    BY <1>0, <1>4, <1>s, PlanShape
  <2>2. CASE pc' = "done" /\ manifest' = manifest
    BY <1>0, <2>1, <2>2 DEF Approving, PlanInv
  <2>3. CASE report' = report
    <3>1. Approving
      BY <2>1 DEF Approving
    <3> QED
      BY <2>1, <2>3, <3>1 DEF AccountInv, Accounted, AsApproved, Reported, Covers
  <2> QED
    BY <2>1, <2>2, <2>3
<1>5. CASE CreateCandidateDir \/ CloseCandidateDir \/ ApplyStart \/ AcquireExistingLock \/ CheckPrestates
  <2>1. /\ pc \in {"stage1", "staged1", "stage2", "staged2", "planned", "lock", "check"}
        /\ pc' # "inspected" /\ UNCHANGED <<manifest, approved, journal, touched>>
        /\ disk' = disk \/ disk' = WithLockFile(disk)
    <3>1. CASE CreateCandidateDir \/ CloseCandidateDir
      BY <1>0, <3>1, <1>s, CandidateDirShape
    <3>2. CASE ApplyStart
      <4>1. /\ pc = "planned" /\ UNCHANGED <<manifest, approved, journal, touched, disk>>
            /\ \/ Goes("lock")
               \/ \E layout : \E x : Refuses(layout, x)
        BY <1>0, <3>2, ApplyStartShape, Zenon
      <4>2. pc' = "lock" \/ pc' = "done"
        BY <1>s, <4>1, Zenon
      <4> QED
        BY <4>1, <4>2
    <3>3. CASE AcquireExistingLock
      <4>1. /\ pc = "lock" /\ UNCHANGED <<manifest, approved, journal, touched>>
            /\ disk' = disk \/ disk' = WithLockFile(disk)
            /\ Goes("check") \/ Refuses("partial", Unlockable) \/ Refuses("partial", FALSE)
        BY <1>0, <3>3, AcquireExistingLockShape, Zenon
      <4>2. pc' = "check" \/ pc' = "done"
        BY <1>s, <4>1, Zenon
      <4> QED
        BY <4>1, <4>2
    <3>4. CASE CheckPrestates
      <4>1. /\ pc = "check" /\ UNCHANGED <<manifest, approved, journal, touched, disk>>
            /\ \/ Goes("next")
               \/ \E layout \in {"partial", initial_layout} :
                    Refuses(layout, \/ \E p \in Owned : manifest.kinds[p] # None /\ ~AsApproved(p)
                                    \/ ~reconstruct_candidate)
        BY <1>0, <3>4, CheckPrestatesShape, Zenon
      <4>2. pc' = "next" \/ pc' = "done"
        BY <1>s, <4>1, Zenon
      <4> QED
        BY <4>1, <4>2
    <3> QED
      BY <1>5, <3>1, <3>2, <3>3, <3>4
  <2>2. \A p \in Owned : disk'[p] = disk[p]
    BY <1>0, <2>1 DEF WithLockFile
  <2>3. report.unresolved = {}
    BY <2>1 DEF FailureInv
  <2> QED
    BY <1>1, <1>2, <2>1, <2>2, <2>3
<1>6. CASE Validate \/ Revalidate
  <2>1. /\ pc \in {"next", "revalidating"} /\ pc' \in {"revalidating", "failed", "done"}
        /\ UNCHANGED <<manifest, approved, journal, touched, disk>>
    BY <1>0, <1>6, <1>s, ValidateShape, RevalidateShape, Steady
  <2>2. report.unresolved = {}
    BY <2>1 DEF FailureInv
  <2> QED
    BY <1>1, <1>2, <2>1, <2>2
<1>7. CASE HandleFailure \/ Classify
  <2>1. /\ pc \in {"failed", "recovering"} /\ pc' \in {"recovering", "done"}
        /\ UNCHANGED <<manifest, approved, journal, touched>>
        /\ disk' = disk \/ disk' = [disk EXCEPT ![Lock] = Missing]
        /\ report.unresolved \subseteq report'.unresolved
    BY <1>0, <1>7, HandleFailureShape, ClassifyShape
  <2>2. \A p \in Owned : disk'[p] = disk[p]
    BY <1>0, <2>1
  <2> QED
    BY <1>1, <1>2, <2>1, <2>2
<1>8. CASE RecoverEntry
  BY <1>8, RecoverAccounts
<1>9. CASE Operation
  <2>1. /\ UNCHANGED <<approved, manifest, touched>> /\ report'.unresolved = report.unresolved
        /\ pc \notin {"inspected", "crashed"} /\ pc' # "inspected"
    BY <1>0, <1>9, OperationQuiet DEF OpPhases, DirPhases, FilePhases, ReplacePhases
  <2>2. ASSUME Approving', NEW p \in Owned PROVE Accounted(p)'
    <3>1. Accounted(p)
      BY <1>2, <2>1, <2>2 DEF AccountInv
    <3>2. CASE /\ disk'[p] = disk[p]
               /\ \A i \in DOMAIN journal : Covers(journal[i], p) =>
                     \E k \in DOMAIN journal' : Covers(journal'[k], p)
      BY <2>1, <3>1, <3>2 DEF Accounted, AsApproved, Reported, Covers
    <3>3. CASE \E k \in DOMAIN journal' : Covers(journal'[k], p)
      BY <3>3 DEF Accounted, Covers
    <3>4. CASE SamePrestate(disk'[p], approved.nodes[p])
      BY <2>1, <3>4 DEF Accounted, AsApproved
    <3> QED
      BY <1>9, <3>2, <3>3, <3>4, OperationEffect
  <2> QED
    BY <2>2
<1>10. ASSUME NEW p \in EditPaths, Edit(p) PROVE Goal
  <2>1. /\ UNCHANGED <<pc, approved, manifest, journal, report>> /\ p \in Owned /\ touched' = touched \cup {p}
        /\ \E n : disk' = [disk EXCEPT ![p] = n]
    BY <1>0, <1>10, EditShape
  <2>2. \A q \in Owned : disk'[q] = disk[q] \/ q \in touched'
    BY <1>0, <2>1
  <2>3. Approving' => Approving
    BY <2>1 DEF Approving
  <2> QED
    BY <1>1, <2>1, <2>2, <2>3
<1>11. CASE Crash \/ StartOver
  <2>1. pc' = "crashed" \/ (pc' = "idle" /\ manifest' = NoManifest)
    BY <1>0, <1>11, CrashShape, StartOverShape
  <2> QED
    BY <2>1 DEF Approving, NoManifest
<1> QED
  BY <1>3, <1>4, <1>5, <1>6, <1>7, <1>8, <1>9, <1>10, <1>11 DEF Next, Command, ApplyCommand

(* An operation leaves the lock file alone, but for the end of the one     *)
(* that made the memory directory, and what it has installed stays in the  *)
(* journal.                                                                *)
LEMMA OperationLock ==
    ASSUME Core, Operation
    PROVE  /\ InstalledMemory => InstalledMemory'
           /\ disk'[Lock] = disk[Lock] \/ (pc = "ended" /\ Target = Memory)
<1>0. TypeOK /\ OperationInv /\ JournalInv /\ journal \in Seq(EntryType) /\ disk \in [Paths -> Nodes]
  BY DEF Core, TypeOK
<1>l. Lock \in Paths /\ Lock \notin Owned /\ Lock \notin Dirs \cup {Root}
  BY PathSets
<1>t. todo # {} => Target # Lock /\ Parent[Target] # Lock
  <2>1. todo # {} => Target \in Owned
    BY <1>0, TargetIsFirst DEF TypeOK
  <2> QED
    BY <1>l, <2>1, Parents
<1>1. ASSUME journal' = journal PROVE InstalledMemory => InstalledMemory'
  BY <1>1 DEF InstalledMemory
<1>2. ASSUME NEW e, journal' = Append(journal, e) PROVE InstalledMemory => InstalledMemory'
  <2>1. \A i \in DOMAIN journal : i \in DOMAIN journal' /\ journal'[i] = journal[i]
    BY <1>0, <1>2, Appended
  <2> QED
    BY <2>1 DEF InstalledMemory
<1>3. ASSUME NEW s \in {"temporary", "installed"}, journal' = LastState(s), journal # <<>>,
             s = "installed" \/ Last(journal).state # "installed"
      PROVE  InstalledMemory => InstalledMemory'
  <2>1. /\ DOMAIN journal' = DOMAIN journal /\ Last(journal').state = s
        /\ \A i \in DOMAIN journal : /\ \/ journal'[i] = journal[i]
                                        \/ journal'[i] = Last(journal') /\ journal[i] = Last(journal)
                                     /\ journal'[i].kind = journal[i].kind
                                     /\ journal'[i].path = journal[i].path
    BY <1>0, <1>3, Restated
  <2>2. \A i \in DOMAIN journal : journal[i].state = "installed" => journal'[i].state = "installed"
    BY <1>3, <2>1
  <2> QED
    BY <2>1, <2>2 DEF InstalledMemory
<1>4. ASSUME journal' = Settled PROVE InstalledMemory => InstalledMemory'
  <2>1. /\ DOMAIN journal' = DOMAIN journal
        /\ \A i \in DOMAIN journal : journal[i].kind = "dir" => journal'[i] = journal[i]
    BY <1>0, <1>4, SettledFacts DEF Active
  <2> QED
    BY <2>1 DEF InstalledMemory
<1>5. ASSUME NEW n, todo # {}, disk' = [disk EXCEPT ![Target] = n] PROVE disk'[Lock] = disk[Lock]
  BY <1>0, <1>l, <1>t, <1>5
<1>6. CASE BeginOperation
  <2> DEFINE parent == Parent[Target]
  <2>1. /\ todo # {}
        /\ journal' = journal \/ journal' = Append(journal, Widened(parent))
        /\ disk' = disk \/ disk' = [disk EXCEPT ![parent].rw = TRUE]
    BY <1>0, <1>6, BeginOperationShape, Zenon
  <2>2. disk'[Lock] = disk[Lock]
    BY <1>0, <1>l, <1>t, <2>1
  <2> QED
    BY <1>1, <1>2, <2>1, <2>2
<1>7. CASE MakeDirectory
  BY <1>0, <1>1, <1>2, <1>7, MakeDirectoryShape
<1>8. CASE IdentifyDirectory
  <2>1. /\ pc = "dir-made" /\ disk' = disk
        /\ journal' = journal \/ journal' = LastState("temporary")
    BY <1>0, <1>8, IdentifyDirectoryShape
  <2>2. journal # <<>> /\ Last(journal).state = "unknown"
    BY <1>0, <2>1 DEF OperationInv, LastIs
  <2> QED
    BY <1>1, <1>3, <2>1, <2>2
<1>9. CASE InstallDirectory
  <2>1. /\ pc = "dir-named"
        /\ \/ disk' = [disk EXCEPT ![Target] = Wanted] /\ journal' = LastState("installed")
           \/ disk' = disk /\ journal' = journal
    BY <1>0, <1>9, InstallDirectoryShape, Zenon
  <2>2. journal # <<>> /\ todo # {}
    BY <1>0, <2>1 DEF OperationInv, LastIs, OpPhases, DirPhases
  <2> QED
    BY <1>1, <1>3, <1>5, <2>1, <2>2
<1>10. CASE OpenFile \/ OpenTemporary \/ RemoveFlat
  <2>1. /\ pc = "operation"
        /\ disk' = disk \/ \E n : disk' = [disk EXCEPT ![Target] = n]
        /\ journal' = journal \/ \E e : journal' = Append(journal, e)
    <3>1. CASE OpenFile
      BY <1>0, <3>1, OpenFileShape, Zenon
    <3>2. CASE OpenTemporary
      BY <1>0, <3>2, OpenTemporaryShape, Zenon
    <3>3. CASE RemoveFlat
      BY <1>0, <3>3, RemoveFlatShape, Zenon
    <3> QED
      BY <1>10, <3>1, <3>2, <3>3
  <2>2. todo # {}
    BY <1>0, <2>1 DEF OperationInv, OpPhases
  <2> QED
    BY <1>1, <1>2, <1>5, <2>1, <2>2
<1>11. CASE FillFile \/ FillTemporary \/ Verify
  <2>1. /\ disk' = disk \/ (pc = "file-opened" /\ \E n : disk' = [disk EXCEPT ![Target] = n])
        /\ journal' = journal
    <3>1. CASE FillFile
      BY <1>0, <3>1, FillFileShape, Zenon
    <3>2. CASE FillTemporary
      BY <1>0, <3>2, FillTemporaryShape, Zenon
    <3>3. CASE Verify
      BY <1>0, <3>3, VerifyShape, Zenon
    <3> QED
      BY <1>11, <3>1, <3>2, <3>3
  <2>2. pc = "file-opened" => todo # {}
    BY <1>0 DEF OperationInv, OpPhases, FilePhases
  <2> QED
    BY <1>1, <1>5, <2>1, <2>2
<1>12. CASE InstallReplacement
  <2>1. /\ pc = "temp-filled"
        /\ \/ disk' = [disk EXCEPT ![Target] = Wanted] /\ journal' = LastState("installed")
           \/ disk' = disk /\ journal' = journal
    BY <1>0, <1>12, InstallReplacementShape, Zenon
  <2>2. journal # <<>> /\ todo # {}
    BY <1>0, <2>1 DEF OperationInv, LastIs, OpPhases, ReplacePhases
  <2> QED
    BY <1>1, <1>3, <1>5, <2>1, <2>2
<1>13. CASE RestoreParentMode
  <2>1. (disk' = disk \/ disk' = Narrowed) /\ (journal' = journal \/ journal' = Settled)
    BY <1>0, <1>13, RestoreParentModeShape
  <2>2. \A i \in ActiveModes : journal[i].path # Lock
    BY <1>0, <1>l DEF ActiveModes, JournalInv, EntryOK
  <2>3. Narrowed[Lock] = disk[Lock]
    BY <1>l, <2>2 DEF Narrowed
  <2> QED
    BY <1>1, <1>4, <2>1, <2>3
<1>14. CASE EndOperation
  <2>1. pc = "ended" /\ journal' = journal /\ (Target = Memory \/ disk' = disk)
    BY <1>0, <1>14, EndOperationShape
  <2> QED
    BY <1>1, <2>1
<1> QED
  BY <1>6, <1>7, <1>8, <1>9, <1>10, <1>11, <1>12, <1>13, <1>14 DEF Operation, Verify

(* What a rollback step leaves of the lock file is accounted for.          *)
LEMMA RecoverLock ==
    ASSUME Core, AccountInv, RecoverEntry, Exists(disk, Lock)'
    PROVE  approved.nodes[Memory].kind = "dir" \/ Reported(Memory)' \/ InstalledMemory'
<1> DEFINE e == Last(journal)
<1>0. TypeOK /\ PlanInv /\ journal \in Seq(EntryType) /\ disk \in [Paths -> Nodes]
      /\ Memory \in Owned /\ Lock \in Paths /\ Lock \notin Owned /\ Lock # Root
      /\ Lock \in DOMAIN Parent /\ Parent[Lock] = Memory
  BY PathSets, Parents DEF Core, TypeOK
<1>1. /\ pc = "recovering" /\ journal # <<>> /\ journal' = Front(journal) /\ pc' = "recovering"
      /\ UNCHANGED <<approved, touched, manifest>>
  BY <1>0, RecoverEntryShape
<1>2. manifest.mode # None
  BY <1>0, <1>1 DEF PlanInv, ApplyPhases
<1>3. Approving
  BY <1>1, <1>2 DEF Approving
<1>4. /\ e \in EntryType /\ EntryOK(e) /\ report.unresolved \subseteq report'.unresolved
      /\ \E n \in Nodes :
           /\ UndoneAt(e, n)
           /\ \/ disk' = [disk EXCEPT ![e.path] = n]
              \/ /\ e.path \in Owned /\ entry_report_path(e) \in report'.unresolved
                 /\ disk' = [[disk EXCEPT ![e.path] = n] EXCEPT ![Parent[e.path]].rw = TRUE]
           /\ \/ entry_report_path(e) \in report'.unresolved
              \/ Restored(e, n) /\ report' = report
  BY RecoverEffect
<1>5. PICK n \in Nodes :
        /\ UndoneAt(e, n)
        /\ \/ disk' = [disk EXCEPT ![e.path] = n]
           \/ /\ e.path \in Owned /\ entry_report_path(e) \in report'.unresolved
              /\ disk' = [[disk EXCEPT ![e.path] = n] EXCEPT ![Parent[e.path]].rw = TRUE]
        /\ \/ entry_report_path(e) \in report'.unresolved
           \/ Restored(e, n) /\ report' = report
  BY <1>4
<1>6. \A i \in DOMAIN journal : journal[i] = e \/ (i \in DOMAIN journal' /\ journal'[i] = journal[i])
  BY <1>0, <1>1, Shortened
<1>7. e.path # Lock /\ e.path \in Paths /\ (e.path \in Owned => Parent[e.path] # Lock)
  <2>1. e.path \in Owned \cup {Root}
    BY <1>4, PathSets DEF EntryOK, EntryType
  <2> QED
    BY <1>0, <2>1, Parents, PathSets
<1>f. e.kind = "dir" => approved.nodes[e.path].kind = "missing"
  BY <1>0, <1>2, <1>4, EntryFacts
<1> HIDE DEF e
<1>8. disk'[Lock] = disk[Lock]
  <2> DEFINE d == [disk EXCEPT ![e.path] = n]
  <2>1. d[Lock] = disk[Lock] /\ d \in [Paths -> Nodes]
    BY <1>0, <1>7
  <2>2. CASE disk' = d
    BY <2>1, <2>2
  <2>3. CASE e.path \in Owned /\ disk' = [d EXCEPT ![Parent[e.path]].rw = TRUE]
    <3>1. Parent[e.path] # Lock
      BY <1>7, <2>3
    <3> HIDE DEF d
    <3> QED
      BY <1>0, <2>1, <2>3, <3>1
  <2> QED
    BY <1>5, <2>2, <2>3
<1>9. approved.nodes[Memory].kind = "dir" \/ Reported(Memory) \/ InstalledMemory
  BY <1>3, <1>8 DEF AccountInv, Exists
<1>10. CASE Reported(Memory)
  BY <1>4, <1>10 DEF Reported
<1>11. CASE InstalledMemory
  <2>1. PICK i \in DOMAIN journal : /\ journal[i].kind = "dir" /\ journal[i].path = Memory
                                    /\ journal[i].state = "installed"
    BY <1>11 DEF InstalledMemory
  <2>2. CASE journal[i] # e
    BY <1>6, <2>1, <2>2 DEF InstalledMemory
  <2>3. CASE journal[i] = e
    <3>1. e.kind = "dir" /\ e.path = Memory /\ e.state = "installed"
      BY <2>1, <2>3
    <3>2. entry_report_path(e).path = Memory
      BY <3>1 DEF entry_report_path, At
    <3>3. CASE entry_report_path(e) \in report'.unresolved
      BY <3>2, <3>3 DEF Reported
    <3>4. CASE entry_report_path(e) \notin report'.unresolved
      <4>1. Restored(e, n) /\ disk' = [disk EXCEPT ![e.path] = n]
        BY <1>5, <3>4
      <4>2. SamePrestate(n, approved.nodes[Memory]) /\ disk'[Memory] = n
        BY <1>0, <1>7, <3>1, <4>1 DEF Restored
      <4>3. approved.nodes[Memory] \in Nodes
        BY <1>0, <1>2, PathSets DEF PlanInv, Planned, SeenNodes
      <4>4. disk'[Memory].kind = "missing"
        BY <1>f, <3>1, <4>2, <4>3, SameMeans
      <4>5. Tree(disk')
        <5>1. Next
          BY DEF Next, Command, ApplyCommand
        <5> QED
          BY <5>1, DiskStep DEF DiskInv
      <4> QED
        BY <1>0, <4>4, <4>5 DEF Tree, Exists
    <3> QED
      BY <3>3, <3>4
  <2> QED
    BY <2>2, <2>3
<1> QED
  BY <1>9, <1>10, <1>11

(* A lock file that is there is accounted for over every step.             *)
LEMMA AccountLock ==
    ASSUME Core, FailureInv, AccountInv, Next, Approving', Exists(disk, Lock)'
    PROVE  (approved.nodes[Memory].kind = "dir")' \/ Reported(Memory)' \/ InstalledMemory'
<1> DEFINE Goal == (approved.nodes[Memory].kind = "dir")' \/ Reported(Memory)' \/ InstalledMemory'
<1>0. TypeOK /\ PlanInv /\ DiskInv /\ DirsInv /\ disk \in [Paths -> Nodes]
      /\ Memory \in Owned /\ Memory \in Dirs /\ Memory \in Paths /\ Lock \notin Owned /\ Lock \in Paths
      /\ Lock \in DOMAIN Parent /\ Parent[Lock] = Memory
  BY PathSets, Parents DEF Core, TypeOK
<1>s. /\ \A n : Goes(n) => pc' = n /\ report' = report
      /\ \A n, x : Slips(n, x) => pc' = n /\ report'.unresolved = report.unresolved
      /\ \A n, x : Refuses(n, x) => pc' = "done" /\ report'.unresolved = {}
      /\ Leaves => pc' = "done" /\ report'.unresolved = {TempOf(Root)}
  BY Zenon DEF Goes, Slips, Refuses, Leaves
<1>1. ASSUME UNCHANGED <<approved, journal>>, disk'[Lock] = disk[Lock] \/ disk'[Lock] = Missing,
             report.unresolved \subseteq report'.unresolved, Approving' => Approving
      PROVE Goal
  <2>1. Missing.kind = "missing"
    BY DEF Missing, NodeOf
  <2>2. Exists(disk, Lock)
    BY <1>1, <2>1 DEF Exists
  <2> QED
    BY <1>1, <2>2 DEF AccountInv, Reported, InstalledMemory
<1>2. ASSUME manifest' = manifest, pc \notin {"inspected", "crashed"}, pc' # "inspected"
      PROVE  Approving' => Approving
  BY <1>2 DEF Approving
<1>3. CASE Inspect
  <2>1. /\ pc = "idle" /\ manifest' = manifest /\ disk' = disk
        /\ \/ approved' = Snapshot
           \/ pc' = "done"
    BY <1>0, <1>3, <1>s, InspectShape
  <2>2. CASE pc' = "done"
    BY <1>0, <2>1, <2>2 DEF Approving, PlanInv
  <2>3. CASE approved' = Snapshot
    <3>1. disk[Memory].kind = "dir"
      BY <1>0, <2>1 DEF DiskInv, Tree, Exists
    <3>2. approved'.nodes[Memory] = Prestate(disk[Memory]) /\ disk[Memory] \in Nodes
      BY <1>0, <2>3 DEF Snapshot
    <3> QED
      BY <3>1, <3>2, PrestateFacts
  <2> QED
    BY <2>1, <2>2, <2>3
<1>4. CASE Plan
  <2>1. /\ pc = "inspected" /\ UNCHANGED <<disk, approved, journal, touched>>
        /\ (pc' = "stage1" /\ report' = report) \/ (pc' = "done" /\ manifest' = manifest)
    BY <1>0, <1>4, <1>s, PlanShape
  <2>2. CASE pc' = "done" /\ manifest' = manifest
    BY <1>0, <2>1, <2>2 DEF Approving, PlanInv
  <2>3. CASE report' = report
    <3>1. Approving
      BY <2>1 DEF Approving
    <3> QED
      BY <1>1, <2>1, <2>3, <3>1
  <2> QED
    BY <2>1, <2>2, <2>3
<1>5. CASE CreateCandidateDir \/ CloseCandidateDir \/ ApplyStart \/ AcquireExistingLock \/ CheckPrestates
  <2>1. /\ pc \in {"stage1", "staged1", "stage2", "staged2", "planned", "lock", "check"}
        /\ pc' # "inspected" /\ UNCHANGED <<manifest, approved, journal>>
        /\ disk' = disk \/ (pc = "lock" /\ disk[Memory].kind = "dir")
    <3>1. CASE CreateCandidateDir \/ CloseCandidateDir
      BY <1>0, <3>1, <1>s, CandidateDirShape
    <3>2. CASE ApplyStart
      <4>1. /\ pc = "planned" /\ UNCHANGED <<manifest, approved, journal, touched, disk>>
            /\ \/ Goes("lock")
               \/ \E layout : \E x : Refuses(layout, x)
        BY <1>0, <3>2, ApplyStartShape, Zenon
      <4>2. pc' = "lock" \/ pc' = "done"
        BY <1>s, <4>1, Zenon
      <4> QED
        BY <4>1, <4>2
    <3>3. CASE AcquireExistingLock
      <4>1. /\ pc = "lock" /\ UNCHANGED <<manifest, approved, journal, touched>>
            /\ disk' = disk \/ disk[Memory].kind = "dir"
            /\ Goes("check") \/ Refuses("partial", Unlockable) \/ Refuses("partial", FALSE)
        BY <1>0, <3>3, AcquireExistingLockShape, Zenon
      <4>2. pc' = "check" \/ pc' = "done"
        BY <1>s, <4>1, Zenon
      <4> QED
        BY <4>1, <4>2
    <3>4. CASE CheckPrestates
      <4>1. /\ pc = "check" /\ UNCHANGED <<manifest, approved, journal, touched, disk>>
            /\ \/ Goes("next")
               \/ \E layout \in {"partial", initial_layout} :
                    Refuses(layout, \/ \E p \in Owned : manifest.kinds[p] # None /\ ~AsApproved(p)
                                    \/ ~reconstruct_candidate)
        BY <1>0, <3>4, CheckPrestatesShape, Zenon
      <4>2. pc' = "next" \/ pc' = "done"
        BY <1>s, <4>1, Zenon
      <4> QED
        BY <4>1, <4>2
    <3> QED
      BY <1>5, <3>1, <3>2, <3>3, <3>4
  <2>2. CASE disk' = disk
    <3>1. report.unresolved = {}
      BY <2>1 DEF FailureInv
    <3> QED
      BY <1>1, <1>2, <2>1, <2>2, <3>1
  <2>3. CASE pc = "lock" /\ disk[Memory].kind = "dir"
    BY <1>0, <2>1, <2>3 DEF DirsInv, EarlyPhases
  <2> QED
    BY <2>1, <2>2, <2>3
<1>6. CASE Validate \/ Revalidate
  <2>1. /\ pc \in {"next", "revalidating"} /\ pc' \in {"revalidating", "failed", "done"}
        /\ UNCHANGED <<manifest, approved, journal, disk>>
    BY <1>0, <1>6, <1>s, ValidateShape, RevalidateShape, Steady
  <2>2. report.unresolved = {}
    BY <2>1 DEF FailureInv
  <2> QED
    BY <1>1, <1>2, <2>1, <2>2
<1>7. CASE HandleFailure \/ Classify
  <2>1. /\ pc \in {"failed", "recovering"} /\ pc' \in {"recovering", "done"}
        /\ UNCHANGED <<manifest, approved, journal>>
        /\ disk' = disk \/ disk' = [disk EXCEPT ![Lock] = Missing]
        /\ report.unresolved \subseteq report'.unresolved
    BY <1>0, <1>7, HandleFailureShape, ClassifyShape
  <2>2. disk'[Lock] = disk[Lock] \/ disk'[Lock] = Missing
    BY <1>0, <2>1
  <2> QED
    BY <1>1, <1>2, <2>1, <2>2
<1>8. CASE RecoverEntry
  <2>1. approved' = approved
    BY <1>0, <1>8, RecoverEntryShape
  <2> QED
    BY <1>8, <2>1, RecoverLock
<1>9. CASE Operation
  <2>1. /\ UNCHANGED <<approved, manifest>> /\ report'.unresolved = report.unresolved
        /\ pc \notin {"inspected", "crashed"} /\ pc' # "inspected"
    BY <1>0, <1>9, OperationQuiet DEF OpPhases, DirPhases, FilePhases, ReplacePhases
  <2>2. Approving
    BY <1>2, <2>1
  <2>3. InstalledMemory => InstalledMemory'
    BY <1>9, OperationLock
  <2>4. Reported(Memory) => Reported(Memory)'
    BY <2>1 DEF Reported
  <2>5. CASE disk'[Lock] = disk[Lock]
    BY <2>1, <2>2, <2>3, <2>4, <2>5 DEF AccountInv, Exists
  <2>6. CASE pc = "ended" /\ Target = Memory
    <3>1. Kind = "create-directory" => InstalledMemory
      BY <2>6 DEF AccountInv
    <3>2. Kind = "create-directory"
      <4>1. manifest.mode # None /\ todo # {}
        BY <1>0, <2>6 DEF Core, OperationInv, PlanInv, ApplyPhases
      <4>2. Kind \in {"create-directory", "create-file", "replace-file", "remove-file"}
        BY <4>1, TargetFacts
      <4>3. Kind \in {"create-file", "replace-file", "remove-file"} => Target \in Files
        BY <4>1, TargetFacts
      <4> QED
        BY <1>0, <2>6, <4>2, <4>3, PathSets
    <3> QED
      BY <2>3, <3>1, <3>2
  <2> QED
    BY <1>9, <2>5, <2>6, OperationLock
<1>10. ASSUME NEW p \in EditPaths, Edit(p) PROVE Goal
  <2>1. /\ UNCHANGED <<pc, approved, manifest, journal, report>> /\ p \in Owned
        /\ \E n : disk' = [disk EXCEPT ![p] = n]
    BY <1>0, <1>10, EditShape
  <2>2. disk'[Lock] = disk[Lock]
    BY <1>0, <2>1
  <2>3. Approving' => Approving
    BY <2>1 DEF Approving
  <2> QED
    BY <1>1, <2>1, <2>2, <2>3
<1>11. CASE Crash \/ StartOver
  <2>1. pc' = "crashed" \/ (pc' = "idle" /\ manifest' = NoManifest)
    BY <1>0, <1>11, CrashShape, StartOverShape
  <2> QED
    BY <2>1 DEF Approving, NoManifest
<1> QED
  BY <1>3, <1>4, <1>5, <1>6, <1>7, <1>8, <1>9, <1>10, <1>11 DEF Next, Command, ApplyCommand

(* Where the creation of the memory directory stands.                      *)
MemoryMade ==
    pc \in {"dir-installed", "ended"} \/ (pc = "restoring" /\ report.class = None) =>
        (Kind = "create-directory" /\ Target = Memory => InstalledMemory)

(* A memory directory that was made is in the journal.                     *)
LEMMA AccountMemory ==
    ASSUME Core, MemoryMade, Next
    PROVE  MemoryMade'
<1>0. TypeOK /\ OperationInv /\ journal \in Seq(EntryType)
  BY DEF Core, TypeOK
<1>s. /\ \A n : Goes(n) => pc' = n /\ report' = report
      /\ \A n, x : Slips(n, x) => pc' = n /\ report'.class # None
      /\ \A n, x : Refuses(n, x) => pc' = "done"
      /\ Leaves => pc' = "done"
  <2>1. None \notin {"usage", "operational"}
    BY DEF None
  <2> QED
    BY <2>1, Zenon DEF Goes, Slips, Refuses, Leaves
<1>1. ASSUME pc' \notin {"dir-installed", "ended", "restoring"} \/ (pc' = "restoring" /\ report'.class # None)
      PROVE  MemoryMade'
  BY <1>1 DEF MemoryMade
<1>g. /\ Goes("operation") \/ Goes("dir-made") \/ Goes("dir-named") \/ Goes("file-opened")
         \/ Goes("file-filled") \/ Goes("temp-opened") \/ Goes("temp-filled") \/ Goes("replaced")
         \/ Goes("unlinked") \/ Goes("next") => MemoryMade'
      /\ \A x : Slips("restoring", x) \/ Slips("failed", x) => MemoryMade'
  <2>1. \A n : n \notin {"dir-installed", "ended", "restoring"} /\ Goes(n) => MemoryMade'
    BY <1>1, <1>s
  <2>2. \A n, x : n \notin {"dir-installed", "ended"} /\ Slips(n, x) => MemoryMade'
    BY <1>1, <1>s
  <2>3. \A x : Slips("restoring", x) \/ Slips("failed", x) => MemoryMade'
    BY <2>2
  <2> QED
    BY <2>1, <2>3
<1>2. CASE Operation
  <2>1. InstalledMemory => InstalledMemory'
    BY <1>2, OperationLock
  <2>2. CASE BeginOperation
    BY <1>0, <1>g, <2>2, BeginOperationShape, Zenon
  <2>3. CASE MakeDirectory \/ IdentifyDirectory
    BY <1>0, <1>g, <2>3, MakeDirectoryShape, IdentifyDirectoryShape, Zenon
  <2>4. CASE InstallDirectory
    <3>1. /\ pc = "dir-named" /\ OperationFrame
          /\ \/ journal' = LastState("installed")
             \/ Slips("restoring", Exists(disk, Target))
      BY <1>0, <2>4, InstallDirectoryShape, Zenon
    <3>2. CASE Slips("restoring", Exists(disk, Target))
      BY <1>g, <3>2, Zenon
    <3>3. CASE journal' = LastState("installed")
      <4>1. journal # <<>> /\ Last(journal).kind = "dir" /\ Last(journal).path = Target
        BY <1>0, <3>1 DEF OperationInv, LastIs
      <4>2. /\ DOMAIN journal' = DOMAIN journal
            /\ Last(journal').kind = Last(journal).kind /\ Last(journal').path = Last(journal).path
            /\ Last(journal').state = "installed"
            /\ \E i \in DOMAIN journal : journal'[i] = Last(journal')
        BY <1>0, <3>3, <4>1, Restated
      <4>3. Target = Memory => InstalledMemory'
        BY <4>1, <4>2 DEF InstalledMemory
      <4>4. Target' = Target
        BY <3>1, Steady
      <4> QED
        BY <4>3, <4>4 DEF MemoryMade
    <3> QED
      BY <3>1, <3>2, <3>3
  <2>5. CASE OpenFile
    BY <1>0, <1>g, <2>5, OpenFileShape, Zenon
  <2>6. CASE FillFile
    BY <1>0, <1>g, <2>6, FillFileShape, Zenon
  <2>7. CASE OpenTemporary \/ FillTemporary
    BY <1>0, <1>g, <2>7, OpenTemporaryShape, FillTemporaryShape, Zenon
  <2>8. CASE InstallReplacement
    BY <1>0, <1>g, <2>8, InstallReplacementShape, Zenon
  <2>9. CASE RemoveFlat
    BY <1>0, <1>g, <2>9, RemoveFlatShape, Zenon
  <2>10. CASE Verify
    <3>1. /\ pc \in {"dir-installed", "file-filled", "replaced", "unlinked"}
          /\ OperationFrame
          /\ Goes("restoring") \/ \E x : Slips("restoring", x)
      BY <1>0, <2>10, VerifyShape, Zenon
    <3>2. Kind' = Kind /\ Target' = Target
      BY <3>1, Steady
    <3>3. Kind = "create-directory" => pc = "dir-installed"
      BY <1>0, <3>1 DEF OperationInv, FilePhases, ReplacePhases
    <3> QED
      BY <1>1, <1>s, <2>1, <3>1, <3>2, <3>3 DEF MemoryMade
  <2>11. CASE RestoreParentMode
    <3> DEFINE after == IF report.class = None THEN "ended" ELSE "failed"
    <3>1. /\ pc = "restoring" /\ OperationFrame
          /\ Goes(after) \/ Slips("failed", FALSE)
      BY <1>0, <2>11, RestoreParentModeShape, Zenon
    <3>2. Kind' = Kind /\ Target' = Target
      BY <3>1, Steady
    <3>3. pc' = after \/ pc' = "failed"
      BY <1>s, <3>1, Zenon
    <3> QED
      BY <1>1, <2>1, <3>1, <3>2, <3>3 DEF MemoryMade
  <2>12. CASE EndOperation
    <3>1. Goes("next") \/ Slips("failed", FALSE)
      BY <1>0, <2>12, EndOperationShape, Zenon
    <3> QED
      BY <1>g, <3>1, Zenon
  <2> QED
    BY <1>2, <2>2, <2>3, <2>4, <2>5, <2>6, <2>7, <2>8, <2>9, <2>10, <2>11, <2>12 DEF Operation, Verify
<1>3. CASE Inspect \/ Plan \/ CreateCandidateDir \/ CloseCandidateDir
  <2>1. pc' \in {"inspected", "stage1", "staged1", "stage2", "staged2", "planned", "done"}
    <3>1. CASE Inspect \/ Plan
      BY <1>0, <1>s, <3>1, InspectShape, PlanShape
    <3>2. CASE CreateCandidateDir \/ CloseCandidateDir
      BY <1>0, <1>s, <3>2, CandidateDirShape
    <3> QED
      BY <1>3, <3>1, <3>2
  <2> QED
    BY <1>1, <2>1
<1>4. CASE ApplyStart \/ AcquireExistingLock \/ CheckPrestates \/ Validate \/ Revalidate
  <2>1. pc' \in {"done", "lock", "check", "next", "revalidating", "failed"}
    <3>1. CASE ApplyStart
      BY <1>0, <1>s, <3>1, ApplyStartShape
    <3>2. CASE AcquireExistingLock
      BY <1>0, <1>s, <3>2, AcquireExistingLockShape
    <3>3. CASE CheckPrestates
      BY <1>0, <1>s, <3>3, CheckPrestatesShape
    <3>4. CASE Validate \/ Revalidate
      BY <1>0, <1>s, <3>4, ValidateShape, RevalidateShape
    <3> QED
      BY <1>4, <3>1, <3>2, <3>3, <3>4
  <2> QED
    BY <1>1, <2>1
<1>5. CASE HandleFailure \/ RecoverEntry \/ Classify
  <2>1. pc' \in {"recovering", "done"}
    BY <1>0, <1>5, HandleFailureShape, RecoverEntryShape, ClassifyShape
  <2> QED
    BY <1>1, <2>1
<1>6. ASSUME NEW p \in EditPaths, Edit(p) PROVE MemoryMade'
  <2>1. UNCHANGED <<pc, todo, manifest, journal, report>> /\ Target' = Target
    BY <1>0, <1>6, EditShape
  <2> QED
    BY <2>1 DEF MemoryMade, InstalledMemory, Kind
<1>7. CASE Crash \/ StartOver
  <2>1. pc' \in {"crashed", "idle"}
    BY <1>7 DEF Crash, StartOver
  <2> QED
    BY <1>1, <2>1
<1> QED
  BY <1>2, <1>3, <1>4, <1>5, <1>6, <1>7 DEF Next, Command, ApplyCommand

(* Everything that failure leaves is accounted for over every step.        *)
LEMMA AccountStep ==
    ASSUME Core, FailureInv, AccountInv, Next
    PROVE  AccountInv'
<1>1. MemoryMade'
  BY AccountMemory DEF AccountInv, MemoryMade
<1>2. Approving' => \A p \in Owned : Accounted(p)'
  BY AccountPaths
<1>3. (Approving /\ Exists(disk, Lock))' =>
          (approved.nodes[Memory].kind = "dir")' \/ Reported(Memory)' \/ InstalledMemory'
  BY AccountLock
<1> QED
  BY <1>1, <1>2, <1>3 DEF AccountInv, MemoryMade

-----------------------------------------------------------------------------
(* The invariant. *)

(* Everything that is proved of the reachable states except what a quiet   *)
(* run comes to.                                                           *)
Safe == Core /\ LockInv /\ SuccessInv /\ FailureInv /\ AccountInv

(* It holds in the beginning, ...                                          *)
LEMMA InitSafe ==
    ASSUME Init
    PROVE  Safe
<1>1. /\ staging = "none" /\ pc = "idle" /\ manifest = NoManifest /\ todo = {} /\ journal = <<>>
      /\ locked = FALSE /\ report = NoReport
  BY InitShape
<1>2. report.unresolved = {} /\ report.layout = None /\ ~report.ok
  <2>1. \A b : b = FALSE => ~b
    OBVIOUS
  <2>2. NoReport.unresolved = {} /\ NoReport.layout = None /\ NoReport.ok = FALSE
    BY DEF NoReport
  <2> QED
    BY <1>1, <2>1, <2>2
<1>3. manifest.mode = None
  BY <1>1 DEF NoManifest
<1>4. None \notin {"absent", "minimal", "full"}
  BY DEF None
<1>5. LockInv
  BY <1>1 DEF LockInv, EarlyPhases, OpPhases, DirPhases, FilePhases, ReplacePhases
<1>6. SuccessInv
  BY <1>2 DEF SuccessInv, SuccessIsApproved
<1>7. FailureInv
  BY <1>1, <1>2, <1>4 DEF FailureInv
<1>8. AccountInv
  BY <1>1, <1>3 DEF AccountInv, Approving
<1> QED
  BY <1>5, <1>6, <1>7, <1>8, InitCore DEF Safe

(* ... every step keeps it, ...                                            *)
LEMMA SafeStep ==
    ASSUME Safe, Next
    PROVE  Safe'
<1>1. Core' /\ LockInv'
  BY CoreStep, LockStep DEF Safe
<1>2. SuccessInv'
  BY SuccessStep DEF Safe, SuccessInv
<1>3. FailureInv' /\ AccountInv'
  BY FailureStep, AccountStep DEF Safe
<1> QED
  BY <1>1, <1>2, <1>3 DEF Safe

(* ... and so does a stuttering step.                                      *)
LEMMA SafeStutter ==
    ASSUME Safe, UNCHANGED vars
    PROVE  Safe'
<1> USE DEF vars
<1>1. Core'
  BY CoreStutter DEF Safe
<1>2. LockInv'
  BY DEF Safe, LockInv, Exists
<1>3. SuccessInv'
  BY DEF Safe, SuccessInv, SuccessIsApproved, AsApproved, Residues, Exists
<1>4. FailureInv'
  BY DEF Safe, FailureInv, LayoutIsHonest, initial_layout, AsApproved
<1>5. AccountInv'
  BY DEF Safe, AccountInv, Accounted, AsApproved, Reported, Covers, InstalledMemory, Approving, Target, Kind, Exists
<1> QED
  BY <1>1, <1>2, <1>3, <1>4, <1>5 DEF Safe

(* What is said of a failure at the end of it follows.                     *)
LEMMA FailureAccounts ==
    ASSUME Safe
    PROVE  FailureIsAccounted
<1> SUFFICES ASSUME pc = "done", ~report.ok, manifest # NoManifest
             PROVE  FailureIsAccounted
  BY DEF FailureIsAccounted
<1>1. FailureInv /\ AccountInv /\ PlanInv
  BY DEF Safe, Core
<1>2. Approving
  BY <1>1 DEF PlanInv, Approving
<1>3. journal = <<>>
  BY <1>1 DEF FailureInv
<1>4. \A i \in DOMAIN journal : FALSE
  BY <1>3
<1>5. \A p \in Owned : AsApproved(p) \/ p \in touched \/ Reported(p)
  BY <1>1, <1>2, <1>4 DEF AccountInv, Accounted
<1>6. Exists(disk, Lock) => approved.nodes[Memory].kind = "dir" \/ Reported(Memory)
  BY <1>1, <1>2, <1>4 DEF AccountInv, InstalledMemory
<1>7. /\ \A p \in Owned : temps[p] # None => {TempOf(p), At(p), At(Root)} \cap report.unresolved # {}
      /\ staging # "none" => TempOf(Root) \in report.unresolved
      /\ report.layout \in {"absent", "minimal", "full"} =>
             report.unresolved = {} /\ LayoutIsHonest
  BY <1>1 DEF FailureInv
<1> QED
  BY <1>5, <1>6, <1>7, Zenon DEF FailureIsAccounted, LayoutIsHonest

-----------------------------------------------------------------------------
(* A quiet run: what is planned can be carried out. *)

(* Nothing fails when nothing is injected, unless there is a reason.       *)
LEMMA NoExcuse ==
    ASSUME faults = 0, faults' = 0
    PROVE  /\ \A n, x : Slips(n, x) => x
           /\ \A n, x : Refuses(n, x) => x
           /\ ~Leaves
<1>1. faults' # faults + 1
  OBVIOUS
<1>2. ASSUME NEW n, NEW x, Slips(n, x) PROVE x
  <2>1. Excused(x)
    BY <1>2, Zenon DEF Slips
  <2> QED
    BY <2>1, <1>1, Zenon DEF Excused
<1>3. ASSUME NEW n, NEW x, Refuses(n, x) PROVE x
  <2>1. Excused(x)
    BY <1>3, Zenon DEF Refuses
  <2> QED
    BY <2>1, <1>1, Zenon DEF Excused
<1>4. ~Leaves
  <2>1. ~Excused(FALSE)
    BY <1>1 DEF Excused
  <2> QED
    BY <2>1, Zenon DEF Leaves
<1> QED
  BY <1>2, <1>3, <1>4

(* A set grows by at most one member.                                      *)
LEMMA OneMore ==
    ASSUME NEW S, NEW x, NEW k \in Nat, NEW m, IsFiniteSet(S), Cardinality(S) <= k, m = k + 1
    PROVE  IsFiniteSet(S \cup {x}) /\ Cardinality(S \cup {x}) <= m
<1>1. /\ IsFiniteSet(S \cup {x})
      /\ Cardinality(S \cup {x}) = IF x \in S THEN Cardinality(S) ELSE Cardinality(S) + 1
  BY FS_AddElement
<1>2. Cardinality(S) \in Nat
  BY FS_CardinalityType
<1> QED
  BY <1>1, <1>2

(* There are as many operations as a plan may have.                        *)
LEMMA FewPaths ==
    /\ \A S : S \subseteq {AgentsMd, AgentsDir, Memory, Gitignore, Flat} => Cardinality(S) <= 5
    /\ \A S : S \subseteq {AgentsMd, AgentsDir, Memory, Gitignore, Flat, Schema, Index, Pages, Project}
              => Cardinality(S) <= 9
<1>1. /\ 1 = 0 + 1 /\ 2 = 1 + 1 /\ 3 = 2 + 1 /\ 4 = 3 + 1 /\ 5 = 4 + 1
      /\ 6 = 5 + 1 /\ 7 = 6 + 1 /\ 8 = 7 + 1 /\ 9 = 8 + 1
      /\ 0 \in Nat /\ 1 \in Nat /\ 2 \in Nat /\ 3 \in Nat /\ 4 \in Nat /\ 5 \in Nat
      /\ 6 \in Nat /\ 7 \in Nat /\ 8 \in Nat
  OBVIOUS
<1> DEFINE A5 == {AgentsMd, AgentsDir, Memory, Gitignore, Flat}
           A9 == {AgentsMd, AgentsDir, Memory, Gitignore, Flat, Schema, Index, Pages, Project}
<1>2. IsFiniteSet({}) /\ Cardinality({}) <= 0
  BY FS_EmptySet
<1>3. IsFiniteSet(A5) /\ Cardinality(A5) <= 5
  <2>1. IsFiniteSet({} \cup {AgentsMd}) /\ Cardinality({} \cup {AgentsMd}) <= 1
    BY <1>1, <1>2, OneMore, Zenon
  <2>2. IsFiniteSet(({} \cup {AgentsMd}) \cup {AgentsDir}) /\ Cardinality(({} \cup {AgentsMd}) \cup {AgentsDir}) <= 2
    BY <1>1, <2>1, OneMore, Zenon
  <2> DEFINE S2 == ({} \cup {AgentsMd}) \cup {AgentsDir}
             S3 == S2 \cup {Memory}
             S4 == S3 \cup {Gitignore}
  <2>3. A5 = S4 \cup {Flat}
    OBVIOUS
  <2>4. IsFiniteSet(S3) /\ Cardinality(S3) <= 3
    <3> HIDE DEF S2
    <3> QED
      BY <1>1, <2>2, OneMore, Zenon DEF S2
  <2> HIDE DEF S3
  <2>5. IsFiniteSet(S4) /\ Cardinality(S4) <= 4
    BY <1>1, <2>4, OneMore, Zenon
  <2> HIDE DEF S4, A5
  <2>6. IsFiniteSet(S4 \cup {Flat}) /\ Cardinality(S4 \cup {Flat}) <= 5
    BY <1>1, <2>5, OneMore, Zenon
  <2> QED
    BY <2>3, <2>6
<1>4. IsFiniteSet(A9) /\ Cardinality(A9) <= 9
  <2> DEFINE S6 == A5 \cup {Schema}
             S7 == S6 \cup {Index}
             S8 == S7 \cup {Pages}
  <2>1. A9 = S8 \cup {Project}
    OBVIOUS
  <2> HIDE DEF A5, A9
  <2>2. IsFiniteSet(S6) /\ Cardinality(S6) <= 6
    BY <1>1, <1>3, OneMore, Zenon
  <2> HIDE DEF S6
  <2>3. IsFiniteSet(S7) /\ Cardinality(S7) <= 7
    BY <1>1, <2>2, OneMore, Zenon
  <2> HIDE DEF S7
  <2>4. IsFiniteSet(S8) /\ Cardinality(S8) <= 8
    BY <1>1, <2>3, OneMore, Zenon
  <2> HIDE DEF S8
  <2>5. IsFiniteSet(S8 \cup {Project}) /\ Cardinality(S8 \cup {Project}) <= 9
    BY <1>1, <2>4, OneMore, Zenon
  <2> QED
    BY <2>1, <2>5
<1> HIDE DEF A5, A9
<1>5. ASSUME NEW T, IsFiniteSet(T), NEW k \in Nat, Cardinality(T) <= k, NEW S, S \subseteq T
      PROVE  Cardinality(S) <= k
  <2>1. Cardinality(S) <= Cardinality(T) /\ IsFiniteSet(S)
    BY <1>5, FS_Subset
  <2>2. Cardinality(S) \in Nat /\ Cardinality(T) \in Nat
    BY <1>5, <2>1, FS_CardinalityType
  <2> QED
    BY <1>5, <2>1, <2>2
<1>6. \A S : S \subseteq A5 => Cardinality(S) <= 5
  BY <1>3, <1>5
<1>7. \A S : S \subseteq A9 => Cardinality(S) <= 9
  BY <1>4, <1>5
<1> QED
  BY <1>6, <1>7 DEF A5, A9

(* What the operations of a plan make.                                     *)
LEMMA PlannedKinds ==
    ASSUME TypeOK, PlanInv, manifest.mode # None, NEW p \in Owned, manifest.kinds[p] # None
    PROVE  /\ p # Extra
           /\ p \in Dirs => /\ manifest.kinds[p] = "create-directory"
                            /\ approved.nodes[p].kind = "missing" /\ manifest.candidate[p].kind = "dir"
           /\ p \notin Dirs =>
                \/ /\ manifest.kinds[p] = "create-file" /\ approved.nodes[p].kind = "missing"
                   /\ manifest.candidate[p].kind = "file"
                \/ /\ manifest.kinds[p] = "replace-file" /\ approved.nodes[p].kind = "file"
                   /\ manifest.candidate[p].kind = "file"
                \/ /\ manifest.kinds[p] = "remove-file" /\ approved.nodes[p].kind = "file"
                   /\ p = Flat /\ manifest.candidate[p] = Missing /\ manifest.mode = "full"
<1> DEFINE k == manifest.kinds[p]
           a == approved.nodes[p]
           c == manifest.candidate[p]
           mode == manifest.mode
<1>1. PlanOf(p, a, c, k, mode)
  BY DEF PlanInv, Planned, PlannedPath
<1>2. k \in {"create-directory", "create-file", "replace-file", "remove-file"} /\ k # None
  BY DEF TypeOK, OperationKinds
<1>3. \A t : DesiredFile(t).kind = "file"
  BY Made
<1>4. Dir(TRUE, "apply").kind = "dir"
  BY Made, ZenonT(30)
<1>5. p \in Dirs <=> p \notin Files
  BY PathSets
<1>6. Flat \in Files
  BY PathSets
<1> HIDE DEF k, a, c, mode
<1>7. /\ p # Extra
      /\ k = "create-directory" => p \in Dirs /\ a.kind = "missing" /\ c.kind = "dir"
      /\ k = "create-file" => p \in Files /\ a.kind = "missing" /\ c.kind = "file"
      /\ k = "replace-file" => p \in Files /\ a.kind = "file" /\ c.kind = "file"
      /\ k = "remove-file" => p = Flat /\ a.kind = "file" /\ c = Missing /\ mode = "full"
  BY <1>1, <1>2, <1>3, <1>4 DEF PlanOf
<1>8. /\ p # Extra
      /\ p \in Dirs => k = "create-directory" /\ a.kind = "missing" /\ c.kind = "dir"
      /\ p \notin Dirs =>
           \/ k = "create-file" /\ a.kind = "missing" /\ c.kind = "file"
           \/ k = "replace-file" /\ a.kind = "file" /\ c.kind = "file"
           \/ k = "remove-file" /\ a.kind = "file" /\ p = Flat /\ c = Missing /\ mode = "full"
  BY <1>2, <1>5, <1>6, <1>7
<1> QED
  BY <1>8 DEF k, a, c, mode

(* Every plan passes the checks that apply begins with.                    *)
LEMMA ManifestIsValid ==
    ASSUME TypeOK, PlanInv, manifest.mode # None
    PROVE  validate_manifest(manifest)
<1> DEFINE used == {p \in Owned : manifest.kinds[p] # None}
           c == manifest.candidate
<1>1. manifest.mode \in {"minimal", "full"}
  BY DEF TypeOK
<1>2. Wiki(c, manifest.mode)
  BY <1>1, CandidateIsWiki DEF PlanInv, Planned
<1>3. ASSUME NEW p \in used, manifest.mode = "minimal" PROVE p \in {AgentsMd, AgentsDir, Memory, Gitignore, Flat}
  <2>1. CASE p \in {Pages, Schema, Index, Project}
    <3>1. c[p].kind = "missing"
      BY <1>2, <1>3, <2>1 DEF Wiki
    <3>2. manifest.mode # "full"
      BY <1>3
    <3> QED
      BY <3>1, <3>2, PlannedKinds
  <2> QED
    BY <2>1, OwnedPaths, PlannedKinds
<1>4. ASSUME NEW p \in used PROVE p \in {AgentsMd, AgentsDir, Memory, Gitignore, Flat, Schema, Index, Pages, Project}
  BY OwnedPaths, PlannedKinds
<1>5. Cardinality(used) <= (IF manifest.mode = "minimal" THEN 5 ELSE 9)
  <2>1. CASE manifest.mode = "minimal"
    <3>1. used \subseteq {AgentsMd, AgentsDir, Memory, Gitignore, Flat}
      BY <1>3, <2>1
    <3> HIDE DEF used
    <3> QED
      BY <2>1, <3>1, FewPaths
  <2>2. CASE manifest.mode # "minimal"
    <3>1. used \subseteq {AgentsMd, AgentsDir, Memory, Gitignore, Flat, Schema, Index, Pages, Project}
      BY <1>4
    <3> HIDE DEF used
    <3> QED
      BY <2>2, <3>1, FewPaths
  <2> QED
    BY <2>1, <2>2
<1>6. ASSUME NEW p \in used PROVE validate_operation(p, manifest.kinds[p], manifest.mode)
  <2>1. mutable_operation_path(p, manifest.mode)
    <3>1. CASE manifest.mode = "minimal"
      BY <1>3, <3>1 DEF mutable_operation_path
    <3>2. CASE manifest.mode = "full"
      BY <1>4, <3>2 DEF mutable_operation_path
    <3> QED
      BY <1>1, <3>1, <3>2
  <2>2. p = Flat => manifest.mode = "minimal" \/ manifest.kinds[p] = "remove-file"
    <3> SUFFICES ASSUME p = Flat, manifest.mode # "minimal" PROVE manifest.kinds[p] = "remove-file"
      OBVIOUS
    <3>1. c[Flat].kind = "missing" /\ Flat \notin Dirs
      BY <1>1, <1>2, PathSets DEF Wiki
    <3> QED
      BY <3>1, PlannedKinds
  <2>3. /\ manifest.kinds[p] = "create-directory" <=> p \in Dirs
        /\ manifest.kinds[p] = "remove-file" => p = Flat /\ manifest.mode = "full"
        /\ approved.nodes[p].kind =
             IF manifest.kinds[p] \in {"create-directory", "create-file"} THEN "missing" ELSE "file"
    BY PlannedKinds
  <2> QED
    BY <2>1, <2>2, <2>3, Zenon DEF validate_operation
<1> QED
  BY <1>5, <1>6, Zenon DEF validate_manifest

(* The candidate that apply builds again is the planned one.               *)
LEMMA CandidateIsRebuilt ==
    ASSUME TypeOK, PlanInv, manifest.mode # None
    PROVE  reconstruct_candidate
<1> DEFINE c == manifest.candidate
           b == build_candidate
<1>1. manifest.mode \in {"minimal", "full"} /\ c \in [Owned -> Nodes]
  BY DEF TypeOK
<1>2. Wiki(c, manifest.mode)
  BY <1>1, CandidateIsWiki DEF PlanInv, Planned
<1>3. ASSUME NEW p \in Owned PROVE b[p] \in Nodes /\ SamePrestate(b[p], c[p])
  <2>1. SamePrestate(c[p], c[p]) /\ c[p] \in Nodes
    BY <1>1 DEF SamePrestate
  <2>2. CASE manifest.kinds[p] = None
    <3>1. b[p] = approved.nodes[p]
      BY <2>2 DEF build_candidate, None
    <3>2. approved.nodes[p] \in Nodes /\ SamePrestate(approved.nodes[p], c[p])
      BY <2>2, PathSets DEF PlanInv, Planned, PlannedPath, PlanOf, SeenNodes
    <3> QED
      BY <3>1, <3>2
  <2>3. CASE manifest.kinds[p] = "remove-file"
    <3>1. "remove-file" # None
      BY DEF None
    <3>2. b[p] = Missing /\ c[p] = Missing
      <4>1. b[p] = Missing
        BY <2>3, <3>1 DEF build_candidate
      <4>2. c[p] = Missing
        BY <2>3 DEF PlanInv, Planned, PlannedPath, PlanOf
      <4> QED
        BY <4>1, <4>2
    <3> QED
      BY <2>1, <3>2
  <2>4. CASE manifest.kinds[p] \notin {None, "remove-file"}
    <3>1. b[p] = c[p]
      BY <2>4 DEF build_candidate
    <3> QED
      BY <2>1, <3>1
  <2> QED
    BY <2>2, <2>3, <2>4
<1> HIDE DEF b
<1>4. \A p \in Owned : b[p].kind = c[p].kind /\ b[p].text = c[p].text
  BY <1>1, <1>3, SameMeans
<1>5. Wiki(b, manifest.mode)
  BY <1>1, <1>2, <1>4, WikiByContents
<1>6. validate_owned_candidate(b, manifest.mode)
  BY <1>1, <1>5, WikiIsCandidate
<1> QED
  BY <1>3, <1>6 DEF reconstruct_candidate, b

(* A directory comes before what lies in it, and in pages/ lie the pages.  *)
LEMMA Places ==
    \A p \in Owned : /\ PathPlace[p] \in Nat
                     /\ Parent[p] \in Dirs => PathPlace[Parent[p]] < PathPlace[p]
                     /\ Parent[p] = Pages => p \in {Project, Extra}
BY DEF PathPlace, Parent, Owned, Dirs, Files, PagePaths, Root, AgentsMd, AgentsDir, Memory, Gitignore,
       Index, Schema, Pages, Flat, Lock, Project, Extra

(* When an operation begins, the directory it works in is there and as     *)
(* planned: creating it comes first.                                       *)
LEMMA ParentIsThere ==
    ASSUME Core, manifest.mode # None, QuietState, pc = "next", todo # {},
           NEW parent, parent = Parent[Target]
    PROVE  /\ disk[parent].kind = "dir" /\ AsApproved(Target) /\ Target \in Owned
           /\ parent \in Owned => parent \notin todo /\ SamePrestate(disk[parent], manifest.candidate[parent])
<1>0. TypeOK /\ PlanInv /\ Tree(disk)
  BY DEF Core, DiskInv
<1>1. Target \in todo /\ Target \in Owned /\ manifest.kinds[Target] # None
  BY TargetFacts DEF Core, OperationInv
<1>2. \A p \in Owned : Progress(p)
  BY DEF QuietState
<1>3. AsApproved(Target)
  BY <1>1, <1>2 DEF Progress
<1>4. parent \in Dirs \cup {Root} /\ Root \notin Owned
  BY <1>1, Parents, PathSets
<1>5. CASE parent = Root
  BY <1>0, <1>1, <1>3, <1>4, <1>5 DEF Tree
<1>6. CASE parent \in Dirs
  <2>1. parent \in Owned
    BY <1>6, PathSets
  <2>2. parent \notin todo
    <3> SUFFICES ASSUME parent \in todo PROVE FALSE
      OBVIOUS
    <3>1. manifest.kinds[parent] = "create-directory"
      BY <1>0, <1>6, <2>1, PlannedKinds DEF Core, OperationInv
    <3>2. SortKey(manifest.kinds, Target) <= SortKey(manifest.kinds, parent)
      BY <1>0, TargetIsFirst DEF TypeOK
    <3>3. /\ PathPlace[parent] \in Nat /\ PathPlace[Target] \in Nat
          /\ PathPlace[parent] < PathPlace[Target]
      BY <1>1, <1>6, <2>1, Places
    <3>4. SortKey(manifest.kinds, parent) = PathPlace[parent]
      BY <3>1, <3>3 DEF SortKey, operation_rank
    <3>5. SortKey(manifest.kinds, Target) >= PathPlace[Target]
      <4>1. operation_rank(Kind) \in {0, 1, 2}
        BY DEF operation_rank
      <4> QED
        BY <3>3, <4>1 DEF SortKey, Kind
    <3>6. SortKey(manifest.kinds, Target) \in Nat
      <4>1. operation_rank(Kind) \in {0, 1, 2}
        BY DEF operation_rank
      <4> QED
        BY <3>3, <4>1 DEF SortKey, Kind
    <3> QED
      BY <3>2, <3>3, <3>4, <3>5, <3>6
  <2>3. SamePrestate(disk[parent], manifest.candidate[parent])
    <3>1. ~WidenedAt(parent)
      BY DEF Core, JournalInv, WidenedAt
    <3> QED
      BY <1>2, <2>1, <2>2, <3>1 DEF Progress, Unwidened
  <2>4. disk[parent].kind = manifest.candidate[parent].kind
    BY <1>0, <2>1, <2>3, PathSets, SameMeans DEF TypeOK
  <2>5. manifest.mode \in {"minimal", "full"} /\ Wiki(manifest.candidate, manifest.mode)
    BY <1>0, CandidateIsWiki DEF PlanInv, Planned, TypeOK
  <2>6. manifest.candidate[parent].kind = "dir"
    <3>1. CASE parent \in {AgentsDir, Memory}
      BY <2>5, <3>1 DEF Wiki
    <3>2. CASE parent = Pages
      <4>1. Target \in {Project, Extra}
        BY <1>1, <3>2, Places
      <4>2. Target = Project /\ Target \notin Dirs /\ Project # Flat
        BY <1>0, <1>1, <4>1, PlannedKinds, PathSets DEF Dirs, Project, Flat, AgentsDir, Memory, Pages
      <4>3. manifest.candidate[Project].kind = "file"
        BY <1>0, <1>1, <4>2, PlannedKinds
      <4>4. manifest.mode = "full"
        BY <2>5, <4>3 DEF Wiki
      <4> QED
        BY <2>5, <3>2, <4>4 DEF Wiki
    <3> QED
      BY <1>6, <3>1, <3>2 DEF Dirs
  <2> QED
    BY <1>1, <1>3, <2>2, <2>3, <2>4, <2>6
<1> QED
  BY <1>4, <1>5, <1>6

(* An entry that is no mode leaves the widened directories what they are.  *)
LEMMA WidenedKept ==
    ASSUME journal \in Seq(EntryType), NEW j,
           \/ j = journal
           \/ \E e : j = Append(journal, e) /\ e.kind # "mode"
           \/ /\ journal # <<>> /\ Last(journal).kind # "mode"
              /\ j = LastState("temporary") \/ j = LastState("installed")
    PROVE  \A p : (\E i \in DOMAIN j : Live(j[i]) /\ j[i].path = p) <=> WidenedAt(p)
<1>1. \A p : WidenedAt(p) <=> \E i \in DOMAIN journal : Live(journal[i]) /\ journal[i].path = p
  BY DEF WidenedAt, Active, Live
<1>2. CASE j = journal
  BY <1>1, <1>2
<1>3. ASSUME NEW e, j = Append(journal, e), e.kind # "mode"
      PROVE  \A p : (\E i \in DOMAIN j : Live(j[i]) /\ j[i].path = p) <=> WidenedAt(p)
  <2>1. /\ \A i \in DOMAIN j : j[i] = e \/ (i \in DOMAIN journal /\ j[i] = journal[i])
        /\ \A i \in DOMAIN journal : i \in DOMAIN j /\ j[i] = journal[i]
    BY <1>3, Appended
  <2>2. ~Live(e)
    BY <1>3 DEF Live
  <2> QED
    BY ONLY <1>1, <2>1, <2>2
<1>4. ASSUME NEW s \in {"temporary", "installed"}, j = LastState(s), journal # <<>>,
             Last(journal).kind # "mode"
      PROVE  \A p : (\E i \in DOMAIN j : Live(j[i]) /\ j[i].path = p) <=> WidenedAt(p)
  <2>1. /\ DOMAIN j = DOMAIN journal /\ Last(j).kind = Last(journal).kind
        /\ \A i \in DOMAIN journal :
             \/ j[i] = journal[i]
             \/ j[i] = Last(j) /\ journal[i] = Last(journal)
    BY <1>4, Restated
  <2>2. ~Live(Last(j)) /\ ~Live(Last(journal))
    BY <1>4, <2>1 DEF Live
  <2> QED
    BY ONLY <1>1, <2>1, <2>2
<1> QED
  BY <1>2, <1>3, <1>4

(* As long as nothing is reported, what was there to lock is what counts.  *)
LEMMA LockGoesOn ==
    ASSUME QuietState, approved' = approved, report'.class = None,
           pc \in {"check"} \cup ApplyPhases \/ pc' \notin {"check"} \cup ApplyPhases
    PROVE  LockState'
<1>1. LockToTake' <=> LockToTake
  BY DEF LockToTake
<1>2. None # "operational"
  BY DEF None
<1>3. (report'.class \in {None, IF LockToTake THEN "success" ELSE "operational"})
  OBVIOUS
<1> QED
  BY <1>1, <1>2, <1>3 DEF QuietState, LockState

(* Within an operation of a quiet run only its target changes.             *)
LEMMA QuietDuring ==
    ASSUME TypeOK, manifest.mode # None, QuietState, OperationFrame, pc \in OpPhases, pc' \in OpPhases,
           report' = report,
           \A p \in Owned \ {Target} : disk'[p] = disk[p], disk'[Lock] = disk[Lock],
           \A p : (\E i \in DOMAIN journal' : Live(journal'[i]) /\ journal'[i].path = p) <=> WidenedAt(p),
           TargetState', \A p \in Owned : temps'[p] # None => pc' \in TempPhases /\ p = Target
    PROVE  QuietState'
<1>1. /\ todo' = todo /\ manifest' = manifest /\ approved' = approved /\ lockSeen' = lockSeen
      /\ Target' = Target
  BY Steady
<1>2. /\ OpPhases \cap {"done", "failed", "recovering", "next", "revalidating", "lock", "check"} = {}
      /\ OpPhases \cap StagePhases = {}
      /\ OpPhases \subseteq ApplyPhases
  BY DEF OpPhases, DirPhases, FilePhases, ReplacePhases, ApplyPhases, StagePhases
<1>3. \A p : WidenedAt(p)' <=> WidenedAt(p)
  BY DEF WidenedAt, Active, Live
<1>4. \A p \in Owned \ {Target} : Progress(p)' <=> Progress(p)
  BY <1>1, <1>3 DEF Progress, Unwidened, AsApproved
<1>5. \A p \in Owned \ {Target} : Progress(p)
  BY DEF QuietState
<1>6. (\A p \in Owned \ {Target} : Progress(p))'
  BY <1>1, <1>4, <1>5
<1>7. report.class = None /\ disk[Lock] = lockSeen
  BY <1>2 DEF QuietState
<1>8. disk'[Lock] = lockSeen' /\ report'.class = None
  BY <1>1, <1>7
<1>9. (\A p \in Owned : temps[p] # None => pc \in TempPhases /\ p = Target)'
  BY <1>1
<1>10. LockState'
  BY <1>1, <1>2, <1>8, LockGoesOn
<1> QED
  BY <1>2, <1>6, <1>8, <1>9, <1>10 DEF QuietState

(* The steps of an operation of a quiet run, up to restoring the mode.     *)
LEMMA QuietOperation ==
    ASSUME Core, manifest.mode # None, QuietState, faults = 0, faults' = 0,
           \/ MakeDirectory \/ IdentifyDirectory \/ InstallDirectory \/ OpenFile \/ FillFile
           \/ OpenTemporary \/ FillTemporary \/ InstallReplacement \/ RemoveFlat \/ Verify
    PROVE  QuietState'
<1>q. pc \in OpPhases
  BY Zenon DEF MakeDirectory, IdentifyDirectory, InstallDirectory, OpenFile, FillFile, OpenTemporary,
     FillTemporary, InstallReplacement, RemoveFlat, Verify, VerifyDirectory, VerifyFile,
     VerifyReplacement, VerifyRemoved, OpPhases, DirPhases, FilePhases, ReplacePhases
<1>0. TypeOK /\ OperationInv /\ TargetState
  BY <1>q DEF Core, QuietState
<1>p. /\ OpPhases = {"operation", "unlinked", "restoring", "dir-made", "dir-named", "dir-installed",
                     "file-opened", "file-filled", "temp-opened", "temp-filled", "replaced"}
      /\ DirPhases = {"dir-made", "dir-named", "dir-installed"}
      /\ ReplacePhases = {"temp-opened", "temp-filled", "replaced"}
      /\ TempPhases = {"dir-made", "dir-named", "temp-opened", "temp-filled"}
  BY DEF OpPhases, DirPhases, FilePhases, ReplacePhases, TempPhases
<1>x. /\ \A n, x : Slips(n, x) => x
      /\ \A n : Goes(n) => pc' = n /\ report' = report
      /\ ~Exists(disk, Target) => \A n : ~Slips(n, Exists(disk, Target))
  <2>1. faults' # faults + 1
    OBVIOUS
  <2>2. ~Exists(disk, Target) => \A n : ~Slips(n, Exists(disk, Target))
    BY <2>1, Zenon DEF Slips, Excused
  <2> QED
    BY <2>2, NoExcuse, Zenon DEF Goes
<1> DEFINE Small == /\ OperationFrame /\ report' = report /\ pc \in OpPhases /\ pc' \in OpPhases
                    /\ \E n \in Nodes : disk' = [disk EXCEPT ![Target] = n] \/ disk' = disk
                    /\ \/ journal' = journal
                       \/ \E e : journal' = Append(journal, e) /\ e.kind # "mode"
                       \/ /\ journal # <<>> /\ Last(journal).kind # "mode"
                          /\ journal' = LastState("temporary") \/ journal' = LastState("installed")
                    /\ \/ temps' = temps /\ (pc \in TempPhases => pc' \in TempPhases)
                       \/ \E t : temps' = [temps EXCEPT ![Target] = t] /\ (pc' \in TempPhases \/ t = None)
<1>1. ASSUME Small, TargetState' PROVE QuietState'
  <2>1. todo # {} /\ Target \in Owned
    BY <1>0, <1>1, TargetFacts DEF OperationInv
  <2>2. /\ disk \in [Paths -> Nodes] /\ temps \in [Owned -> Texts \cup {None, "dir"}]
        /\ journal \in Seq(EntryType) /\ Lock \in Paths /\ Lock # Target /\ Owned \subseteq Paths
    BY <1>0, <2>1, PathSets DEF TypeOK
  <2>3. (\A p \in Owned \ {Target} : disk'[p] = disk[p]) /\ disk'[Lock] = disk[Lock]
    BY <1>1, <2>1, <2>2
  <2>4. \A p : (\E i \in DOMAIN journal' : Live(journal'[i]) /\ journal'[i].path = p) <=> WidenedAt(p)
    BY <1>1, <2>2, WidenedKept
  <2>5. \A p \in Owned : temps[p] # None => pc \in TempPhases /\ p = Target
    <3>1. OpPhases \subseteq ApplyPhases
      BY DEF ApplyPhases
    <3> QED
      BY <1>1, <3>1 DEF QuietState
  <2>6. \A p \in Owned : temps'[p] # None => pc' \in TempPhases /\ p = Target
    BY <1>1, <2>1, <2>2, <2>5
  <2> QED
    BY <1>0, <1>1, <2>3, <2>4, <2>6, QuietDuring
<1>2. ASSUME OperationFrame, pc \in OpPhases
      PROVE  /\ Target' = Target /\ Wanted' = Wanted /\ approved' = approved
             /\ todo # {} /\ Target \in Owned /\ disk \in [Paths -> Nodes] /\ Target \in Paths
             /\ Wanted \in Nodes /\ disk[Target] \in Nodes
             /\ SamePrestate(Wanted, Wanted)
             /\ Kind = "remove-file" => Wanted = Missing
             /\ Kind \in {"create-directory", "create-file"} => approved.nodes[Target].kind = "missing"
             /\ approved.nodes[Target] \in Nodes
  <2>1. todo # {} /\ Target \in Owned
    BY <1>0, <1>2, TargetFacts DEF OperationInv
  <2> QED
    BY <1>0, <1>2, <2>1, Steady, TargetFacts, PathSets DEF TypeOK, SamePrestate
<1>3. ASSUME AsApproved(Target), OperationFrame, pc \in OpPhases,
             Kind \in {"create-directory", "create-file"}
      PROVE  ~Exists(disk, Target)
  <2>1. disk[Target].kind = approved.nodes[Target].kind
    BY <1>2, <1>3, SameMeans DEF AsApproved
  <2> QED
    BY <1>2, <1>3, <2>1 DEF Exists
<1>4. \A k, s, o : Entry(k, s, o).kind = k /\ Entry(k, s, o).original = o
  BY DEF Entry
<1>5. File(NoText, "apply") \in Nodes /\ File(NoText, "apply").by = "apply" /\ Missing \in Nodes
  BY NodeFacts, Made DEF Texts, Makers
<1>6. ASSUME pc \in {"dir-made", "dir-named", "temp-opened", "temp-filled"}
      PROVE  journal # <<>> /\ Last(journal).kind # "mode"
  BY <1>0, <1>6, <1>p DEF OperationInv, LastIs
<1> HIDE DEF Small
<1>7. CASE MakeDirectory
  <2>1. /\ pc = "operation" /\ OperationFrame /\ disk' = disk /\ pc' = "dir-made" /\ report' = report
        /\ temps' = [temps EXCEPT ![Target] = "dir"]
        /\ journal' = Append(journal, Entry("dir", "unknown", Missing))
    BY <1>0, <1>7, <1>x, MakeDirectoryShape
  <2>2. Small
    BY <1>2, <1>4, <1>p, <2>1, ZenonT(30) DEF Small
  <2>3. TargetState'
    BY <1>0, <1>2, <1>p, <2>1 DEF TargetState, AsApproved
  <2> QED
    BY <1>1, <2>2, <2>3
<1>8. CASE IdentifyDirectory
  <2>1. /\ pc = "dir-made" /\ OperationFrame /\ disk' = disk /\ pc' = "dir-named" /\ report' = report
        /\ temps' = temps /\ journal' = LastState("temporary")
    BY <1>0, <1>8, <1>x, IdentifyDirectoryShape
  <2>2. Small
    BY <1>2, <1>6, <1>p, <2>1 DEF Small
  <2>3. TargetState'
    BY <1>0, <1>2, <1>p, <2>1 DEF TargetState, AsApproved
  <2> QED
    BY <1>1, <2>2, <2>3
<1>9. CASE InstallDirectory
  <2>1. pc = "dir-named" /\ OperationFrame /\ ~Exists(disk, Target)
    <3>1. pc = "dir-named" /\ OperationFrame
      BY <1>0, <1>9, InstallDirectoryShape
    <3>2. Kind = "create-directory" /\ AsApproved(Target)
      BY <1>0, <1>p, <3>1 DEF OperationInv, TargetState
    <3> QED
      BY <1>3, <1>p, <3>1, <3>2
  <2>2. /\ pc' = "dir-installed" /\ report' = report /\ disk' = [disk EXCEPT ![Target] = Wanted]
        /\ temps' = [temps EXCEPT ![Target] = None] /\ journal' = LastState("installed")
    BY <1>0, <1>9, <1>x, <2>1, InstallDirectoryShape, Zenon
  <2>3. Small
    BY <1>2, <1>6, <1>p, <2>1, <2>2 DEF Small
  <2>4. TargetState'
    BY <1>0, <1>2, <1>p, <2>1, <2>2 DEF TargetState
  <2> QED
    BY <1>1, <2>3, <2>4
<1>10. CASE OpenFile
  <2>1. pc = "operation" /\ OperationFrame /\ ~Exists(disk, Target)
    <3>1. pc = "operation" /\ OperationFrame /\ Kind = "create-file"
      BY <1>0, <1>10, OpenFileShape
    <3> QED
      BY <1>0, <1>3, <1>p, <3>1 DEF TargetState
  <2>2. /\ pc' = "file-opened" /\ report' = report
        /\ disk' = [disk EXCEPT ![Target] = File(NoText, "apply")]
        /\ temps' = temps /\ journal' = Append(journal, Entry("file", "identified", Missing))
    BY <1>0, <1>10, <1>x, <2>1, OpenFileShape, Zenon
  <2>3. Small
    <3>1. \E e : journal' = Append(journal, e) /\ e.kind # "mode"
      BY <1>4, <2>2
    <3>2. \E n \in Nodes : disk' = [disk EXCEPT ![Target] = n] \/ disk' = disk
      BY <1>5, <2>2
    <3> QED
      BY <1>p, <2>1, <2>2, <3>1, <3>2 DEF Small
  <2>4. TargetState'
    BY <1>0, <1>2, <1>5, <1>p, <2>1, <2>2 DEF TargetState, Ours
  <2> QED
    BY <1>1, <2>3, <2>4
<1>11. CASE FillFile
  <2>1. pc = "file-opened" /\ OperationFrame /\ Ours(Target)
    BY <1>0, <1>11, FillFileShape DEF TargetState
  <2>2. /\ pc' = "file-filled" /\ report' = report /\ disk' = [disk EXCEPT ![Target] = Wanted]
        /\ temps' = temps /\ journal' = journal
    BY <1>0, <1>11, <1>x, <2>1, FillFileShape, Zenon
  <2>3. Small
    BY <1>2, <1>p, <2>1, <2>2 DEF Small
  <2>4. TargetState'
    BY <1>0, <1>2, <1>p, <2>1, <2>2 DEF TargetState
  <2> QED
    BY <1>1, <2>3, <2>4
<1>12. CASE OpenTemporary
  <2>1. /\ pc = "operation" /\ OperationFrame /\ disk' = disk /\ pc' = "temp-opened" /\ report' = report
        /\ temps' = [temps EXCEPT ![Target] = NoText]
        /\ journal' = Append(journal, Entry("replaced", "identified", disk[Target]))
    BY <1>0, <1>12, <1>x, OpenTemporaryShape
  <2>2. Small
    <3>1. \E e : journal' = Append(journal, e) /\ e.kind # "mode"
      BY <1>4, <2>1
    <3>2. \E n \in Nodes : disk' = [disk EXCEPT ![Target] = n] \/ disk' = disk
      BY <1>5, <2>1
    <3> QED
      BY <1>p, <2>1, <3>1, <3>2 DEF Small
  <2>3. TargetState'
    <3>1. Last(journal') = Entry("replaced", "identified", disk[Target])
      BY <1>0, <2>1, Appended DEF TypeOK
    <3>2. (Last(journal).original)' = disk[Target]
      BY <1>4, <3>1
    <3> QED
      BY <1>0, <1>2, <1>p, <2>1, <3>2 DEF TargetState, AsApproved
  <2> QED
    BY <1>1, <2>2, <2>3
<1>13. CASE FillTemporary
  <2>1. /\ pc = "temp-opened" /\ OperationFrame /\ disk' = disk /\ pc' = "temp-filled" /\ report' = report
        /\ temps' = [temps EXCEPT ![Target] = Wanted.text] /\ journal' = journal
    BY <1>0, <1>13, <1>x, FillTemporaryShape
  <2>2. Small
    BY <1>2, <1>p, <2>1 DEF Small
  <2>3. TargetState'
    BY <1>0, <1>2, <1>p, <2>1 DEF TargetState, AsApproved
  <2> QED
    BY <1>1, <2>2, <2>3
<1>14. CASE InstallReplacement
  <2>1. /\ pc = "temp-filled" /\ OperationFrame
        /\ disk[Target] = Last(journal).original /\ AsApproved(Target)
    BY <1>0, <1>14, InstallReplacementShape DEF TargetState
  <2>2. /\ pc' = "replaced" /\ report' = report /\ disk' = [disk EXCEPT ![Target] = Wanted]
        /\ temps' = [temps EXCEPT ![Target] = None] /\ journal' = LastState("installed")
    BY <1>0, <1>14, <1>x, <2>1, InstallReplacementShape, Zenon
  <2>3. Small
    BY <1>2, <1>6, <1>p, <2>1, <2>2 DEF Small
  <2>4. TargetState'
    BY <1>0, <1>2, <1>p, <2>1, <2>2 DEF TargetState
  <2> QED
    BY <1>1, <2>3, <2>4
<1>15. CASE RemoveFlat
  <2>1. pc = "operation" /\ OperationFrame /\ AsApproved(Target) /\ Kind = "remove-file"
    BY <1>0, <1>15, RemoveFlatShape DEF TargetState
  <2>2. /\ pc' = "unlinked" /\ report' = report /\ disk' = [disk EXCEPT ![Target] = Missing]
        /\ temps' = temps /\ journal' = Append(journal, Entry("removed", "removed", disk[Target]))
    BY <1>0, <1>15, <1>x, <2>1, RemoveFlatShape, Zenon
  <2>3. Small
    <3>1. \E e : journal' = Append(journal, e) /\ e.kind # "mode"
      BY <1>4, <2>2
    <3>2. \E n \in Nodes : disk' = [disk EXCEPT ![Target] = n] \/ disk' = disk
      BY <1>5, <2>2
    <3> QED
      BY <1>p, <2>1, <2>2, <3>1, <3>2 DEF Small
  <2>4. TargetState'
    BY <1>0, <1>2, <1>p, <2>1, <2>2 DEF TargetState
  <2> QED
    BY <1>1, <2>3, <2>4
<1>16. CASE Verify
  <2> DEFINE node == IF pc = "unlinked" THEN Missing ELSE Wanted
  <2>1. /\ pc \in {"dir-installed", "file-filled", "replaced", "unlinked"} /\ OperationFrame
        /\ disk' = disk /\ temps' = temps /\ journal' = journal
        /\ Goes("restoring") \/ Slips("restoring", disk[Target] # node)
    BY <1>0, <1>16, VerifyShape, Zenon
  <2>2. disk[Target] = Wanted
    BY <1>0, <2>1 DEF TargetState
  <2>3. node = Wanted
    <3>1. pc = "unlinked" => Kind = "remove-file"
      BY <1>0 DEF OperationInv
    <3> QED
      BY <1>2, <1>p, <2>1, <3>1
  <2> HIDE DEF node
  <2>4. pc' = "restoring" /\ report' = report
    BY <1>x, <2>1, <2>2, <2>3, Zenon
  <2>5. Small
    BY <1>2, <1>p, <2>1, <2>4 DEF Small
  <2>6. TargetState'
    BY <1>0, <1>2, <1>p, <2>1, <2>2, <2>4 DEF TargetState
  <2> QED
    BY <1>1, <2>5, <2>6
<1> QED
  BY <1>7, <1>8, <1>9, <1>10, <1>11, <1>12, <1>13, <1>14, <1>15, <1>16

(* An operation of a quiet run begins: its path is as approved and the     *)
(* directory it works in is there.                                         *)
LEMMA QuietBegin ==
    ASSUME Core, manifest.mode # None, QuietState, faults = 0, faults' = 0, BeginOperation
    PROVE  QuietState'
<1> PICK parent : parent = Parent[Target]
  OBVIOUS
<1>0. TypeOK /\ JournalInv
  BY DEF Core
<1>1. pc = "next" /\ todo # {} /\ OperationFrame /\ temps' = temps
  BY <1>0, BeginOperationShape
<1>2. /\ disk[parent].kind = "dir" /\ AsApproved(Target) /\ Target \in Owned
      /\ parent \in Owned => parent \notin todo /\ SamePrestate(disk[parent], manifest.candidate[parent])
  BY <1>1, ParentIsThere
<1>3. parent \in Paths /\ parent # Target /\ parent # Lock
  BY <1>2, Parents, PathSets
<1>4. /\ pc' = "operation" /\ report' = report
      /\ \/ disk' = disk /\ journal' = journal
         \/ /\ ~disk[parent].rw /\ disk' = Opened(disk, parent)
            /\ journal' = Append(journal, Widened(parent))
  <2>1. /\ \A n, x : Slips(n, x) => x
        /\ \A n : Goes(n) => pc' = n /\ report' = report
    BY NoExcuse, Zenon DEF Goes
  <2>2. \/ /\ Goes("operation")
           /\ \/ disk' = disk /\ journal' = journal
              \/ /\ ~disk[parent].rw /\ disk' = [disk EXCEPT ![parent].rw = TRUE]
                 /\ journal' = Append(journal, Widened(parent))
        \/ Slips("failed", ~(AsApproved(Target) /\ disk[parent].kind = "dir"))
    BY <1>0, BeginOperationShape, Zenon
  <2>3. ~Slips("failed", ~(AsApproved(Target) /\ disk[parent].kind = "dir"))
    BY <1>2, <2>1, Zenon
  <2> QED
    BY <2>1, <2>2, <2>3, Zenon DEF Opened
<1>5. /\ todo' = todo /\ manifest' = manifest /\ approved' = approved /\ lockSeen' = lockSeen
      /\ Target' = Target
  BY <1>1, Steady
<1>6. \A p : ~WidenedAt(p)
  BY <1>0, <1>1 DEF JournalInv, WidenedAt
<1>7. disk \in [Paths -> Nodes] /\ journal \in Seq(EntryType) /\ Lock \in Paths /\ Owned \subseteq Paths
  BY <1>0, PathSets DEF TypeOK
<1>8. /\ \A p \in Owned \ {parent} : Progress(p)' <=> Progress(p)
      /\ disk'[Lock] = disk[Lock] /\ AsApproved(Target)'
      /\ parent \in Owned => Progress(parent)'
  <2>1. CASE disk' = disk /\ journal' = journal
    <3>1. \A p : WidenedAt(p)' <=> WidenedAt(p)
      BY <2>1 DEF WidenedAt, Active
    <3>2. \A p : Progress(p)' <=> Progress(p)
      BY <1>5, <2>1, <3>1 DEF Progress, Unwidened, AsApproved
    <3>3. parent \in Owned => Progress(parent)
      BY <1>2, <1>6 DEF Progress, Unwidened
    <3> QED
      BY <1>2, <1>5, <2>1, <3>2, <3>3 DEF AsApproved
  <2>2. CASE /\ ~disk[parent].rw /\ disk' = Opened(disk, parent)
             /\ journal' = Append(journal, Widened(parent))
    <3>1. /\ disk' \in [Paths -> Nodes] /\ \A q \in Paths : q # parent => disk'[q] = disk[q]
          /\ \A q \in Paths : disk'[q].kind = disk[q].kind /\ disk'[q].text = disk[q].text
                              /\ disk'[q].by = disk[q].by
      <4> DEFINE d == Opened(disk, parent)
      <4>1. /\ d \in [Paths -> Nodes] /\ \A q \in Paths : q # parent => d[q] = disk[q]
            /\ \A q \in Paths : d[q].kind = disk[q].kind /\ d[q].text = disk[q].text
                                /\ d[q].by = disk[q].by
        BY ONLY <1>3, <1>7, Widening, ZenonT(30)
      <4> HIDE DEF d
      <4>2. disk' = d
        BY <2>2 DEF d
      <4> QED
        BY <4>1, <4>2
    <3>2. Live(Widened(parent)) /\ Widened(parent).path = parent
      BY DEF Live, Widened
    <3>3. /\ \A i \in DOMAIN journal' : journal'[i] = Widened(parent)
                                        \/ (i \in DOMAIN journal /\ journal'[i] = journal[i])
          /\ \E i \in DOMAIN journal' : journal'[i] = Widened(parent)
      BY <1>7, <2>2, Appended
    <3>4. \A p : WidenedAt(p)' <=> \E i \in DOMAIN journal' : Live(journal'[i]) /\ journal'[i].path = p
      BY DEF WidenedAt, Active, Live
    <3>5. \A p : ~\E i \in DOMAIN journal : Live(journal[i]) /\ journal[i].path = p
      BY <1>6 DEF WidenedAt, Active, Live
    <3>6. \A p : WidenedAt(p)' <=> p = parent
      BY ONLY <3>2, <3>3, <3>4, <3>5
    <3>7. \A p \in Owned \ {parent} : Progress(p)' <=> Progress(p)
      BY <1>5, <1>6, <1>7, <3>1, <3>6 DEF Progress, Unwidened, AsApproved
    <3>8. Unwidened(parent)' = disk[parent]
      <4>1. Unwidened(parent)' = [disk'[parent] EXCEPT !.rw = FALSE]
        BY <3>6 DEF Unwidened
      <4>2. \A m, x : m = [disk'[parent] EXCEPT !.rw = x] =>
               m.kind = disk'[parent].kind /\ m.text = disk'[parent].text /\ m.by = disk'[parent].by
               /\ m.rw = x
        BY <1>3, <3>1, ModeOf
      <4>3. /\ Unwidened(parent)'.kind = disk[parent].kind /\ Unwidened(parent)'.text = disk[parent].text
            /\ Unwidened(parent)'.by = disk[parent].by /\ Unwidened(parent)'.rw = FALSE
        <5>1. /\ Unwidened(parent)'.kind = disk'[parent].kind
              /\ Unwidened(parent)'.text = disk'[parent].text
              /\ Unwidened(parent)'.by = disk'[parent].by /\ Unwidened(parent)'.rw = FALSE
          BY ONLY <4>1, <4>2, Zenon
        <5> QED
          BY <1>3, <3>1, <5>1
      <4>4. disk[parent].rw = FALSE
        BY <1>3, <1>7, <2>2, NodeShape
      <4>5. Unwidened(parent)' \in Nodes
        <5>1. disk'[parent] \in Nodes /\ disk'[parent].kind = "dir"
          BY <1>2, <1>3, <3>1
        <5>2. \A n \in Nodes : n.kind = "dir" => [n EXCEPT !.rw = FALSE] \in Nodes
          BY NodeSteps
        <5> QED
          BY <4>1, <5>1, <5>2
      <4>6. /\ Unwidened(parent)' = [kind |-> Unwidened(parent)'.kind, text |-> Unwidened(parent)'.text,
                                     rw |-> Unwidened(parent)'.rw, by |-> Unwidened(parent)'.by]
            /\ disk[parent] = [kind |-> disk[parent].kind, text |-> disk[parent].text,
                               rw |-> disk[parent].rw, by |-> disk[parent].by]
        BY <1>3, <1>7, <4>5, NodeShape
      <4> QED
        BY <4>3, <4>4, <4>6, Zenon
    <3>9. parent \in Owned => Progress(parent)'
      BY <1>2, <1>5, <3>8 DEF Progress
    <3>10. disk'[Lock] = disk[Lock] /\ disk'[Target] = disk[Target]
      BY <1>2, <1>3, <1>7, <3>1
    <3> QED
      BY <1>2, <1>5, <3>7, <3>9, <3>10 DEF AsApproved
  <2> QED
    BY <1>4, <2>1, <2>2
<1>9. report.class = None /\ disk[Lock] = lockSeen /\ (\A p \in Owned : Progress(p))
      /\ \A p \in Owned : temps[p] = None
  <2>1. "next" \in ApplyPhases /\ "next" \notin TempPhases
    BY DEF ApplyPhases, TempPhases
  <2> QED
    BY <1>1, <2>1 DEF QuietState
<1>10. (\A p \in Owned \ {Target} : Progress(p))'
  BY <1>5, <1>8, <1>9
<1>11. TargetState'
  BY <1>4, <1>5, <1>8 DEF TargetState
<1>12. disk'[Lock] = lockSeen' /\ report'.class = None /\ \A p \in Owned : temps'[p] = None
  BY <1>1, <1>4, <1>5, <1>8, <1>9
<1>13. LockState'
  BY <1>1, <1>4, <1>5, <1>12, LockGoesOn DEF ApplyPhases
<1> QED
  BY <1>4, <1>10, <1>11, <1>12, <1>13 DEF QuietState, StagePhases

(* The mode of the directory is restored, and so is the directory.         *)
LEMMA QuietRestore ==
    ASSUME Core, manifest.mode # None, QuietState, faults = 0, faults' = 0, RestoreParentMode
    PROVE  QuietState'
<1>0. TypeOK /\ JournalInv /\ OperationInv
  BY DEF Core
<1>1. /\ pc = "restoring" /\ OperationFrame /\ temps' = temps
      /\ pc' = "ended" /\ report' = report
      /\ \/ ActiveModes = {} /\ disk' = disk /\ journal' = journal
         \/ disk' = Narrowed /\ journal' = Settled
  <2>1. /\ \A n, x : Slips(n, x) => x
        /\ \A n : Goes(n) => pc' = n /\ report' = report
    BY NoExcuse, Zenon DEF Goes
  <2>2. pc = "restoring"
    BY <1>0, RestoreParentModeShape
  <2>3. report.class = None
    BY <2>2 DEF QuietState
  <2> DEFINE after == IF report.class = None THEN "ended" ELSE "failed"
  <2>4. after = "ended"
    BY <2>3
  <2>5. /\ OperationFrame /\ temps' = temps
        /\ \/ ActiveModes = {} /\ Goes(after) /\ disk' = disk /\ journal' = journal
           \/ ActiveModes # {} /\ Goes(after) /\ disk' = Narrowed /\ journal' = Settled
           \/ Slips("failed", FALSE)
    BY <1>0, RestoreParentModeShape
  <2> HIDE DEF after
  <2>6. ~Slips("failed", FALSE)
    BY <2>1, Zenon
  <2> QED
    BY <2>1, <2>2, <2>4, <2>5, <2>6
<1>2. /\ disk \in [Paths -> Nodes] /\ journal \in Seq(EntryType) /\ Lock \in Paths /\ Owned \subseteq Paths
  BY <1>0, PathSets DEF TypeOK
<1>p. /\ "restoring" \in OpPhases /\ "restoring" \in ApplyPhases /\ "restoring" \notin TempPhases
      /\ "ended" \notin StagePhases \cup OpPhases
  BY DEF OpPhases, ApplyPhases, TempPhases, StagePhases, DirPhases, FilePhases, ReplacePhases
<1>3. todo # {} /\ Target \in Owned
  BY <1>0, <1>1, <1>p, TargetFacts DEF OperationInv, Core, PlanInv
<1>4. \A i \in DOMAIN journal : Active(i) => journal[i].path = Parent[Target]
  BY <1>0, <1>1, <1>p DEF JournalInv
<1>5. Parent[Target] # Target /\ Parent[Target] # Lock
  BY <1>3, Parents, PathSets
<1>6. DOMAIN journal = 1..Len(journal)
  BY <1>2
<1>7. \A p : WidenedAt(p) <=> \E i \in ActiveModes : journal[i].path = p
  BY <1>6 DEF WidenedAt, Active, ActiveModes
<1>8. ~WidenedAt(Target) /\ ~WidenedAt(Lock)
  BY <1>4, <1>5 DEF WidenedAt
<1>9. (\A p : ~WidenedAt(p)') /\ \A p \in Paths : disk'[p] = Unwidened(p)
  <2>1. CASE ActiveModes = {} /\ disk' = disk /\ journal' = journal
    <3>1. \A p : ~WidenedAt(p)
      BY <1>7, <2>1
    <3>2. \A p : WidenedAt(p)' <=> WidenedAt(p)
      BY <2>1 DEF WidenedAt, Active
    <3> QED
      BY <2>1, <3>1, <3>2 DEF Unwidened
  <2>2. CASE disk' = Narrowed /\ journal' = Settled
    <3>1. \A i \in DOMAIN journal' : ~Live(journal'[i])
      <4>1. /\ DOMAIN Settled = DOMAIN journal
            /\ \A i \in DOMAIN journal :
                 /\ Settled[i].kind = journal[i].kind
                 /\ \/ ~Active(i) /\ Settled[i] = journal[i]
                    \/ Active(i) /\ Settled[i].state = "settled"
        BY <1>2, SettledFacts
      <4> QED
        BY <2>2, <4>1 DEF Live, Active
    <3>2. \A p : ~WidenedAt(p)'
      BY <3>1 DEF WidenedAt, Active, Live
    <3>3. \A p \in Paths : Narrowed[p] = Unwidened(p)
      BY <1>7 DEF Narrowed, Unwidened
    <3> QED
      BY <2>2, <3>2, <3>3
  <2> QED
    BY <1>1, <2>1, <2>2
<1>10. /\ todo' = todo /\ manifest' = manifest /\ approved' = approved /\ lockSeen' = lockSeen
       /\ Target' = Target /\ Wanted' = Wanted
  BY <1>1, Steady
<1>11. \A p \in Owned : Unwidened(p)' = Unwidened(p)
  BY <1>2, <1>9 DEF Unwidened
<1>12. report.class = None /\ disk[Lock] = lockSeen /\ (\A p \in Owned \ {Target} : Progress(p))
       /\ TargetState /\ \A p \in Owned : temps[p] = None
  BY <1>1, <1>p DEF QuietState
<1>13. \A p \in Owned \ {Target} : Progress(p)'
  <2> SUFFICES ASSUME NEW p \in Owned \ {Target} PROVE Progress(p)'
    OBVIOUS
  <2>1. CASE p \in todo
    <3>1. ~WidenedAt(p)
      <4> SUFFICES ASSUME NEW i \in DOMAIN journal, Active(i), journal[i].path = p PROVE FALSE
        BY DEF WidenedAt
      <4>1. EntryOK(journal[i])
        BY <1>0 DEF JournalInv
      <4>2. p \in Dirs /\ approved.nodes[p].kind = "dir"
        BY <4>1, PathSets DEF EntryOK, Active
      <4>3. manifest.kinds[p] # None
        BY <1>0, <2>1 DEF OperationInv
      <4> QED
        BY <1>0, <4>2, <4>3, PlannedKinds DEF Core
    <3>2. disk'[p] = disk[p]
      BY <1>2, <1>9, <3>1 DEF Unwidened
    <3> QED
      BY <1>10, <1>12, <2>1, <3>2 DEF Progress, AsApproved
  <2>2. CASE p \notin todo
    BY <1>10, <1>11, <1>12, <2>2 DEF Progress
  <2> QED
    BY <2>1, <2>2
<1>14. disk'[Target] = disk[Target] /\ disk'[Lock] = disk[Lock]
  BY <1>2, <1>3, <1>8, <1>9 DEF Unwidened
<1>15. TargetState'
  BY <1>1, <1>10, <1>12, <1>14 DEF TargetState
<1>16. (\A p \in Owned \ {Target} : Progress(p))'
  BY <1>10, <1>13
<1>17. disk'[Lock] = lockSeen' /\ report'.class = None /\ \A p \in Owned : temps'[p] = None
  BY <1>1, <1>10, <1>12, <1>14
<1>18. LockState'
  BY <1>1, <1>10, <1>p, <1>17, LockGoesOn
<1> QED
  BY <1>1, <1>p, <1>15, <1>16, <1>17, <1>18 DEF QuietState

(* An operation of a quiet run ends, with the lock on a new directory.     *)
LEMMA QuietEnd ==
    ASSUME Core, manifest.mode # None, QuietState, faults = 0, faults' = 0, EndOperation
    PROVE  QuietState'
<1>0. TypeOK /\ JournalInv /\ OperationInv
  BY DEF Core
<1>1. /\ pc = "ended" /\ todo' = todo \ {Target}
      /\ temps' = temps /\ approved' = approved /\ manifest' = manifest /\ journal' = journal
      /\ pc' = "next" /\ report' = report
      /\ \/ disk' = disk /\ lockSeen' = lockSeen
         \/ disk' = WithLockFile(disk) /\ lockSeen' = disk'[Lock]
  <2>1. /\ \A n, x : Slips(n, x) => x
        /\ \A n : Goes(n) => pc' = n /\ report' = report
    BY NoExcuse, Zenon DEF Goes
  <2>2. ~Slips("failed", FALSE)
    BY <2>1, Zenon
  <2> QED
    BY <1>0, <2>1, <2>2, EndOperationShape
<1>2. /\ disk \in [Paths -> Nodes] /\ journal \in Seq(EntryType) /\ Lock \in Paths /\ Owned \subseteq Paths
      /\ Lock \notin Owned
  BY <1>0, PathSets DEF TypeOK
<1>p. /\ "ended" \in ApplyPhases /\ "ended" \notin TempPhases
      /\ "next" \notin StagePhases \cup OpPhases
  BY DEF OpPhases, ApplyPhases, TempPhases, StagePhases, DirPhases, FilePhases, ReplacePhases
<1>3. todo # {} /\ Target \in Owned
  BY <1>0, <1>1, TargetFacts DEF OperationInv, Core
<1>4. \A p : ~WidenedAt(p) /\ ~WidenedAt(p)'
  BY <1>0, <1>1 DEF JournalInv, WidenedAt, Active
<1>5. report.class = None /\ disk[Lock] = lockSeen /\ (\A p \in Owned \ {Target} : Progress(p))
      /\ SamePrestate(disk[Target], manifest.candidate[Target]) /\ \A p \in Owned : temps[p] = None
  BY <1>1, <1>p DEF QuietState, TargetState, Wanted
<1>6. (\A p \in Owned : disk'[p] = disk[p]) /\ disk'[Lock] = lockSeen'
  BY <1>1, <1>2, <1>5 DEF WithLockFile
<1>7. ASSUME NEW p \in Owned PROVE Progress(p)'
  <2>1. CASE p = Target
    BY <1>1, <1>4, <1>5, <1>6, <2>1 DEF Progress, Unwidened
  <2>2. CASE p # Target
    <3>1. p \in todo' <=> p \in todo
      BY <1>1, <2>2
    <3>2. Progress(p)
      BY <1>5, <2>2
    <3> QED
      BY <1>1, <1>4, <1>6, <3>1, <3>2 DEF Progress, Unwidened, AsApproved
  <2> QED
    BY <2>1, <2>2
<1>8. (\A p \in Owned : Progress(p))'
  BY <1>7
<1>9. report'.class = None /\ \A p \in Owned : temps'[p] = None
  BY <1>1, <1>5
<1>10. LockState'
  BY <1>1, <1>p, <1>9, LockGoesOn
<1> QED
  BY <1>1, <1>p, <1>6, <1>8, <1>9, <1>10 DEF QuietState

(* Nothing is amiss when a quiet run has come to its end.                  *)
LEMMA QuietFinal ==
    ASSUME Core, Quiet, QuietState, pc \in {"next", "revalidating"}, todo = {}
    PROVE  FinalStateApproved
<1>0. TypeOK /\ PlanInv /\ JournalInv
  BY DEF Core
<1>1. /\ disk \in [Paths -> Nodes] /\ Owned \subseteq Paths /\ manifest.candidate \in [Owned -> Nodes]
      /\ manifest.mode \in {"minimal", "full"}
  BY <1>0, PathSets DEF TypeOK, Quiet
<1>2. \A p : ~WidenedAt(p)
  BY <1>0 DEF JournalInv, WidenedAt
<1>3. \A p \in Owned : SamePrestate(disk[p], manifest.candidate[p])
  BY <1>2 DEF QuietState, Progress, Unwidened
<1>4. \A p \in Owned : disk[p].kind = manifest.candidate[p].kind
  BY <1>1, <1>3, SameMeans
<1>5. Wiki(manifest.candidate, manifest.mode)
  BY <1>0, <1>1, CandidateIsWiki DEF PlanInv, Planned, Quiet
<1>6. disk[Lock] = lockSeen /\ \A p \in Owned : temps[p] = None
  <2>1. {"next", "revalidating"} \subseteq ApplyPhases \ TempPhases
    BY DEF ApplyPhases, TempPhases
  <2> QED
    BY <2>1 DEF QuietState
<1>7. Residues = {}
  BY <1>6 DEF Residues, Quiet
<1>8. manifest.mode = "minimal" => \A p \in Forbidden : ~Exists(disk, p)
  BY <1>4, <1>5, PathSets DEF Wiki, Forbidden, Exists
<1>9. manifest.mode = "full" => /\ ~Exists(disk, Flat)
                                /\ \A p \in PagePaths : Exists(disk, p) <=> Exists(manifest.candidate, p)
  BY <1>4, <1>5, PathSets DEF Wiki, PagePaths, Exists
<1> QED
  BY <1>3, <1>6, <1>7, <1>8, <1>9, Zenon DEF FinalStateApproved

(* At most one call fails in a step.                                       *)
LEMMA OneFault ==
    ASSUME TypeOK, Next
    PROVE  faults' \in {faults, faults + 1}
<1>2. ASSUME NoFault \/ Fault PROVE faults' \in {faults, faults + 1}
  BY <1>2 DEF NoFault, Fault
<1>3. Inspect \/ Plan \/ CreateCandidateDir \/ CloseCandidateDir \/ ApplyStart \/ AcquireExistingLock
      \/ CheckPrestates => NoFault \/ Fault
  BY Zenon DEF Inspect, Plan, CreateCandidateDir, CloseCandidateDir, ApplyStart, AcquireExistingLock,
     CheckPrestates
<1>4. BeginOperation \/ MakeDirectory \/ IdentifyDirectory \/ InstallDirectory \/ OpenFile \/ FillFile
      => NoFault \/ Fault
  BY Zenon DEF BeginOperation, MakeDirectory, IdentifyDirectory, InstallDirectory, OpenFile, FillFile
<1>5. OpenTemporary \/ FillTemporary \/ InstallReplacement \/ RemoveFlat \/ Verify => NoFault \/ Fault
  BY Zenon DEF OpenTemporary, FillTemporary, InstallReplacement, RemoveFlat, Verify, VerifyIs,
     VerifyDirectory, VerifyFile, VerifyReplacement, VerifyRemoved
<1>6. RestoreParentMode \/ EndOperation \/ Validate \/ Revalidate \/ HandleFailure \/ RecoverEntry
      \/ Classify => NoFault \/ Fault
  BY Zenon DEF RestoreParentMode, EndOperation, Validate, Revalidate, HandleFailure, RecoverEntry,
     Classify
<1>7. Crash \/ StartOver \/ (\E p \in EditPaths : Edit(p)) => faults' = faults
  BY Zenon DEF Crash, StartOver, Edit
<1> QED
  BY <1>2, <1>3, <1>4, <1>5, <1>6, <1>7
     DEF Next, Command, ApplyCommand, Operation, Verify

(* A run that is quiet was quiet from its plan on.                         *)
LEMMA WasQuiet ==
    ASSUME Core, Next, Quiet', ~Plan
    PROVE  /\ Quiet /\ faults = 0 /\ faults' = 0 /\ manifest.mode # None
           /\ ~Inspect /\ ~StartOver /\ \A p \in EditPaths : ~Edit(p)
<1>0. TypeOK /\ PlanInv /\ DiskInv
  BY DEF Core
<1>1. manifest'.mode # None /\ faults' = 0 /\ touched' = {} /\ stale' = {}
  BY DEF Quiet
<1>2. faults = 0
  <2>1. faults \in Nat /\ faults' \in {faults, faults + 1}
    BY <1>0, OneFault DEF TypeOK
  <2> QED
    BY <1>1, <2>1
<1>3. ~Inspect
  <2> SUFFICES ASSUME Inspect PROVE FALSE
    OBVIOUS
  <2>1. pc = "idle" /\ manifest' = manifest
    BY <1>0, InspectShape
  <2> QED
    BY <1>0, <1>1, <2>1 DEF PlanInv
<1>4. ~StartOver
  <2> SUFFICES ASSUME StartOver PROVE FALSE
    OBVIOUS
  <2>1. manifest' = NoManifest
    BY <1>0, StartOverShape
  <2> QED
    BY <1>1, <2>1 DEF NoManifest
<1>5. ASSUME NEW p \in EditPaths, Edit(p) PROVE FALSE
  <2>1. touched' = touched \cup {p}
    BY <1>0, <1>5, EditShape
  <2> QED
    BY <1>1, <2>1
<1>6. manifest' = manifest
  BY <1>3, <1>4, PlanFrame
<1>7. touched = {} /\ stale = {}
  <2>1. CASE CreateCandidateDir \/ CloseCandidateDir \/ ApplyStart \/ AcquireExistingLock
    BY <1>0, <1>1, <2>1, CandidateDirShape, ApplyStartShape, AcquireExistingLockShape
  <2>2. CASE CheckPrestates \/ Validate \/ Revalidate
    BY <1>0, <1>1, <2>2, CheckPrestatesShape, ValidateShape, RevalidateShape, Steady
  <2>3. CASE HandleFailure \/ RecoverEntry \/ Classify
    BY <1>0, <1>1, <2>3, HandleFailureShape, RecoverEntryShape, ClassifyShape
  <2>4. CASE Operation
    BY <1>0, <1>1, <2>4, OperationQuiet
  <2>5. CASE Crash
    BY <1>0, <1>1, <2>5, CrashShape
  <2> QED
    BY <1>3, <1>4, <1>5, <2>1, <2>2, <2>3, <2>4, <2>5 DEF Next, Command, ApplyCommand
<1> QED
  BY <1>1, <1>2, <1>3, <1>4, <1>5, <1>6, <1>7 DEF Quiet

(* Staging, locking and checking what is planned succeed.                  *)
LEMMA QuietEarly ==
    ASSUME Core, Quiet, QuietState, faults = 0, faults' = 0,
           \/ CreateCandidateDir \/ CloseCandidateDir \/ ApplyStart \/ AcquireExistingLock
           \/ CheckPrestates
    PROVE  QuietState'
<1>0. TypeOK /\ PlanInv /\ OperationInv /\ JournalInv /\ manifest.mode # None
  BY DEF Core, Quiet
<1>1. /\ \A n, x : Refuses(n, x) => x
      /\ ~Leaves
      /\ \A n : Goes(n) => pc' = n /\ report' = report
  BY NoExcuse, Zenon DEF Goes
<1>2. /\ disk \in [Paths -> Nodes] /\ Owned \subseteq Paths /\ Dirs \subseteq Owned /\ Lock \notin Owned
      /\ AgentsDir \in Dirs /\ Memory \in Dirs /\ approved.nodes \in [Paths -> SeenNodes]
  BY <1>0, PathSets DEF TypeOK, PlanInv, Planned
<1>p. /\ StagePhases = {"stage1", "staged1", "stage2", "staged2", "planned"}
      /\ "next" \in ApplyPhases
      /\ {"stage1", "staged1", "stage2", "staged2", "planned", "lock", "check"}
           \cap (ApplyPhases \cup OpPhases \cup {"done", "next", "ended", "revalidating"}) = {}
      /\ "next" \notin OpPhases /\ "done" \notin ApplyPhases \cup OpPhases
  BY DEF StagePhases, ApplyPhases, OpPhases, DirPhases, FilePhases, ReplacePhases
<1>3. pc # "done" => report.class = None
  BY DEF QuietState
<1>4. CASE CreateCandidateDir \/ CloseCandidateDir
  <2>1. /\ pc \in {"stage1", "staged1", "stage2", "staged2"}
        /\ UNCHANGED <<disk, head, stale, approved>>
        /\ report' = report /\ pc' \in {"staged1", "staged2", "stage2", "planned"}
    <3>1. ~Refuses(None, FALSE)
      BY <1>1, Zenon
    <3> QED
      BY <1>0, <1>1, <1>4, <3>1, CandidateDirShape
  <2>2. Snapshot = approved
    BY <1>p, <2>1 DEF QuietState
  <2>3. Snapshot' = approved'
    BY <2>1, <2>2 DEF Snapshot, directory_entries, git_status
  <2>4. report'.class = None /\ LockState'
    BY <1>3, <1>p, <2>1, LockGoesOn
  <2> QED
    BY <1>p, <2>1, <2>3, <2>4 DEF QuietState
<1>5. CASE ApplyStart
  <2>1. /\ pc = "planned" /\ UNCHANGED <<disk, approved>>
        /\ \/ Goes("lock")
           \/ Refuses(LayoutOf(disk, stale), Snapshot # approved \/ ~validate_manifest(manifest))
           \/ Refuses("partial", FALSE)
    BY <1>0, <1>5, ApplyStartShape, Zenon
  <2>2. Snapshot = approved /\ validate_manifest(manifest)
    BY <1>0, <1>p, <2>1, ManifestIsValid DEF QuietState
  <2>3. pc' = "lock" /\ report' = report
    BY <1>1, <2>1, <2>2, Zenon
  <2>4. ASSUME NEW p \in Paths PROVE AsApproved(p)'
    <3>1. approved.nodes[p] = Prestate(disk[p])
      BY <1>2, <2>2 DEF Snapshot
    <3>2. disk[p] \in Nodes
      BY <1>2
    <3>3. SamePrestate(disk[p], Prestate(disk[p]))
      BY <3>2, PrestateFacts DEF SamePrestate
    <3> QED
      BY <2>1, <3>1, <3>3 DEF AsApproved
  <2>5. (\A p \in Paths : AsApproved(p))'
    BY <2>4
  <2>6. report'.class = None /\ LockState'
    BY <1>3, <1>p, <2>1, <2>3, LockGoesOn
  <2> QED
    BY <1>p, <1>2, <2>3, <2>5, <2>6 DEF QuietState
<1>6. CASE AcquireExistingLock
  <2>1. /\ pc = "lock" /\ approved' = approved
        /\ \/ ~Exists(disk, Memory) /\ Goes("check") /\ disk' = disk
           \/ Refuses("partial", Unlockable) /\ disk' = disk /\ report'.class = "operational"
           \/ /\ disk[Memory].kind = "dir" /\ Lockable(disk) /\ disk' = WithLockFile(disk)
              /\ Goes("check") \/ Refuses("partial", FALSE)
    BY <1>0, <1>6, AcquireExistingLockShape, Zenon
  <2>2. (\A p \in Paths : AsApproved(p)) /\ Lock \in Paths
    BY <2>1, PathSets DEF QuietState
  <2>3. ~Blocked(disk)
    <3> SUFFICES ASSUME NEW d \in {AgentsDir, Memory}, disk[d].kind = "file" PROVE FALSE
      BY DEF Blocked
    <3>1. approved.nodes[d].kind \in {"missing", "dir"} /\ approved.nodes[d] \in Nodes
      BY <1>0, <1>2, DirectoryKinds
    <3>2. disk[d] \in Nodes /\ SamePrestate(disk[d], approved.nodes[d])
      BY <1>2, <2>2 DEF AsApproved
    <3> QED
      BY <3>1, <3>2, SameMeans
  <2>4. /\ disk[Memory].kind = approved.nodes[Memory].kind
        /\ Lockable(disk) <=> Lockable(approved.nodes)
    <3>1. /\ disk[Memory] \in Nodes /\ SamePrestate(disk[Memory], approved.nodes[Memory])
          /\ disk[Lock] \in Nodes /\ SamePrestate(disk[Lock], approved.nodes[Lock])
          /\ Memory \in Paths /\ Lock \in Paths
      BY <1>2, <2>2, PathSets DEF AsApproved
    <3>2. approved.nodes[Memory] \in SeenNodes /\ approved.nodes[Lock] \in SeenNodes
      BY <1>2, <3>1
    <3>3. /\ disk[Memory].kind = approved.nodes[Memory].kind /\ disk[Memory].rw = approved.nodes[Memory].rw
          /\ disk[Lock].kind = approved.nodes[Lock].kind
      BY <3>1, <3>2 DEF SamePrestate, Prestate, SeenNodes, Nodes
    <3> QED
      BY <3>3 DEF Lockable
  <2>5. ~Refuses("partial", FALSE) /\ (Refuses("partial", Unlockable) => Unlockable)
    <3>1. faults' # faults + 1
      OBVIOUS
    <3> QED
      BY <3>1, Zenon DEF Refuses, Excused
  <2>6. \A p \in Owned : disk'[p] = disk[p]
    BY <1>2, <2>1 DEF WithLockFile
  <2>7. (\A p \in Owned : AsApproved(p))'
    BY <1>2, <2>1, <2>2, <2>6 DEF AsApproved
  <2>8. CASE pc' = "check" /\ report' = report /\ LockToTake
    <3>1. report'.class = None /\ LockToTake' /\ None # "operational"
      BY <1>3, <2>1, <2>8 DEF LockToTake, None
    <3>2. LockState'
      BY <3>1 DEF LockState
    <3> QED
      BY <1>p, <2>7, <2>8, <3>1, <3>2 DEF QuietState
  <2>9. CASE Refuses("partial", Unlockable) /\ disk' = disk /\ report'.class = "operational"
    <3>1. ~LockToTake'
      BY <2>1, <2>3, <2>4, <2>5, <2>9 DEF Unlockable, LockToTake
    <3>2. (\A p \in Paths : AsApproved(p))'
      BY <2>1, <2>2, <2>9 DEF AsApproved
    <3>3. pc' = "done"
      BY <2>9 DEF Refuses
    <3>4. LockState'
      BY <1>p, <2>9, <3>1, <3>2, <3>3 DEF LockState
    <3> QED
      BY <1>p, <3>3, <3>4 DEF QuietState
  <2>10. CASE ~Exists(disk, Memory) /\ Goes("check")
    BY <1>1, <2>4, <2>8, <2>10 DEF Exists, LockToTake
  <2>11. CASE disk[Memory].kind = "dir" /\ Lockable(disk) /\ Goes("check")
    BY <1>1, <2>4, <2>8, <2>11 DEF LockToTake
  <2> QED
    BY <2>1, <2>5, <2>9, <2>10, <2>11
<1>7. CASE CheckPrestates
  <2> DEFINE drifted == \/ \E p \in Owned : manifest.kinds[p] # None /\ ~AsApproved(p)
                        \/ ~reconstruct_candidate
  <2>1. /\ pc = "check" /\ UNCHANGED <<disk, temps, approved, manifest, journal>>
        /\ \/ /\ Goes("next") /\ lockSeen' = disk[Lock]
              /\ todo' = {p \in Owned : manifest.kinds[p] # None}
           \/ \E layout \in {"partial", initial_layout} : Refuses(layout, drifted)
    BY <1>0, <1>7, CheckPrestatesShape
  <2>2. \A p \in Owned : AsApproved(p)
    BY <2>1 DEF QuietState
  <2>3. ~drifted
    BY <1>0, <2>2, CandidateIsRebuilt
  <2> HIDE DEF drifted
  <2>4. /\ pc' = "next" /\ report' = report /\ lockSeen' = disk[Lock]
        /\ todo' = {p \in Owned : manifest.kinds[p] # None}
    <3>1. \A layout : ~Refuses(layout, drifted)
      <4>1. faults' # faults + 1
        OBVIOUS
      <4> QED
        BY <2>3, <4>1, Zenon DEF Refuses, Excused
    <3> QED
      BY <1>1, <2>1, <3>1, Zenon
  <2>5. journal = <<>> /\ temps = NoTemps
    BY <1>0, <1>p, <2>1 DEF JournalInv, OperationInv, EarlyPhases
  <2>6. \A p : ~WidenedAt(p)'
    BY <2>1, <2>5 DEF WidenedAt
  <2>7. ASSUME NEW p \in Owned PROVE Progress(p)'
    <3>1. CASE manifest.kinds[p] # None
      BY <2>1, <2>2, <2>4, <3>1 DEF Progress, AsApproved
    <3>2. CASE manifest.kinds[p] = None
      <4>1. SamePrestate(approved.nodes[p], manifest.candidate[p])
        BY <1>0, <3>2 DEF PlanInv, Planned, PlannedPath, PlanOf
      <4>2. SamePrestate(disk[p], manifest.candidate[p])
        BY <2>2, <4>1 DEF AsApproved, SamePrestate
      <4> QED
        BY <2>1, <2>4, <2>6, <3>2, <4>2 DEF Progress, Unwidened
    <3> QED
      BY <3>1, <3>2
  <2>8. (\A p \in Owned : Progress(p))'
    BY <2>7
  <2>9. disk'[Lock] = lockSeen' /\ \A p \in Owned : temps'[p] = None
    BY <2>1, <2>4, <2>5 DEF NoTemps
  <2>10. report'.class = None /\ LockState'
    BY <1>3, <1>p, <2>1, <2>4, LockGoesOn
  <2> QED
    BY <1>p, <2>4, <2>8, <2>9, <2>10 DEF QuietState
<1> QED
  BY <1>4, <1>5, <1>6, <1>7

(* A plan starts a quiet run.                                              *)
LEMMA QuietPlan ==
    ASSUME Core, QuietInv, Plan, Quiet'
    PROVE  QuietState'
<1>0. TypeOK /\ PlanInv /\ OperationInv
  BY DEF Core
<1>1. /\ pc = "inspected" /\ pc' = "stage1" /\ report' = report /\ Snapshot = approved
      /\ UNCHANGED <<disk, head, stale, approved>>
  <2>1. /\ pc = "inspected" /\ UNCHANGED <<disk, head, stale, approved>>
        /\ \/ Goes("stage1") /\ Snapshot = approved
           \/ manifest' = manifest
    BY <1>0, PlanShape
  <2>2. manifest' # manifest
    BY <1>0, <2>1 DEF PlanInv, Quiet
  <2> QED
    BY <2>1, <2>2 DEF Goes
<1>2. Snapshot' = approved'
  BY <1>1 DEF Snapshot, directory_entries, git_status
<1>3. report'.class = None
  BY <1>1 DEF QuietInv
<1>4. "stage1" \notin ApplyPhases \cup OpPhases
  BY DEF ApplyPhases, OpPhases, DirPhases, FilePhases, ReplacePhases
<1>5. LockState'
  BY <1>1, <1>3, <1>4 DEF LockState, None
<1> QED
  BY <1>1, <1>2, <1>3, <1>4, <1>5 DEF QuietState

(* A quiet run stays one that nothing goes wrong in.                       *)
LEMMA QuietStep ==
    ASSUME Core, QuietInv, Next
    PROVE  QuietInv'
<1>0. TypeOK /\ PlanInv /\ DiskInv
  BY DEF Core
<1>p. /\ {"idle", "inspected", "crashed"} \cap ({"done"} \cup EarlyPhases \cup ApplyPhases) = {}
      /\ {"idle", "inspected", "crashed", "done"} \cap
           (ApplyPhases \cup OpPhases \cup StagePhases \cup
            {"lock", "check", "next", "revalidating", "failed", "recovering", "ended"}) = {}
      /\ NoReport.class = None
  BY DEF EarlyPhases, ApplyPhases, OpPhases, DirPhases, FilePhases, ReplacePhases, StagePhases, NoReport
<1>1. ASSUME pc' \in {"idle", "inspected", "crashed"} PROVE report'.class = None
  <2>1. CASE Inspect
    <3>1. Goes("inspected") \/ Refuses(None, FALSE)
      BY <1>0, <2>1, InspectShape
    <3>2. ~Refuses(None, FALSE)
      BY <1>1, <1>p DEF Refuses
    <3> QED
      BY <1>0, <2>1, <3>1, <3>2, InspectShape DEF Goes, QuietInv
  <2>2. CASE Plan
    <3>1. Goes("stage1") \/ Refuses(None, TRUE)
      BY <1>0, <2>2, PlanShape
    <3> QED
      BY <1>1, <3>1 DEF Goes, Refuses
  <2>3. CASE StartOver
    BY <1>0, <2>3, StartOverShape DEF QuietInv
  <2>4. CASE Crash
    BY <1>0, <1>p, <2>4, CrashShape
  <2>5. ASSUME NEW p \in EditPaths, Edit(p) PROVE report'.class = None
    BY <1>0, <1>1, <2>5, EditShape DEF QuietInv
  <2>6. CASE CreateCandidateDir \/ CloseCandidateDir \/ ApplyCommand
    <3>1. \A n, x : (Goes(n) => pc' = n) /\ (Slips(n, x) => pc' = n) /\ (Refuses(n, x) => pc' = "done")
                    /\ (Leaves => pc' = "done")
      BY DEF Goes, Slips, Refuses, Leaves
    <3>2. ~(CreateCandidateDir \/ CloseCandidateDir)
      BY <1>0, <1>1, <3>1, CandidateDirShape
    <3>3. ~(ApplyStart \/ AcquireExistingLock \/ CheckPrestates)
      BY <1>0, <1>1, <3>1, ApplyStartShape, AcquireExistingLockShape, CheckPrestatesShape
    <3>4. ~Operation
      BY <1>0, <1>1, <1>p, OperationQuiet
    <3>5. ~Validate /\ ~HandleFailure /\ ~RecoverEntry /\ ~Classify
      BY <1>0, <1>1, <3>1, ValidateShape, HandleFailureShape, RecoverEntryShape, ClassifyShape
    <3>6. ~Revalidate
      BY <1>0, <1>1, <3>1, RevalidateShape
    <3> QED
      BY <2>6, <3>2, <3>3, <3>4, <3>5, <3>6 DEF ApplyCommand
  <2> QED
    BY <2>1, <2>2, <2>3, <2>4, <2>5, <2>6 DEF Next, Command
<1>2. ASSUME Quiet' PROVE QuietState'
  <2>1. CASE Plan
    BY <1>2, <2>1, QuietPlan
  <2>2. CASE ~Plan
    <3>1. /\ Quiet /\ faults = 0 /\ faults' = 0 /\ manifest.mode # None
          /\ ~Inspect /\ ~StartOver /\ \A p \in EditPaths : ~Edit(p)
      BY <1>2, <2>2, WasQuiet
    <3>2. QuietState
      BY <3>1 DEF QuietInv
    <3>3. CASE CreateCandidateDir \/ CloseCandidateDir \/ ApplyStart \/ AcquireExistingLock
               \/ CheckPrestates
      BY <3>1, <3>2, <3>3, QuietEarly
    <3>4. CASE BeginOperation
      BY <3>1, <3>2, <3>4, QuietBegin
    <3>5. CASE \/ MakeDirectory \/ IdentifyDirectory \/ InstallDirectory \/ OpenFile \/ FillFile
               \/ OpenTemporary \/ FillTemporary \/ InstallReplacement \/ RemoveFlat \/ Verify
      BY <3>1, <3>2, <3>5, QuietOperation
    <3>6. CASE RestoreParentMode \/ EndOperation
      BY <3>1, <3>2, <3>6, QuietRestore, QuietEnd
    <3>7. CASE Validate
      <4>1. /\ pc = "next" /\ todo = {} /\ OperationFrame /\ UNCHANGED <<disk, temps, journal>>
            /\ Goes("revalidating") \/ Slips("failed", ~FinalStateApproved)
        BY <1>0, <3>7, ValidateShape, Zenon
      <4>2. FinalStateApproved
        BY <3>1, <3>2, <4>1, QuietFinal
      <4>3. pc' = "revalidating" /\ report' = report
        <5>1. ~Slips("failed", ~FinalStateApproved)
          BY <3>1, <4>2, NoExcuse, Zenon
        <5> QED
          BY <4>1, <5>1, Zenon DEF Goes
      <4>4. /\ todo' = todo /\ manifest' = manifest /\ approved' = approved /\ lockSeen' = lockSeen
        BY <4>1, Steady
      <4>5. \A p : WidenedAt(p)' <=> WidenedAt(p)
        BY <4>1 DEF WidenedAt, Active
      <4>6. /\ report.class = None /\ disk[Lock] = lockSeen /\ (\A p \in Owned : Progress(p))
            /\ \A p \in Owned : temps[p] = None
        <5>1. "next" \in ApplyPhases /\ "next" \notin TempPhases
          BY DEF ApplyPhases, TempPhases
        <5> QED
          BY <3>2, <4>1, <5>1 DEF QuietState
      <4>7. (\A p \in Owned : Progress(p))'
        BY <4>1, <4>4, <4>5, <4>6 DEF Progress, Unwidened, AsApproved
      <4>8. "revalidating" \notin StagePhases \cup OpPhases
        BY DEF StagePhases, OpPhases, DirPhases, FilePhases, ReplacePhases
      <4>9. LockState'
        <5>1. "next" \in ApplyPhases
          BY DEF ApplyPhases
        <5> QED
          BY <3>2, <4>1, <4>3, <4>4, <4>6, <5>1, LockGoesOn
      <4> QED
        BY <4>1, <4>3, <4>4, <4>6, <4>7, <4>8, <4>9 DEF QuietState
    <3>8. CASE Revalidate
      <4>1. pc = "revalidating" /\ todo = {}
        <5>1. pc = "revalidating"
          BY <1>0, <3>8, RevalidateShape
        <5> QED
          BY <5>1 DEF Core, OperationInv
      <4>2. FinalStateApproved
        BY <3>1, <3>2, <4>1, QuietFinal
      <4>3. pc' = "done" /\ report'.class = "success"
        <5>1. ~Slips("failed", ~FinalStateApproved)
          BY <3>1, <4>2, NoExcuse, Zenon
        <5>2. /\ pc' = "done"
              /\ report' = [ok |-> TRUE, class |-> "success", layout |-> manifest.mode,
                            unresolved |-> {}]
          BY <1>0, <3>8, <5>1, RevalidateShape, Zenon
        <5> QED
          BY <5>2
      <4>4. LockToTake'
        <5>1. approved' = approved /\ pc \in ApplyPhases
          BY <1>0, <3>8, <4>1, RevalidateShape DEF ApplyPhases
        <5> QED
          BY <3>2, <5>1 DEF QuietState, LockState, LockToTake
      <4>5. LockState'
        BY <4>3, <4>4 DEF LockState
      <4> QED
        BY <1>p, <4>3, <4>5 DEF QuietState
    <3>9. CASE HandleFailure \/ RecoverEntry \/ Classify
      <4>1. pc \in {"failed", "recovering"}
        BY <1>0, <3>9, HandleFailureShape, RecoverEntryShape, ClassifyShape
      <4> QED
        BY <3>2, <4>1 DEF QuietState
    <3>10. CASE Crash
      <4>1. pc' = "crashed" /\ report' = NoReport
        BY <1>0, <3>10, CrashShape
      <4>2. LockState'
        BY <1>p, <4>1 DEF LockState, NoReport, None
      <4> QED
        BY <1>p, <4>1, <4>2 DEF QuietState
    <3> QED
      BY <2>2, <3>1, <3>3, <3>4, <3>5, <3>6, <3>7, <3>8, <3>9, <3>10
         DEF Next, Command, ApplyCommand, Operation, Verify
  <2> QED
    BY <2>1, <2>2
<1> QED
  BY <1>1, <1>2 DEF QuietInv

(* The invariant's last part holds at the start                            *)
LEMMA InitQuiet ==
    ASSUME Init
    PROVE  QuietInv
<1>1. manifest = NoManifest /\ report = NoReport
  BY InitShape
<1> QED
  BY <1>1 DEF QuietInv, Quiet, NoManifest, NoReport

(* ... and over steps that change nothing.                                 *)
LEMMA QuietStutter ==
    ASSUME QuietInv, UNCHANGED vars
    PROVE  QuietInv'
<1>1. \A p : (WidenedAt(p)' <=> WidenedAt(p)) /\ (AsApproved(p)' <=> AsApproved(p))
  BY DEF vars, WidenedAt, Active, AsApproved
<1>2. \A p : Progress(p)' <=> Progress(p)
  BY <1>1 DEF vars, Progress, Unwidened
<1>3. TargetState' <=> TargetState
  BY DEF vars, TargetState, AsApproved, Target, Wanted, Ours
<1>4. Snapshot' = Snapshot /\ Target' = Target
  BY DEF vars, Snapshot, directory_entries, git_status, Target
<1>5. LockState' <=> LockState
  BY <1>1 DEF vars, LockState, LockToTake
<1>6. QuietState' <=> QuietState
  BY <1>1, <1>2, <1>3, <1>4, <1>5 DEF vars, QuietState
<1> QED
  BY <1>6 DEF vars, QuietInv, Quiet

(* What is said of a quiet run follows.                                    *)
LEMMA QuietSucceeds ==
    ASSUME Core, QuietInv
    PROVE  AcceptedPlanSucceeds
<1> SUFFICES ASSUME manifest # NoManifest, faults = 0, touched = {}, stale = {}
             PROVE  IF LockToTake THEN report.class \in {None, "success"}
                    ELSE /\ report.class \in {None, "operational"}
                         /\ report.class = "operational" => \A p \in Paths : AsApproved(p)
  BY DEF AcceptedPlanSucceeds, LockToTake
<1>1. Quiet
  BY DEF Core, PlanInv, Quiet
<1> QED
  BY <1>1 DEF QuietInv, QuietState, LockState

-----------------------------------------------------------------------------
(* Theorems. *)

(* The report, the lock, the accounting and the success agree with the     *)
(* repository in every reachable state.                                    *)
THEOREM SafeIsInvariant == Spec => []Safe
<1>1. Init => Safe
  BY InitSafe
<1>2. Safe /\ [Next]_vars => Safe'
  BY SafeStep, SafeStutter
<1> QED
  BY <1>1, <1>2, PTL DEF Spec

(* An apply that failed is accounted for: what is not as it was inspected  *)
(* was touched by somebody else or is named in the report, so are the      *)
(* temporaries and the lock file it left, and a layout other than partial  *)
(* is the one that is there, or the inspected one where apply changed      *)
(* nothing itself (recover, classify_recovered_layout).                    *)
THEOREM FailuresAreAccounted == Spec => []FailureIsAccounted
<1>1. Safe => FailureIsAccounted
  BY FailureAccounts
<1> QED
  BY <1>1, SafeIsInvariant, PTL

(* An apply that reports success left exactly what was approved, and every *)
(* directory with the mode it had (finalize_and_validate).                 *)
THEOREM SuccessesAreApproved == Spec => []SuccessIsApproved
<1>1. Safe => SuccessIsApproved
  BY DEF Safe, SuccessInv
<1> QED
  BY <1>1, SafeIsInvariant, PTL

(* What plan accepts, apply carries out when nothing fails and nobody      *)
(* touches the repository: every check on the way repeats one that plan    *)
(* made, and the operations come in an order that makes every directory    *)
(* before what lies in it (build_operations, sort_operations,              *)
(* validate_manifest, reconstruct_candidate, finalize_and_validate).  The  *)
(* write lock alone plan does not look at: where its file is missing from  *)
(* a directory that takes none, apply is refused with nothing changed.     *)
THEOREM AcceptedPlansSucceed == Spec => []AcceptedPlanSucceeds
<1>1. Init => QuietInv
  BY InitQuiet
<1>2. Core /\ QuietInv /\ [Next]_vars => QuietInv'
  BY QuietStep, QuietStutter
<1>3. Core /\ QuietInv => AcceptedPlanSucceeds
  BY QuietSucceeds
<1> QED
  BY <1>1, <1>2, <1>3, CoreIsInvariant, PTL DEF Spec
=============================================================================
