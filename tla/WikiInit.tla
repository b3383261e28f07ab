------------------------------ MODULE WikiInit ------------------------------
(***************************************************************************)
(* `yams-wiki init`: inspect a repository, plan the files that turn it     *)
(* into a minimal or a full wiki, and apply the approved plan - several    *)
(* file operations that are rolled back from an in-memory journal when one *)
(* of them fails.  Beside it a person edits the same files, system calls   *)
(* fail, the process is killed, and the command is run again afterwards.   *)
(*                                                                         *)
(* Sources: yams-wiki/src/init/inspect, plan, apply and bin/yams-wiki.rs.  *)
(* One action is one system call that changes the repository, with the     *)
(* checks the code makes right before it, or one capture.  A directory     *)
(* that is rebound under the command is a fault of the step that notices   *)
(* it.  The window between a last check and the rename or unlink it guards *)
(* is closed here: the code's comments leave it to the owner of the files. *)
(***************************************************************************)
EXTENDS Naturals, FiniteSets, Sequences, SequencesExt

CONSTANTS
    Cases,       \* the repositories and requests to start from
    EditPaths,   \* files the environment may touch
    MaxEdits,    \* bound on what it does
    MaxFaults,   \* bound on failing system calls
    MaxCrashes,  \* bound on killed processes
    MaxTrouble   \* bound on all three together

Root == "."
AgentsMd == "AGENTS.md"
AgentsDir == ".agents"
Memory == ".agents/memory"
Gitignore == ".agents/memory/.gitignore"
Index == ".agents/memory/INDEX.md"
Schema == ".agents/memory/SCHEMA.md"
Pages == ".agents/memory/pages"
Flat == ".agents/memory/project-context.md"
Lock == ".agents/memory/.write.lock"
Project == ".agents/memory/pages/project-context.md"
Extra == ".agents/memory/pages/x.md"

Dirs == {AgentsDir, Memory, Pages}
Files == {AgentsMd, Gitignore, Index, Schema, Flat, Project, Extra}
Owned == Dirs \cup Files
PagePaths == {Project, Extra}

(* The place of an owned path by depth and then by name. *)
PathPlace == [p \in Owned |-> CASE p = AgentsDir -> 0 [] p = AgentsMd -> 1 [] p = Memory -> 2
                               [] p = Gitignore -> 3 [] p = Index -> 4 [] p = Schema -> 5
                               [] p = Pages -> 6 [] p = Flat -> 7 [] p = Project -> 8
                               [] p = Extra -> 9]
Paths == Owned \cup {Root, Lock}

Parent == [p \in Owned \cup {Lock} |->
              CASE p \in {AgentsDir, AgentsMd} -> Root
                [] p = Memory -> AgentsDir
                [] p \in PagePaths -> Pages
                [] OTHER -> Memory]

(* A node: what a path names, with what the properties tell apart of its   *)
(* contents, whether its owner may create and remove entries (a mode with  *)
(* 0300), and who made the inode.                                          *)
NodeOf(kind, text, rw, by) == [kind |-> kind, text |-> text, rw |-> rw, by |-> by]
Nobody == "nobody"
NoText == "empty"
Missing == NodeOf("missing", NoText, TRUE, Nobody)
File(text, by) == NodeOf("file", text, TRUE, by)
Dir(rw, by) == NodeOf("dir", NoText, rw, by)
None == "none"

(* Equal as NodePrestate records: kind, mode and contents, not the inode. *)
Prestate(n) == [n EXCEPT !.by = Nobody]
SamePrestate(n, m) == Prestate(n) = Prestate(m)

(* The contents and the makers that are told apart.  Only a file has       *)
(* contents, only a directory has a mode that matters.                     *)
Texts == {NoText, "torn", "foreign", "prose", "outdated", "policy", "ignore", "schema",
          "template", "catalog1", "catalog2", "page", "page2"}
Makers == {Nobody, "repo", "apply", "env"}
Nodes == {n \in [kind : {"missing", "file", "dir"}, text : Texts, rw : BOOLEAN, by : Makers] :
             /\ n.kind = "missing" => n = Missing
             /\ n.kind = "file" => n.rw
             /\ n.kind = "dir" => n.text = NoText}

(* Whatever there is lies in a directory. *)
Tree(d) == /\ d[Root].kind = "dir"
           /\ \A p \in DOMAIN Parent : d[p].kind # "missing" => d[Parent[p]].kind = "dir"

StartOf(c) == [p \in Paths |-> IF p \in DOMAIN c.nodes THEN c.nodes[p]
                               ELSE IF p = Root THEN Dir(TRUE, "repo") ELSE Missing]

(* A repository may hold anything that is a tree and that nobody is at     *)
(* work on; a request may ask for anything.                                *)
ASSUME CasesAssumption ==
    \A c \in Cases :
        /\ c.mode \in {None, "minimal", "full"} /\ c.agents \in Texts \cup {None} /\ c.page \in Texts
        /\ StartOf(c) \in [Paths -> Nodes] /\ Tree(StartOf(c))
        /\ \A p \in Paths : StartOf(c)[p].by \in {"repo", Nobody}

(* The lock file is the writers' own: see WikiLock. *)
ASSUME EditPathsAssumption == EditPaths \subseteq Owned

VARIABLES
    disk,      \* the repository
    head,      \* what git has committed
    temps,     \* the temporary this process has beside each path, or None
    stale,     \* paths with a temporary an earlier process left
    staging,   \* the plan's candidate directory: none, live or residue
    case,      \* the request
    pc,
    approved,  \* what inspection saw: its digest
    manifest,  \* the operations of the plan and its candidate
    todo,      \* the operations not yet started
    journal,   \* what recovery may have to undo, oldest first
    locked,    \* this process holds the wiki's write lock
    madeLock,  \* ... and created the lock file together with the directory
    lockSeen,  \* the lock file as validation expects it
    report,    \* what the command said
    touched,   \* paths the environment changed since the inspection
    edits, faults, crashes

repo == <<disk, head, temps, stale>>
budget == <<edits, faults, crashes>>
vars == <<disk, head, temps, stale, staging, case, pc, approved, manifest, todo,
          journal, locked, madeLock, lockSeen, report, touched, edits, faults, crashes>>

At(p) == [path |-> p, temp |-> FALSE]
TempOf(p) == [path |-> p, temp |-> TRUE]

-----------------------------------------------------------------------------
(* Inspection: conflicts, the layout, the attainable modes and the digest. *)

Exists(d, p) == d[p].kind # "missing"
ValidPage(n) == n.kind = "file" /\ n.text \in {"page", "page2"}

(* The policy section of AGENTS.md: how many headings, and is it exact? *)
inspect_policy(n) ==
    CASE n.kind = "file" /\ n.text = "policy" -> [heading_count |-> 1, exact |-> TRUE]
      [] n.kind = "file" /\ n.text = "outdated" -> [heading_count |-> 1, exact |-> FALSE]
      [] OTHER -> [heading_count |-> 0, exact |-> FALSE]

(* INDEX.md as a function of the pages there are. *)
CanonicalIndex(d) == IF Exists(d, Extra) THEN "catalog2" ELSE "catalog1"
IndexReadable(text) == text \in {"template", "catalog1", "catalog2"}

validate_expected_kinds(d) ==
    {p \in Owned : Exists(d, p) /\ d[p].kind # (IF p \in Dirs THEN "dir" ELSE "file")}

validate_flat_page(d) == d[Flat].kind = "file" => ValidPage(d[Flat])
validate_memory_gitignore(d) == d[Gitignore].kind = "file" => d[Gitignore].text = "ignore"
validate_schema(d) == d[Schema].kind = "file" => d[Schema].text = "schema"

Structured(d) == \E p \in {Schema, Index, Pages} : Exists(d, p)
PagesValid(d) == \A p \in PagePaths : Exists(d, p) => ValidPage(d[p])

(* Everything a full wiki needs is there; whether it is canonical is the   *)
(* next question.                                                          *)
ShapeComplete(d) ==
    /\ inspect_policy(d[AgentsMd]).exact
    /\ ~Exists(d, Flat)
    /\ d[Schema].kind = "file" /\ d[Schema].text = "schema"
    /\ d[Index].kind = "file" /\ d[Pages].kind = "dir"
    /\ Exists(d, Project) /\ PagesValid(d)

validate_full_layout(d) == ShapeComplete(d) /\ d[Index].text = CanonicalIndex(d)

(* A temporary of pages/ is an entry that should not be there. *)
Conflicts(d, old) ==
    validate_expected_kinds(d)
    \cup {p \in {AgentsMd} : LET q == inspect_policy(d[p])
                             IN  q.heading_count > 0 /\ ~q.exact}
    \cup {p \in {Flat} : ~validate_flat_page(d)}
    \cup {p \in {Gitignore} : ~validate_memory_gitignore(d)}
    \cup {p \in {Schema} : ~validate_schema(d)}
    \cup {p \in PagePaths : Exists(d, p) /\ ~ValidPage(d[p])}
    \cup {p \in {Memory} : ShapeComplete(d) /\ ~validate_full_layout(d)}
    \cup {p \in old : Parent[p] = Pages}

LayoutOf(d, old) ==
    LET conflicts == Conflicts(d, old)
        policy == inspect_policy(d[AgentsMd])
    IN  CASE policy.heading_count = 0 /\ ~Exists(d, Memory) /\ conflicts = {} -> "absent"
          [] conflicts = {} /\ policy.exact /\ Exists(d, Flat) /\ ~Structured(d) -> "minimal"
          [] conflicts = {} /\ validate_full_layout(d) -> "full"
          [] OTHER -> "partial"

Attainable(d, old) ==
    IF Conflicts(d, old) # {} THEN {}
    ELSE IF Structured(d) THEN {"full"} ELSE {"minimal", "full"}

(* A plan that names no mode takes the recommended one. *)
recommended_mode(attainable) == IF "full" \in attainable THEN "full" ELSE None

(* git status of AGENTS.md and .agents/memory: files that differ from the  *)
(* commit and temporaries, which nothing ignores; the lock file is.        *)
git_status(d, old) ==
    {p \in Files : /\ d[p].kind = "file" \/ head[p].kind = "file"
                   /\ ~SamePrestate(d[p], head[p])}
    \cup {p \in old : p \in Files /\ Parent[p] # Root}

(* What the digest binds: every owned node and the entries of the three    *)
(* directories, not those of the repository root.                          *)
directory_entries == {p \in stale : Parent[p] # Root}
Snapshot == [nodes |-> [p \in Paths |-> Prestate(disk[p])],
             entries |-> directory_entries,
             dirty |-> git_status(disk, stale)]

-----------------------------------------------------------------------------
(* Plan: the candidate and the operations that lead to it. *)

Mode == IF case.mode = None THEN recommended_mode(Attainable(disk, stale)) ELSE case.mode

(* AGENTS.md may be left out of the request when there is none or when it  *)
(* is exact already; None is a refusal.                                    *)
resolve_agents_md ==
    CASE case.agents # None -> case.agents
      [] case.agents = None /\ ~Exists(disk, AgentsMd) -> "policy"
      [] case.agents = None /\ inspect_policy(disk[AgentsMd]).exact -> disk[AgentsMd].text
      [] OTHER -> None

(* A node the candidate wants keeps the mode of the one that is there. *)
DesiredFile(text) == File(text, "apply")
retained_mode(p) == IF Exists(disk, p) THEN disk[p].rw ELSE TRUE

desired_candidate(mode) ==
    [p \in Owned |->
        CASE p = AgentsMd -> DesiredFile(resolve_agents_md)
          [] p \in {AgentsDir, Memory} -> Dir(retained_mode(p), "apply")
          [] p = Gitignore -> DesiredFile("ignore")
          [] p = Flat /\ mode = "minimal" -> DesiredFile(case.page)
          [] p = Pages /\ mode = "full" -> Dir(retained_mode(p), "apply")
          [] p = Schema /\ mode = "full" -> DesiredFile("schema")
          [] p = Index /\ mode = "full" -> DesiredFile(CanonicalIndex(disk))
          [] p = Project /\ mode = "full" -> DesiredFile(case.page)
          [] p = Extra /\ mode = "full" -> disk[Extra]
          [] OTHER -> Missing]

(* An INDEX.md that is there has to be one the catalog can be put into. *)
canonicalize_full_index(mode) ==
    mode = "full" /\ Exists(disk, Index) => IndexReadable(disk[Index].text)

(* What a layout holds is valid: the policy, the ignore file, the pages    *)
(* and the catalog of them.                                                *)
validate_candidate(c, mode) ==
    /\ inspect_policy(c[AgentsMd]).exact
    /\ c[Gitignore].kind = "file" /\ c[Gitignore].text = "ignore"
    /\ mode = "minimal" => ValidPage(c[Flat])
    /\ mode = "full" => validate_full_layout(c)

(* ... and it consists of the nodes of its mode and no others. *)
validate_owned_candidate(c, mode) ==
    /\ {p \in Owned \ {Extra} : Exists(c, p)} =
         {AgentsMd, AgentsDir, Memory, Gitignore}
         \cup (IF mode = "minimal" THEN {Flat} ELSE {Schema, Index, Pages, Project})
    /\ mode = "minimal" => ~Exists(c, Extra)
    /\ \A p \in {AgentsDir, Memory} : c[p].kind = "dir"
    /\ validate_candidate(c, mode)

build_operations(c) ==
    [p \in Owned |->
        CASE c[p].kind = "dir" /\ ~Exists(disk, p) -> "create-directory"
          [] c[p].kind = "file" /\ ~Exists(disk, p) -> "create-file"
          [] c[p].kind = "file" /\ disk[p].kind = "file" /\ c[p].text # disk[p].text
                -> "replace-file"
          [] p = Flat /\ c[p].kind = "missing" /\ Exists(disk, p) -> "remove-file"
          [] OTHER -> None]

(* Variant: the files before the directories they lie in. *)
FilesFirstRank(kind) == CASE kind \in {"create-file", "replace-file"} -> 0
                          [] kind = "create-directory" -> 1
                          [] OTHER -> 2

(* Directories, then files, then the removal ... *)
operation_rank(kind) == CASE kind = "create-directory" -> 0
                          [] kind \in {"create-file", "replace-file"} -> 1
                          [] OTHER -> 2

(* ... each by depth and name: the operations are taken in this order. *)
SortKey(kinds, p) == 10 * operation_rank(kinds[p]) + PathPlace[p]
sort_operations(kinds, ops) ==
    CHOOSE p \in ops : \A q \in ops : SortKey(kinds, p) <= SortKey(kinds, q)

(* The operations, carried out on a copy of what is there. *)
apply_candidate_operations(kinds, c) ==
    [p \in Owned |-> CASE kinds[p] = None -> disk[p]
                       [] kinds[p] = "remove-file" -> Missing
                       [] OTHER -> c[p]]

verify_candidate(kinds, c) ==
    \A p \in Owned : SamePrestate(apply_candidate_operations(kinds, c)[p], c[p])

NoManifest == [mode |-> None, kinds |-> [p \in Owned |-> None],
               candidate |-> [p \in Owned |-> Missing]]
NoReport == [ok |-> FALSE, class |-> None, layout |-> None, unresolved |-> {}]
NoTemps == [p \in Owned |-> None]
NoApproval == [nodes |-> <<>>, entries |-> {}, dirty |-> {}]

Init ==
    /\ case \in Cases
    /\ disk = StartOf(case)
    /\ head = disk
    /\ temps = NoTemps /\ stale = {} /\ staging = "none"
    /\ pc = "idle" /\ approved = NoApproval /\ manifest = NoManifest
    /\ todo = {} /\ journal = <<>>
    /\ locked = FALSE /\ madeLock = FALSE /\ lockSeen = Missing
    /\ report = NoReport /\ touched = {}
    /\ edits = 0 /\ faults = 0 /\ crashes = 0

Trouble == edits + faults + crashes < MaxTrouble
Fault == Trouble /\ faults < MaxFaults /\ faults' = faults + 1
NoFault == UNCHANGED faults

(* A command that stops before it changed the repository. *)
Refuse(class, layout) ==
    /\ report' = [NoReport EXCEPT !.class = class, !.layout = layout]
    /\ pc' = "done" /\ locked' = FALSE

(* `init inspect`. *)
Inspect ==
    /\ pc = "idle"
    /\ \/ /\ NoFault /\ pc' = "inspected" /\ UNCHANGED <<report, locked>>
          /\ approved' = Snapshot /\ touched' = {}
       \/ Fault /\ Refuse("operational", None) /\ UNCHANGED <<approved, touched>>
    /\ UNCHANGED <<repo, staging, case, manifest, todo, journal, madeLock, lockSeen,
                   edits, crashes>>

(* `init plan`: refused when the repository is not as inspected, has       *)
(* uncommitted changes or conflicts, or cannot reach the mode.             *)
Plan ==
    LET c == desired_candidate(Mode)
        acceptable == /\ Snapshot = approved
                      /\ approved.dirty = {}
                      /\ Mode \in Attainable(disk, stale)
                      /\ resolve_agents_md # None
                      /\ canonicalize_full_index(Mode)
                      /\ validate_owned_candidate(c, Mode)
                      /\ verify_candidate(build_operations(c), c)
    IN  /\ pc = "inspected"
        /\ \/ /\ acceptable /\ NoFault /\ pc' = "stage1"
              /\ manifest' = [mode |-> Mode, kinds |-> build_operations(c), candidate |-> c]
              /\ UNCHANGED <<report, locked>>
           \/ /\ ~acceptable /\ NoFault /\ Refuse("usage", None) /\ UNCHANGED manifest
           \/ Fault /\ Refuse("operational", None) /\ UNCHANGED manifest
        /\ UNCHANGED <<repo, staging, case, approved, todo, journal, madeLock, lockSeen,
                       touched, edits, crashes>>

(* The candidate is staged twice outside the repository: as a whole, and   *)
(* by applying the operations to a copy of what is retained.               *)
CreateCandidateDir ==
    /\ pc \in {"stage1", "stage2"}
    /\ \/ /\ NoFault /\ staging' = "live"
          /\ pc' = (IF pc = "stage1" THEN "staged1" ELSE "staged2")
          /\ UNCHANGED <<report, locked>>
       \/ Fault /\ UNCHANGED staging /\ Refuse("operational", None)
       \/ /\ Fault /\ staging' = "residue" /\ pc' = "done" /\ UNCHANGED locked
          /\ report' = [NoReport EXCEPT !.class = "usage", !.unresolved = {TempOf(Root)}]
    /\ UNCHANGED <<repo, case, approved, manifest, todo, journal, madeLock, lockSeen,
                   touched, edits, crashes>>

(* Whatever staging came to, the directory is removed; a failure to do so  *)
(* is the result of the plan, with the path of what remains.               *)
CloseCandidateDir ==
    /\ pc \in {"staged1", "staged2"}
    /\ \/ /\ NoFault /\ staging' = "none"
          /\ pc' = (IF pc = "staged1" THEN "stage2" ELSE "planned")
          /\ UNCHANGED <<report, locked>>
       \/ Fault /\ staging' = "none" /\ Refuse("operational", None)
       \/ /\ Fault /\ staging' = "residue" /\ pc' = "done" /\ UNCHANGED locked
          /\ report' = [NoReport EXCEPT !.class = "operational", !.unresolved = {TempOf(Root)}]
    /\ UNCHANGED <<repo, case, approved, manifest, todo, journal, madeLock, lockSeen,
                   touched, edits, crashes>>

-----------------------------------------------------------------------------
(* `init apply`: what it checks before the first change. *)

(* Where a mode may put something; retained pages are not operated on. *)
mutable_operation_path(p, mode) ==
    \/ p \in {AgentsMd, AgentsDir, Memory, Gitignore, Flat}
    \/ mode = "full" /\ p \in {Schema, Index, Pages, Project}

(* An operation fits its path, its mode and the state it starts from. *)
validate_operation(p, kind, mode) ==
    /\ mutable_operation_path(p, mode)
    /\ kind = "create-directory" <=> p \in Dirs
    /\ kind = "remove-file" => p = Flat /\ mode = "full"
    /\ p = Flat => mode = "minimal" \/ kind = "remove-file"
    /\ approved.nodes[p].kind =
         IF kind \in {"create-directory", "create-file"} THEN "missing" ELSE "file"

validate_manifest(m) ==
    LET used == {p \in Owned : m.kinds[p] # None}
    IN  /\ Cardinality(used) <= (IF m.mode = "minimal" THEN 5 ELSE 9)
        /\ \A p \in used : validate_operation(p, m.kinds[p], m.mode)

ApplyStart ==
    /\ pc = "planned"
    /\ \/ /\ Snapshot = approved /\ validate_manifest(manifest) /\ NoFault
          /\ pc' = "lock" /\ UNCHANGED <<report, locked>>
       \/ /\ ~(Snapshot = approved /\ validate_manifest(manifest)) /\ NoFault
          /\ Refuse("usage", LayoutOf(disk, stale))
       \/ Fault /\ Refuse("operational", "partial")
    /\ UNCHANGED <<repo, staging, case, approved, manifest, todo, journal, madeLock, lockSeen,
                   touched, edits, crashes>>

WithLockFile(d) == IF Exists(d, Lock) THEN d ELSE [d EXCEPT ![Lock] = File(NoText, "apply")]

(* A file where the lock file's directory or the one above it should be. *)
Blocked(d) == \E p \in {AgentsDir, Memory} : d[p].kind = "file"

(* The lock file is opened where it is and created where its directory     *)
(* takes a new entry.                                                      *)
Lockable(d) == \/ d[Lock].kind = "file"
               \/ d[Lock].kind = "missing" /\ d[Memory].rw

(* An existing memory directory is locked before anything is compared; one *)
(* whose lock file cannot be opened is refused.                            *)
AcquireExistingLock ==
    LET wiki == disk[Memory].kind = "dir"
    IN  /\ pc = "lock"
        /\ \/ /\ ~Exists(disk, Memory) /\ ~Blocked(disk) /\ NoFault /\ pc' = "check"
              /\ UNCHANGED <<disk, locked, report>>
           \/ /\ wiki /\ Lockable(disk) /\ NoFault /\ pc' = "check"
              /\ disk' = WithLockFile(disk) /\ locked' = TRUE /\ UNCHANGED report
           \/ /\ Blocked(disk) \/ (wiki /\ ~Lockable(disk))
              /\ NoFault /\ Refuse("operational", "partial") /\ UNCHANGED disk
           \/ Fault /\ Refuse("operational", "partial") /\ UNCHANGED disk
           \/ /\ wiki /\ Lockable(disk) /\ Fault /\ Refuse("operational", "partial")
              /\ disk' = WithLockFile(disk)
    /\ UNCHANGED <<head, temps, stale, staging, case, approved, manifest, todo, journal,
                   madeLock, lockSeen, touched, edits, crashes>>

AsApproved(p) == SamePrestate(disk[p], approved.nodes[p])

(* The candidate, again, from the inspected nodes and the operations. *)
build_candidate ==
    [p \in Owned |-> CASE manifest.kinds[p] = None -> approved.nodes[p]
                       [] manifest.kinds[p] = "remove-file" -> Missing
                       [] OTHER -> manifest.candidate[p]]

reconstruct_candidate ==
    /\ validate_owned_candidate(build_candidate, manifest.mode)
    /\ \A p \in Owned : SamePrestate(build_candidate[p], manifest.candidate[p])

(* What ApplyStart captured, which was as approved. *)
initial_layout == LayoutOf(approved.nodes, approved.entries)

(* Every operation's path is as approved before the first one starts.  A   *)
(* failure late in the comparison reports the layout it started from.      *)
CheckPrestates ==
    LET drifted == \E p \in Owned : manifest.kinds[p] # None /\ ~AsApproved(p)
    IN  /\ pc = "check"
        /\ \/ /\ ~drifted /\ reconstruct_candidate /\ NoFault /\ pc' = "next"
              /\ lockSeen' = disk[Lock] /\ todo' = {p \in Owned : manifest.kinds[p] # None}
              /\ UNCHANGED <<report, locked>>
           \/ drifted /\ NoFault /\ Refuse("usage", "partial") /\ UNCHANGED <<lockSeen, todo>>
           \/ /\ ~drifted /\ ~reconstruct_candidate /\ NoFault
              /\ Refuse("usage", initial_layout) /\ UNCHANGED <<lockSeen, todo>>
           \/ Fault /\ Refuse("operational", "partial") /\ UNCHANGED <<lockSeen, todo>>
           \/ /\ ~drifted /\ reconstruct_candidate /\ Fault
              /\ Refuse("operational", initial_layout) /\ UNCHANGED <<lockSeen, todo>>
        /\ UNCHANGED <<repo, staging, case, approved, manifest, journal, madeLock,
                       touched, edits, crashes>>

-----------------------------------------------------------------------------
(* One operation.  A failure inside it still restores the parent's mode    *)
(* and then starts the rollback.                                           *)

Target == sort_operations(manifest.kinds, todo)
Kind == manifest.kinds[Target]
Wanted == manifest.candidate[Target]
OnTarget(kind) == todo # {} /\ Kind = kind

dominant_exit_class(a, b) ==
    IF "operational" \in {a, b} THEN "operational"
    ELSE IF "usage" \in {a, b} THEN "usage" ELSE None

FailAs(class, next) ==
    /\ report' = [report EXCEPT !.class = dominant_exit_class(@, class)]
    /\ pc' = next
Proceed(next) == pc' = next /\ UNCHANGED report

OperationFrame == UNCHANGED <<head, stale, staging, case, approved, manifest, todo, locked,
                              madeLock, lockSeen, touched, edits, crashes>>

Entry(kind, state, original) ==
    [kind |-> kind, path |-> Target, state |-> state, original |-> original]
LastState(state) == [journal EXCEPT ![Len(journal)].state = state]

(* make_parent_writable records the mode before it widens it. *)
Widened(d) == [kind |-> "mode", path |-> d, state |-> "active", original |-> disk[d]]

(* open_parent and verify_expected, then the parent is made writable if it *)
(* is not.                                                                 *)
BeginOperation ==
    LET parent == Parent[Target]
        ready == AsApproved(Target) /\ disk[parent].kind = "dir"
    IN  /\ pc = "next" /\ todo # {}
        /\ \/ /\ ready /\ disk[parent].rw /\ NoFault /\ Proceed("operation")
              /\ UNCHANGED <<disk, journal>>
           \/ /\ ready /\ ~disk[parent].rw /\ NoFault /\ Proceed("operation")
              /\ disk' = [disk EXCEPT ![parent].rw = TRUE]
              /\ journal' = Append(journal, Widened(parent))
           \/ /\ ~ready /\ NoFault /\ FailAs("usage", "failed")
              /\ UNCHANGED <<disk, journal>>
           \/ Fault /\ FailAs("operational", "failed") /\ UNCHANGED <<disk, journal>>
           \/ /\ ~disk[parent].rw /\ Fault /\ FailAs("operational", "failed")
              /\ journal' = Append(journal, Widened(parent)) /\ UNCHANGED disk
        /\ OperationFrame /\ UNCHANGED temps

(* CreateDirectory: a private temporary, its identity, the rename. *)
MakeDirectory ==
    /\ pc = "operation" /\ OnTarget("create-directory")
    /\ \/ /\ NoFault /\ Proceed("dir-made")
          /\ temps' = [temps EXCEPT ![Target] = "dir"]
          /\ journal' = Append(journal, Entry("dir", "unknown", Missing))
       \/ Fault /\ FailAs("operational", "restoring") /\ UNCHANGED <<temps, journal>>
    /\ OperationFrame /\ UNCHANGED disk

IdentifyDirectory ==
    /\ pc = "dir-made"
    /\ \/ NoFault /\ Proceed("dir-named") /\ journal' = LastState("temporary")
       \/ Fault /\ FailAs("operational", "restoring") /\ UNCHANGED journal
       \/ Fault /\ FailAs("operational", "restoring") /\ journal' = LastState("temporary")
    /\ OperationFrame /\ UNCHANGED <<disk, temps>>

InstallDirectory ==
    /\ pc = "dir-named"
    /\ \/ /\ ~Exists(disk, Target) /\ NoFault /\ Proceed("dir-installed")
          /\ disk' = [disk EXCEPT ![Target] = Wanted]
          /\ temps' = [temps EXCEPT ![Target] = None]
          /\ journal' = LastState("installed")
       \/ /\ Exists(disk, Target) /\ NoFault /\ FailAs("usage", "restoring")
          /\ UNCHANGED <<disk, temps, journal>>
       \/ Fault /\ FailAs("operational", "restoring") /\ UNCHANGED <<disk, temps, journal>>
    /\ OperationFrame

(* CreateFile: an exclusive open at the final name, then the contents. *)
OpenFile ==
    LET opened(state) ==
            /\ disk' = [disk EXCEPT ![Target] = File(NoText, "apply")]
            /\ journal' = Append(journal, Entry("file", state, Missing))
    IN  /\ pc = "operation" /\ OnTarget("create-file")
        /\ \/ ~Exists(disk, Target) /\ NoFault /\ Proceed("file-opened") /\ opened("identified")
           \/ /\ Exists(disk, Target) /\ NoFault /\ FailAs("usage", "restoring")
              /\ UNCHANGED <<disk, journal>>
           \/ Fault /\ FailAs("operational", "restoring") /\ UNCHANGED <<disk, journal>>
           \/ /\ ~Exists(disk, Target) /\ Fault /\ FailAs("operational", "restoring")
              /\ opened("unidentified")
        /\ OperationFrame /\ UNCHANGED temps

(* The file is still the one this process opened. *)
Ours(p) == disk[p].by = "apply"

FillFile ==
    /\ pc = "file-opened"
    /\ \/ /\ Ours(Target) /\ NoFault /\ Proceed("file-filled")
          /\ disk' = [disk EXCEPT ![Target] = Wanted]
       \/ ~Ours(Target) /\ NoFault /\ FailAs("usage", "restoring") /\ UNCHANGED disk
       \/ /\ Ours(Target) /\ Fault /\ FailAs("operational", "restoring")
          /\ disk' \in {disk, [disk EXCEPT ![Target] = File("torn", "apply")]}
    /\ OperationFrame /\ UNCHANGED <<temps, journal>>

(* ReplaceFile: an exclusive temporary, its contents, the rename over a    *)
(* target that is still the approved one.                                  *)
OpenTemporary ==
    LET opened(state) ==
            /\ temps' = [temps EXCEPT ![Target] = NoText]
            /\ journal' = Append(journal, Entry("replaced", state, disk[Target]))
    IN  /\ pc = "operation" /\ OnTarget("replace-file")
        /\ \/ NoFault /\ Proceed("temp-opened") /\ opened("identified")
           \/ Fault /\ FailAs("operational", "restoring") /\ UNCHANGED <<temps, journal>>
           \/ Fault /\ FailAs("operational", "restoring") /\ opened("unidentified")
        /\ OperationFrame /\ UNCHANGED disk

FillTemporary ==
    /\ pc = "temp-opened"
    /\ \/ /\ NoFault /\ Proceed("temp-filled")
          /\ temps' = [temps EXCEPT ![Target] = Wanted.text]
       \/ /\ Fault /\ FailAs("operational", "restoring")
          /\ temps' \in {temps, [temps EXCEPT ![Target] = "torn"]}
    /\ OperationFrame /\ UNCHANGED <<disk, journal>>

InstallReplacement ==
    LET unchanged == disk[Target] = Last(journal).original /\ AsApproved(Target)
    IN  /\ pc = "temp-filled"
        /\ \/ /\ unchanged /\ NoFault /\ Proceed("replaced")
              /\ disk' = [disk EXCEPT ![Target] = Wanted]
              /\ temps' = [temps EXCEPT ![Target] = None]
              /\ journal' = LastState("installed")
           \/ /\ ~unchanged /\ NoFault /\ FailAs("usage", "restoring")
              /\ UNCHANGED <<disk, temps, journal>>
           \/ Fault /\ FailAs("operational", "restoring") /\ UNCHANGED <<disk, temps, journal>>
        /\ OperationFrame

(* RemoveFile: the flat page, once its contents are in pages/. *)
RemoveFlat ==
    /\ pc = "operation" /\ OnTarget("remove-file")
    /\ \/ /\ AsApproved(Target) /\ NoFault /\ Proceed("unlinked")
          /\ disk' = [disk EXCEPT ![Target] = Missing]
          /\ journal' = Append(journal, Entry("removed", "removed", disk[Target]))
       \/ ~AsApproved(Target) /\ NoFault /\ FailAs("usage", "restoring") /\ UNCHANGED <<disk, journal>>
       \/ Fault /\ FailAs("operational", "restoring") /\ UNCHANGED <<disk, journal>>
    /\ OperationFrame /\ UNCHANGED temps

(* What was installed is read back, and the parent directory is flushed. *)
VerifyIs(node) ==
    /\ \/ disk[Target] = node /\ NoFault /\ Proceed("restoring")
       \/ disk[Target] # node /\ NoFault /\ FailAs("usage", "restoring")
       \/ Fault /\ FailAs("operational", "restoring")
    /\ OperationFrame /\ UNCHANGED <<disk, temps, journal>>

VerifyDirectory == pc = "dir-installed" /\ VerifyIs(Wanted)
VerifyFile == pc = "file-filled" /\ VerifyIs(Wanted)
VerifyReplacement == pc = "replaced" /\ VerifyIs(Wanted)
VerifyRemoved == pc = "unlinked" /\ VerifyIs(Missing)

(* restore_parent_mode: of the entry this operation pushed, if it did. *)
RestoreParentMode ==
    LET active == {i \in 1..Len(journal) : journal[i].kind = "mode" /\ journal[i].state = "active"}
        narrowed == [p \in Paths |-> IF \E i \in active : journal[i].path = p
                                     THEN [disk[p] EXCEPT !.rw = FALSE] ELSE disk[p]]
        after == IF report.class = None THEN "ended" ELSE "failed"
    IN  /\ pc = "restoring"
        /\ \/ active = {} /\ NoFault /\ Proceed(after) /\ UNCHANGED <<disk, journal>>
           \/ /\ active # {} /\ NoFault /\ Proceed(after) /\ disk' = narrowed
              /\ journal' = [i \in 1..Len(journal) |->
                                IF i \in active THEN [journal[i] EXCEPT !.state = "settled"]
                                ELSE journal[i]]
           \/ /\ active # {} /\ Fault /\ FailAs("operational", "failed")
              /\ disk' \in {disk, narrowed} /\ UNCHANGED journal
        /\ OperationFrame /\ UNCHANGED temps

(* A memory directory that was just created is locked before the next      *)
(* operation; a writer that takes the path after that has to wait.         *)
EndOperation ==
    LET takes == ~locked /\ Target = Memory
    IN  /\ pc = "ended"
        /\ \/ ~takes /\ NoFault /\ Proceed("next") /\ UNCHANGED <<disk, locked, madeLock, lockSeen>>
           \/ /\ takes /\ NoFault /\ Proceed("next")
              /\ disk' = WithLockFile(disk) /\ locked' = TRUE /\ madeLock' = TRUE
              /\ lockSeen' = disk'[Lock]
           \/ /\ takes /\ Fault /\ FailAs("operational", "failed")
              /\ \/ disk' \in {disk, WithLockFile(disk)} /\ UNCHANGED <<locked, madeLock>>
                 \/ disk' = WithLockFile(disk) /\ locked' = TRUE /\ madeLock' = TRUE
              /\ UNCHANGED lockSeen
        /\ todo' = todo \ {Target}
        /\ UNCHANGED <<head, temps, stale, staging, case, approved, manifest, journal,
                       touched, edits, crashes>>

-----------------------------------------------------------------------------
(* Final validation, twice over. *)

(* Temporaries with the names this command gives them, whoever left them. *)
Residues == {p \in Owned : temps[p] # None} \cup stale

Forbidden == {Schema, Index, Pages}

(* Variant: pages nobody approved go unnoticed. *)
FinalNodesOnly ==
    LET c == manifest.candidate
    IN  /\ Residues = {}
        /\ \A p \in Owned : Exists(c, p) => SamePrestate(disk[p], c[p])
        /\ disk[Lock] = lockSeen

FinalStateApproved ==
    LET c == manifest.candidate
    IN  /\ Residues = {}
        /\ \A p \in Owned : Exists(c, p) => SamePrestate(disk[p], c[p])
        /\ manifest.mode = "minimal" => \A p \in Forbidden : ~Exists(disk, p)
        /\ manifest.mode = "full" => /\ ~Exists(disk, Flat)
                                     /\ \A p \in PagePaths : Exists(disk, p) <=> Exists(c, p)
        /\ disk[Lock] = lockSeen

Validate ==
    /\ pc = "next" /\ todo = {}
    /\ \/ FinalStateApproved /\ NoFault /\ Proceed("revalidating")
       \/ ~FinalStateApproved /\ NoFault /\ FailAs("usage", "failed")
       \/ Fault /\ FailAs("operational", "failed")
    /\ OperationFrame /\ UNCHANGED <<disk, temps, journal>>

Revalidate ==
    /\ pc = "revalidating"
    /\ \/ /\ FinalStateApproved /\ NoFault /\ pc' = "done" /\ locked' = FALSE
          /\ report' = [ok |-> TRUE, class |-> "success", layout |-> manifest.mode,
                        unresolved |-> {}]
       \/ ~FinalStateApproved /\ NoFault /\ FailAs("usage", "failed") /\ UNCHANGED locked
       \/ Fault /\ FailAs("operational", "failed") /\ UNCHANGED locked
    /\ UNCHANGED <<repo, staging, case, approved, manifest, todo, journal, madeLock, lockSeen,
                   touched, edits, crashes>>

-----------------------------------------------------------------------------
(* Rollback: the lock that came with the directory goes first, then the    *)
(* journal is undone from its end, past entries that cannot be.            *)

HandleFailure ==
    /\ pc = "failed" /\ pc' = "recovering"
    /\ \/ ~madeLock /\ NoFault /\ UNCHANGED <<disk, locked, lockSeen>>
       \/ /\ madeLock /\ locked' = FALSE /\ lockSeen' = Missing
          /\ \/ NoFault /\ disk' = [disk EXCEPT ![Lock] = Missing]
             \/ Fault /\ UNCHANGED disk
    /\ UNCHANGED <<head, temps, stale, staging, case, approved, manifest, todo, journal,
                   madeLock, report, touched, edits, crashes>>

(* Each of these is the repository after undoing an entry, and whether     *)
(* that restored what the entry changed.                                   *)
Undone(d, t, ok) == [disk |-> d, temps |-> t, ok |-> ok]

(* Variant: whatever is in the file this process created. *)
RecoverFileUnread(e) ==
    IF Ours(e.path) THEN Undone([disk EXCEPT ![e.path] = Missing], temps, TRUE)
    ELSE Undone(disk, temps, FALSE)

(* A created file goes if it is this process's and its contents are the    *)
(* empty ones it was opened with or the intended ones.                     *)
recover_created_file(e) ==
    LET p == e.path
        known == \/ disk[p].text = NoText /\ e.state = "identified"
                 \/ disk[p].text = manifest.candidate[p].text
    IN  IF Ours(p) /\ known THEN Undone([disk EXCEPT ![p] = Missing], temps, TRUE)
        ELSE Undone(disk, temps, FALSE)

Entries(p) == {q \in DOMAIN Parent : Parent[q] = p /\ Exists(disk, q)}
              \cup {q \in Residues : Parent[q] = p}

recover_created_directory(e) ==
    LET p == e.path
    IN  CASE e.state = "temporary" /\ temps[p] = "dir" ->
                Undone(disk, [temps EXCEPT ![p] = None], TRUE)
          [] e.state = "installed" /\ Ours(p) /\ Entries(p) = {} ->
                Undone([disk EXCEPT ![p] = Missing], temps, TRUE)
          [] OTHER -> Undone(disk, temps, FALSE)

(* A replacement is undone only over the file this process installed. *)
recover_replaced(e) ==
    LET p == e.path
        knownTemp == \/ temps[p] = NoText /\ e.state = "identified"
                     \/ temps[p] \in {None, manifest.candidate[p].text}
        swept == [temps EXCEPT ![p] = None]
        installed == e.state = "installed" /\ disk[p] = manifest.candidate[p]
    IN  CASE ~knownTemp -> Undone(disk, temps, FALSE)
          [] knownTemp /\ disk[p] = e.original -> Undone(disk, swept, TRUE)
          [] knownTemp /\ disk[p] # e.original /\ installed ->
                Undone([disk EXCEPT ![p] = [e.original EXCEPT !.by = "apply"]], swept, TRUE)
          [] knownTemp /\ disk[p] # e.original /\ ~installed -> Undone(disk, swept, FALSE)

recover_removed(e) ==
    IF Exists(disk, e.path) THEN Undone(disk, temps, FALSE)
    ELSE Undone([disk EXCEPT ![e.path] = [e.original EXCEPT !.by = "apply"]], temps, TRUE)

(* Variant: the operation is trusted to have restored the mode. *)
RecoverModeSkipped(e) == Undone(disk, temps, TRUE)

recover_parent_mode(e) ==
    Undone(IF e.state = "active" THEN [disk EXCEPT ![e.path].rw = FALSE] ELSE disk, temps, TRUE)

(* The directory an entry is about has to be there; see open_parent. *)
Recovered(e) ==
    LET parent == IF e.kind = "mode" THEN e.path ELSE Parent[e.path]
    IN  IF e.state # "settled" /\ disk[parent].kind # "dir" THEN Undone(disk, temps, FALSE)
        ELSE CASE e.kind = "file" -> recover_created_file(e)
               [] e.kind = "dir" -> recover_created_directory(e)
               [] e.kind = "replaced" -> recover_replaced(e)
               [] e.kind = "removed" -> recover_removed(e)
               [] e.kind = "mode" -> recover_parent_mode(e)

(* A failing call may stop an undo before it changed anything, after it    *)
(* did, with the parent left writable, with the restored file half made or *)
(* with its temporary left behind.                                         *)
Interrupted(e) ==
    LET u == Recovered(e)
    IN  {Undone(disk, temps, FALSE), Undone(u.disk, u.temps, FALSE)}
        \cup (IF e.kind # "mode"
              THEN {Undone([u.disk EXCEPT ![Parent[e.path]].rw = TRUE], u.temps, FALSE)}
              ELSE {})
        \cup (IF e.kind = "removed" /\ u.ok
              THEN {Undone([disk EXCEPT ![e.path] = File("torn", "apply")], temps, FALSE)}
              ELSE {})
        \cup (IF e.kind = "replaced" /\ u.ok /\ u.disk # disk
              THEN {Undone(disk, [temps EXCEPT ![e.path] = "torn"], FALSE)}
              ELSE {})

entry_report_path(e) ==
    IF e.kind = "dir" /\ e.state # "installed" THEN TempOf(e.path) ELSE At(e.path)

RecoverEntry ==
    LET e == Last(journal)
        Apply(u, class) ==
            /\ disk' = u.disk /\ temps' = u.temps
            /\ report' = [report EXCEPT
                  !.class = IF u.ok THEN @ ELSE dominant_exit_class(@, class),
                  !.unresolved = IF u.ok THEN @ ELSE @ \cup {entry_report_path(e)}]
    IN  /\ pc = "recovering" /\ journal # <<>>
        /\ \/ NoFault /\ Apply(Recovered(e), "usage")
           \/ /\ e.state # "settled" /\ Fault
              /\ \E u \in Interrupted(e) : Apply(u, "operational")
        /\ journal' = Front(journal)
        /\ UNCHANGED <<head, stale, staging, case, pc, approved, manifest, todo, locked, madeLock,
                       lockSeen, touched, edits, crashes>>

(* What is there in the end: an absent, minimal or full layout only when   *)
(* every owned node of it is valid and the lock file is as it was.         *)
classify_recovered_layout_once ==
    LET drift == IF disk[Lock] # lockSeen \/ Blocked(disk) THEN {At(Lock)} ELSE {}
        fragments == {p \in Forbidden : Exists(disk, p)}
    IN  CASE /\ drift = {} /\ lockSeen = Missing /\ ~Exists(disk, Memory)
             /\ inspect_policy(disk[AgentsMd]).heading_count = 0
                -> [layout |-> "absent", drift |-> {}]
          [] drift = {} /\ fragments = {} /\ validate_owned_candidate(disk, "minimal")
                -> [layout |-> "minimal", drift |-> {}]
          [] drift = {} /\ ~Exists(disk, Flat) /\ validate_owned_candidate(disk, "full")
                -> [layout |-> "full", drift |-> {}]
          [] OTHER -> [layout |-> "partial", drift |-> drift \cup {At(p) : p \in fragments}]

classify_recovered_layout ==
    IF Residues # {} THEN [layout |-> "partial", drift |-> {TempOf(p) : p \in Residues}]
    ELSE classify_recovered_layout_once

Classify ==
    LET found == classify_recovered_layout
        Finish(layout, drift, class) ==
            LET unresolved == report.unresolved \cup drift
            IN  report' = [report EXCEPT !.unresolved = unresolved, !.class = class,
                                         !.layout = IF unresolved = {} THEN layout ELSE "partial"]
    IN  /\ pc = "recovering" /\ journal = <<>>
        /\ \/ NoFault /\ Finish(found.layout, found.drift, report.class)
           \/ Fault /\ Finish("partial", {At(Root)}, "operational")
        /\ pc' = "done" /\ locked' = FALSE
        /\ UNCHANGED <<repo, staging, case, approved, manifest, todo, journal, madeLock, lockSeen,
                       touched, edits, crashes>>

-----------------------------------------------------------------------------
(* The environment. *)

(* Somebody saves, appends to, adds or deletes a file, or removes the empty *)
(* directory that was made a moment ago.  A file that this command has     *)
(* open for its first write is not appended to.                            *)
Edit(p) ==
    /\ pc \notin {"idle", "done", "crashed"} /\ Trouble /\ edits < MaxEdits
    /\ disk[Parent[p]].kind = "dir"
    /\ disk[p].kind = "dir" => pc = "dir-installed" /\ p = Target /\ Entries(p) = {}
    /\ disk' \in {[disk EXCEPT ![p] = File("foreign", "env")]}
                 \cup (IF disk[p].kind # "missing" THEN {[disk EXCEPT ![p] = Missing]} ELSE {})
                 \cup (IF disk[p].kind = "file" /\ ~(pc = "file-opened" /\ p = Target)
                       THEN {[disk EXCEPT ![p].text = "foreign"]} ELSE {})
    /\ touched' = touched \cup {p} /\ edits' = edits + 1
    /\ UNCHANGED <<head, temps, stale, staging, case, pc, approved, manifest, todo, journal,
                   locked, madeLock, lockSeen, report, faults, crashes>>

(* The process is killed: its journal, its lock and its report are gone. *)
Crash ==
    /\ pc \notin {"idle", "inspected", "planned", "done", "crashed"}
    /\ Trouble /\ crashes < MaxCrashes /\ crashes' = crashes + 1
    /\ pc' = "crashed"
    /\ stale' = stale \cup {p \in Owned : temps[p] # None}
    /\ temps' = NoTemps /\ staging' = "none" /\ journal' = <<>> /\ todo' = {}
    /\ locked' = FALSE /\ madeLock' = FALSE /\ report' = NoReport
    /\ UNCHANGED <<disk, head, case, approved, manifest, lockSeen, touched, edits, faults>>

(* Its user commits what it left, or restores the commit and removes       *)
(* untracked files, and runs init again.                                   *)
StartOver ==
    LET Adopted(d) == [p \in Paths |-> IF Exists(d, p) THEN [d[p] EXCEPT !.by = "repo"] ELSE d[p]]
        restored == [p \in Paths |->
                        CASE p = Lock /\ head[Memory].kind = "dir" -> disk[p]
                          [] head[p].kind = "dir" /\ disk[p].kind = "dir" -> disk[p]
                          [] OTHER -> head[p]]
    IN  /\ pc = "crashed" /\ pc' = "idle"
        /\ \/ disk' = Adopted(disk) /\ UNCHANGED stale
           \/ disk' = Adopted(restored) /\ stale' = {}
        /\ head' = disk' /\ manifest' = NoManifest /\ lockSeen' = Missing
        /\ UNCHANGED <<temps, staging, case, approved, todo, journal, locked, madeLock, report,
                       touched, edits, faults, crashes>>

Operation == \/ BeginOperation \/ MakeDirectory \/ IdentifyDirectory \/ InstallDirectory
             \/ OpenFile \/ FillFile \/ OpenTemporary \/ FillTemporary \/ InstallReplacement
             \/ RemoveFlat \/ VerifyDirectory \/ VerifyFile \/ VerifyReplacement \/ VerifyRemoved
             \/ RestoreParentMode \/ EndOperation

ApplyCommand == \/ ApplyStart \/ AcquireExistingLock \/ CheckPrestates \/ Operation
                \/ Validate \/ Revalidate \/ HandleFailure \/ RecoverEntry \/ Classify

Command == Inspect \/ Plan \/ CreateCandidateDir \/ CloseCandidateDir \/ ApplyCommand

Next == Command \/ (\E p \in EditPaths : Edit(p)) \/ Crash \/ StartOver

Spec == Init /\ [][Next]_vars

-----------------------------------------------------------------------------
(* Properties *)

Reported(p) == \E u \in report.unresolved :
                  u.path = p \/ (u.path \in DOMAIN Parent /\ Parent[u.path] = p)

(* An apply that failed is accounted for: every owned path is as it was    *)
(* inspected, or the environment touched it, or the report names it or an  *)
(* entry of it; the temporaries and the lock file it leaves are named, or  *)
(* the target they belong to, or the whole root if it cannot be read; and  *)
(* the layout is called anything but partial only when nothing is left     *)
(* unresolved, and then it is the one a fresh inspection finds, or the     *)
(* inspected one after an apply that changed none of it itself             *)
(* (apply_manifest_classified, recover, classify_recovered_layout).        *)
FailureIsAccounted ==
    pc = "done" /\ ~report.ok /\ manifest # NoManifest =>
        /\ \A p \in Owned : AsApproved(p) \/ p \in touched \/ Reported(p)
        /\ \A p \in Owned : temps[p] # None => {TempOf(p), At(p), At(Root)} \cap report.unresolved # {}
        /\ staging # "none" => TempOf(Root) \in report.unresolved
        /\ Exists(disk, Lock) => \/ approved.nodes[Memory].kind = "dir"
                                 \/ At(Lock) \in report.unresolved \/ Reported(Memory)
        /\ report.layout \in {"absent", "minimal", "full"} =>
               /\ report.unresolved = {}
               /\ \/ report.layout = LayoutOf(disk, stale)
                  \/ report.layout = initial_layout /\ \A p \in Owned \ touched : AsApproved(p)

(* An apply that reports success left exactly the approved candidate: each *)
(* of its nodes, no fragment of the other layout, no temporary, and every  *)
(* directory with the mode it had (finalize_and_validate).                 *)
SuccessIsApproved ==
    report.ok => /\ \A p \in Owned : SamePrestate(disk[p], manifest.candidate[p])
                 /\ \A p \in Dirs : approved.nodes[p].kind = "dir" => AsApproved(p)
                 /\ LayoutOf(disk, stale) = manifest.mode
                 /\ Residues = {} /\ Exists(disk, Lock)

(* No step of the command overwrites or removes what somebody else put in  *)
(* place of an approved file, or the directory it lies in, neither when it *)
(* installs nor when it rolls back (the prestate, binding and content      *)
(* checks of apply and recover).                                           *)
ForeignWorkSurvives ==
    [][\A p \in touched : disk[p].text = "foreign" /\ ~AsApproved(p) /\ Command =>
            disk'[p] = disk[p] /\ disk'[Parent[p]].kind = disk[Parent[p]].kind]_vars

(* What plan accepts, apply carries out: with nothing failing and nobody   *)
(* touching the repository since the inspection, no apply is refused or    *)
(* rolled back, unless an earlier one was killed and left a temporary.     *)
(* One thing plan does not look at: a wiki without a lock file in a        *)
(* directory that takes none, for which apply is bound to fail, before it  *)
(* changes anything (acquire_existing_memory_lock).                        *)
AcceptedPlanSucceeds ==
    manifest # NoManifest /\ faults = 0 /\ touched = {} /\ stale = {} =>
        IF approved.nodes[Memory].kind = "dir" => Lockable(approved.nodes)
        THEN report.class \in {None, "success"}
        ELSE /\ report.class \in {None, "operational"}
             /\ report.class = "operational" => \A p \in Paths : AsApproved(p)
=============================================================================
