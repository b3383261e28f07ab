--------------------------- MODULE IndexStoreProofs ---------------------------
(* Proofs about IndexStore, for every set of processes, projects, pages,   *)
(* requests and every bound.                                               *)
EXTENDS IndexStore, TLAPS

(* The parts of the invariant that a step of another process leaves alone. *)
LEMMA ProcessOKStable ==
    ASSUME NEW q \in Procs, ProcessOK(q), pc'[q] = pc[q], loc'[q] = loc[q]
    PROVE  ProcessOK(q)'
BY DEF ProcessOK, Present

(* Ending an operation keeps the types of what it changes. *)
LEMMA ReturnType ==
    ASSUME TypeOK, NEW p \in Procs, NEW r \in Results, Return(p, r)
    PROVE  /\ pc' \in [Procs -> Steps \cup {"idle", "done", "dead"}]
           /\ held' \in [Procs -> [ino : Nat, mode : {"shared", "exclusive"}] \cup {None}]
           /\ out' \in [Procs -> Results]
           /\ pc'[p] = "done"
           /\ \A q \in Procs \ {p} : pc'[q] = pc[q]
BY DEF TypeOK, Return

(* Going on keeps them too, and touches no other process. *)
LEMMA GotoType ==
    ASSUME TypeOK, NEW p \in Procs, NEW s \in Steps, Goto(p, s)
    PROVE  /\ pc' \in [Procs -> Steps \cup {"idle", "done", "dead"}]
           /\ out' \in [Procs -> Results]
           /\ pc'[p] = s
           /\ \A q \in Procs \ {p} : pc'[q] = pc[q]
BY DEF TypeOK, Goto

(* Published, spelled out. *)
LEMMA KeysOfMember ==
    ASSUME NEW docs, NEW k
    PROVE  k \in KeysOf(docs) <=> \E f \in Paths : docs[f] # None /\ k = docs[f].key
BY DEF KeysOf

(* A key is published when some document of some index has it. *)
LEMMA PublishedMember ==
    ASSUME NEW k
    PROVE  k \in Published <=>
             \E j \in Projects : \E f \in Paths : index[j].docs[f] # None /\ k = index[j].docs[f].key
<1>1. k \in Published <=> \E j \in Projects : k \in KeysOf(index[j].docs)
  BY DEF Published
<1> QED
  BY <1>1, KeysOfMember

(* The store starts well typed. *)
LEMMA TypeInit == Init => TypeOK
<1> SUFFICES ASSUME Init PROVE TypeOK
  OBVIOUS
<1> USE BoundsAssumption, ContentsAssumption
<1>1. source \in [Projects -> Corpus]
  BY DEF Init, Corpus, File
<1>2. index \in [Projects -> Index]
  BY DEF Init, Index, Doc, Keys
<1>3. cache \subseteq Keys
  <2>1. ASSUME NEW j \in Projects, NEW f \in Paths, index[j].docs[f] # None
        PROVE  index[j].docs[f].key \in Keys
    BY <1>2, <2>1 DEF Index, Doc
  <2> QED
    BY <2>1, PublishedMember DEF Init
<1>4. loc \in [Procs -> Loc]
  BY DEF Init, Loc, NoLoc
<1>5. \A p \in Procs : ProcessOK(p)
  BY DEF Init, ProcessOK, SyncSteps, PlannedSteps, ReadSteps
<1>6. /\ quarantines \in 0 .. MaxQuarantines /\ losses \in 0 .. MaxLosses /\ edits \in 0 .. MaxEdits
      /\ faults \in 0 .. MaxFaults /\ crashes \in 0 .. MaxCrashes
  BY DEF Init
<1>7. /\ held \in [Procs -> [ino : Nat, mode : {"shared", "exclusive"}] \cup {None}]
      /\ pc \in [Procs -> Steps \cup {"idle", "done", "dead"}]
      /\ out \in [Procs -> Results]
  BY DEF Init, Results
<1> QED
  BY <1>1, <1>2, <1>3, <1>4, <1>5, <1>6, <1>7 DEF Init, TypeOK

(* The type invariant, split as a process step changes it. *)
StoreOK ==
    /\ source \in [Projects -> Corpus]
    /\ index \in [Projects -> Index]
    /\ journal \subseteq Projects /\ damaged \in BOOLEAN /\ quarantines \in 0 .. MaxQuarantines
    /\ cache \subseteq Keys /\ lost \subseteq Keys
    /\ leaseIno \in Nat
    /\ losses \in 0 .. MaxLosses /\ edits \in 0 .. MaxEdits
    /\ faults \in 0 .. MaxFaults /\ crashes \in 0 .. MaxCrashes
HeldOK == held \in [Procs -> [ino : Nat, mode : {"shared", "exclusive"}] \cup {None}]
LocOK == loc \in [Procs -> Loc]

(* The parts follow from the whole. *)
LEMMA TypeParts ==
    ASSUME TypeOK PROVE StoreOK /\ HeldOK /\ LocOK
BY DEF TypeOK, StoreOK, HeldOK, LocOK

(* A process that returns. *)
LEMMA TypeReturn ==
    ASSUME TypeOK, NEW p \in Procs, NEW r \in Results, Return(p, r), StoreOK', loc' = loc
    PROVE  TypeOK'
<1>1. \A q \in Procs \ {p} : ProcessOK(q)'
  BY ReturnType, ProcessOKStable DEF TypeOK
<1>2. ProcessOK(p)'
  BY ReturnType DEF ProcessOK, SyncSteps, PlannedSteps, ReadSteps
<1> QED
  BY <1>1, <1>2, ReturnType DEF TypeOK, StoreOK

(* A process that goes on. *)
LEMMA TypeGoto ==
    ASSUME TypeOK, NEW p \in Procs, NEW s \in Steps, Goto(p, s), StoreOK', HeldOK', LocOK',
           \A q \in Procs \ {p} : loc'[q] = loc[q], ProcessOK(p)'
    PROVE  TypeOK'
<1>1. \A q \in Procs \ {p} : ProcessOK(q)'
  BY GotoType, ProcessOKStable DEF TypeOK
<1> QED
  BY <1>1, GotoType DEF TypeOK, StoreOK, HeldOK, LocOK

(* A process's own record is replaced. *)
LEMMA LocUpdate ==
    ASSUME TypeOK, NEW p \in Procs, NEW l \in Loc, loc' = [loc EXCEPT ![p] = l]
    PROVE  LocOK' /\ loc'[p] = l /\ \A q \in Procs \ {p} : loc'[q] = loc[q]
BY DEF TypeOK, LocOK

(* Counting a failing call, or none, keeps the counters in their bounds. *)
LEMMA FaultType ==
    ASSUME TypeOK, Fault \/ NoFault
    PROVE  /\ losses' \in 0 .. MaxLosses /\ edits' \in 0 .. MaxEdits
           /\ faults' \in 0 .. MaxFaults /\ crashes' \in 0 .. MaxCrashes
BY BoundsAssumption DEF TypeOK, Fault, NoFault, bounds

(* A step that leaves the store alone. *)
LEMMA StoreKept ==
    ASSUME TypeOK, Fault \/ NoFault, UNCHANGED <<source, store, leaseIno>>
    PROVE  StoreOK'
BY FaultType DEF TypeOK, StoreOK, store

(* A request leads to the first step of its operation. *)
LEMMA TypeStart ==
    ASSUME TypeOK, NEW p \in Procs, Start(p) PROVE TypeOK'
<1>1. PICK r \in Requests :
        /\ loc' = [loc EXCEPT ![p].req = r]
        /\ Goto(p, CASE r.op = "sync" -> "scan" [] r.op = "gc" -> "gc_lease"
                     [] r.op = "search" -> "open" [] r.op = "stats" -> "stats_lease")
  BY DEF Start
<1>2. LocOK' /\ loc'[p].req = r /\ \A q \in Procs \ {p} : loc'[q] = loc[q]
  <2>1. loc[p] \in Loc
    BY DEF TypeOK
  <2>2. [loc[p] EXCEPT !.req = r] \in Loc
    BY <2>1 DEF Loc
  <2>3. [loc[p] EXCEPT !.req = r].req = r
    BY <2>1 DEF Loc
  <2> QED
    BY <1>1, <2>2, <2>3, LocUpdate
<1>3. StoreOK' /\ HeldOK'
  BY StoreKept DEF Start, TypeOK, HeldOK
<1> DEFINE next == CASE r.op = "sync" -> "scan" [] r.op = "gc" -> "gc_lease"
                     [] r.op = "search" -> "open" [] r.op = "stats" -> "stats_lease"
<1>4. /\ next \in {"scan", "gc_lease", "open", "stats_lease"}
      /\ next = "scan" => r.op = "sync"
      /\ next \in {"open", "stats_lease"} => r.op \in {"search", "stats"}
  BY RequestsAssumption
<1> HIDE DEF next
<1>5. Goto(p, next) /\ next \in Steps
  BY <1>1, <1>4 DEF next, Steps, SyncSteps, GcSteps, ReadSteps
<1>6. pc'[p] = next
  BY <1>5, GotoType
<1>7. ProcessOK(p)'
  BY <1>2, <1>4, <1>6 DEF ProcessOK, SyncSteps, PlannedSteps, ReadSteps
<1> QED
  BY <1>2, <1>3, <1>5, <1>7, TypeGoto

(* The record of a process and the count of losses. *)
LEMMA OwnLoc ==
    ASSUME TypeOK, NEW p \in Procs PROVE loc[p] \in Loc /\ losses \in Nat
BY BoundsAssumption DEF TypeOK

(* What a synchronization and a reader may rely on. *)
LEMMA SyncFacts ==
    ASSUME TypeOK, NEW p \in Procs, pc[p] \in SyncSteps
    PROVE  /\ loc[p] \in Loc /\ Proj(p) \in Projects /\ loc[p].req \in Requests
           /\ loc[p].req.op = "sync" /\ loc[p].req.scheme \in Schemes
           /\ index[Proj(p)] \in Index /\ source[Proj(p)] \in Corpus
<1>1. ProcessOK(p) /\ loc[p] \in Loc
  BY DEF TypeOK
<1>2. loc[p].req \in Requests /\ loc[p].req.op = "sync"
  BY <1>1 DEF ProcessOK
<1>3. Proj(p) \in Projects /\ loc[p].req.scheme \in Schemes
  BY <1>2, RequestsAssumption DEF Proj
<1> QED
  BY <1>1, <1>2, <1>3 DEF TypeOK

(* A search or a report knows its project. *)
LEMMA ReadFacts ==
    ASSUME TypeOK, NEW p \in Procs, pc[p] \in ReadSteps
    PROVE  /\ loc[p] \in Loc /\ Proj(p) \in Projects /\ loc[p].req \in Requests
           /\ loc[p].req.op \in {"search", "stats"} /\ index[Proj(p)] \in Index
<1>1. ProcessOK(p) /\ loc[p] \in Loc
  BY DEF TypeOK
<1>2. loc[p].req \in Requests /\ loc[p].req.op \in {"search", "stats"}
  BY <1>1 DEF ProcessOK
<1>3. Proj(p) \in Projects
  BY <1>2, RequestsAssumption DEF Proj
<1> QED
  BY <1>1, <1>2, <1>3 DEF TypeOK

(* A planned synchronization has its scan, and texts for its pages. *)
LEMMA ScanFacts ==
    ASSUME TypeOK, NEW p \in Procs, pc[p] \in PlannedSteps
    PROVE  /\ loc[p].scan \in Corpus /\ loc[p].docs \in [Paths -> Doc \cup {None}]
           /\ loc[p].upserts \cup loc[p].metas \cup loc[p].refs \subseteq Present(p)
           /\ \A f \in Present(p) : /\ f \in Paths /\ loc[p].scan.files[f].content \in Contents
                                    /\ loc[p].scan.files[f].stamp \in Nat
           /\ \A f \in loc[p].upserts : KeyFor(p, f) \in Keys
<1>1. ProcessOK(p)
  BY DEF TypeOK
<1>2. /\ loc[p].scan \in Corpus /\ loc[p].docs \in [Paths -> Doc \cup {None}]
      /\ loc[p].upserts \cup loc[p].metas \cup loc[p].refs \subseteq Present(p)
  BY <1>1 DEF ProcessOK, SyncSteps, PlannedSteps
<1>3. ASSUME NEW f \in Present(p)
      PROVE  /\ f \in Paths /\ loc[p].scan.files[f].content \in Contents
             /\ loc[p].scan.files[f].stamp \in Nat
  BY <1>2 DEF Present, Corpus, File
<1>4. loc[p].req.scheme \in Schemes
  BY SyncFacts DEF SyncSteps
<1> QED
  BY <1>2, <1>3, <1>4 DEF KeyFor, Keys

(* What it asks of the cache are keys. *)
LEMMA RequestedType ==
    ASSUME TypeOK, NEW p \in Procs, pc[p] \in PlannedSteps
    PROVE  Requested(p) \subseteq Keys
BY ScanFacts DEF Requested

(* The scan: captured, or a corpus that could not be read. *)
LEMMA TypeScan ==
    ASSUME TypeOK, NEW p \in Procs, Scan(p) PROVE TypeOK'
<1> USE DEF Scan
<1>1. pc[p] = "scan" /\ pc[p] \in SyncSteps /\ "plan" \in Steps
  BY DEF Steps, SyncSteps
<1>2. loc[p] \in Loc /\ source[Proj(p)] \in Corpus /\ loc[p].req \in Requests /\ loc[p].req.op = "sync"
  BY <1>1, SyncFacts
<1>3. PICK b \in BOOLEAN, c \in Corpus : loc' = [loc EXCEPT ![p] = [loc[p] EXCEPT !.root = b, !.scan = c]]
  <2>1. CASE loc' = [loc EXCEPT ![p].scan = source[Proj(p)]]
    <3>1. loc[p].root \in BOOLEAN /\ [loc[p] EXCEPT !.root = loc[p].root, !.scan = source[Proj(p)]]
             = [loc[p] EXCEPT !.scan = source[Proj(p)]]
      BY <1>2 DEF Loc
    <3> QED
      BY <1>2, <2>1, <3>1
  <2>2. CASE loc' = [loc EXCEPT ![p].root = FALSE,
                       ![p].scan = [source[Proj(p)] EXCEPT !.files = [f \in Paths |-> None]]]
    <3>1. [source[Proj(p)] EXCEPT !.files = [f \in Paths |-> None]] \in Corpus
      BY <1>2 DEF Corpus
    <3>2. loc' = [loc EXCEPT ![p] = [loc[p] EXCEPT !.root = FALSE,
                       !.scan = [source[Proj(p)] EXCEPT !.files = [f \in Paths |-> None]]]]
      BY <2>2 DEF TypeOK
    <3> QED
      BY <3>1, <3>2
  <2> QED
    BY <2>1, <2>2
<1> DEFINE l == [loc[p] EXCEPT !.root = b, !.scan = c]
<1>4. l \in Loc /\ l.req = loc[p].req /\ l.scan = c
  BY <1>2 DEF Loc
<1> HIDE DEF l
<1>5. LocOK' /\ loc'[p] = l /\ \A q \in Procs \ {p} : loc'[q] = loc[q]
  BY <1>3, <1>4, LocUpdate DEF l
<1>6. StoreOK' /\ HeldOK' /\ pc'[p] = "plan"
  BY <1>1, StoreKept, GotoType DEF TypeOK, HeldOK
<1>7. ProcessOK(p)'
  BY <1>2, <1>4, <1>5, <1>6 DEF ProcessOK, SyncSteps, PlannedSteps, ReadSteps
<1> QED
  BY <1>1, <1>5, <1>6, <1>7, TypeGoto

(* Planning reads the generation. *)
LEMMA TypePlanOpen ==
    ASSUME TypeOK, NEW p \in Procs, PlanOpen(p) PROVE TypeOK'
<1> USE DEF PlanOpen
<1>1. pc[p] = "plan" /\ pc[p] \in SyncSteps \ {"scan"} /\ "plan_scheme" \in Steps /\ "busy" \in Results
  BY DEF Steps, SyncSteps, Results
<1>2. /\ loc[p] \in Loc /\ index[Proj(p)] \in Index
      /\ loc[p].req \in Requests /\ loc[p].req.op = "sync" /\ loc[p].scan \in Corpus
  BY <1>1, SyncFacts DEF TypeOK, ProcessOK
<1>3. StoreOK'
  BY StoreKept
<1>4. CASE Proj(p) \in journal
  BY <1>1, <1>3, <1>4, TypeReturn
<1>5. CASE Proj(p) \notin journal
  <2> DEFINE l == [loc[p] EXCEPT !.gen = index[Proj(p)].gen]
  <2>1. l \in Loc /\ l.req = loc[p].req /\ l.scan = loc[p].scan
    BY <1>2 DEF Loc, Index
  <2>2. loc' = [loc EXCEPT ![p] = l]
    BY <1>5 DEF TypeOK
  <2> HIDE DEF l
  <2>3. LocOK' /\ loc'[p] = l /\ \A q \in Procs \ {p} : loc'[q] = loc[q]
    BY <2>1, <2>2, LocUpdate
  <2>4. HeldOK' /\ pc'[p] = "plan_scheme"
    BY <1>1, <1>5, GotoType DEF TypeOK, HeldOK
  <2>5. ProcessOK(p)'
    BY <1>2, <2>1, <2>3, <2>4 DEF ProcessOK, SyncSteps, PlannedSteps, ReadSteps
  <2> QED
    BY <1>1, <1>3, <1>5, <2>3, <2>4, <2>5, TypeGoto
<1> QED
  BY <1>4, <1>5

(* Planning reads the scheme. *)
LEMMA TypePlanScheme ==
    ASSUME TypeOK, NEW p \in Procs, PlanScheme(p) PROVE TypeOK'
<1> USE DEF PlanScheme
<1>1. pc[p] = "plan_scheme" /\ pc[p] \in SyncSteps \ {"scan"} /\ "plan_docs" \in Steps
  BY DEF Steps, SyncSteps
<1>2. /\ loc[p] \in Loc /\ index[Proj(p)] \in Index
      /\ loc[p].req \in Requests /\ loc[p].req.op = "sync" /\ loc[p].scan \in Corpus
  BY <1>1, SyncFacts DEF TypeOK, ProcessOK
<1>3. StoreOK'
  BY FaultType DEF TypeOK, StoreOK
<1> DEFINE l == [loc[p] EXCEPT !.scheme = index[Proj(p)].scheme]
<1>4. l \in Loc /\ l.req = loc[p].req /\ l.scan = loc[p].scan
  BY <1>2 DEF Loc, Index
<1>5. loc' = [loc EXCEPT ![p] = l]
  BY DEF TypeOK
<1> HIDE DEF l
<1>6. LocOK' /\ loc'[p] = l /\ \A q \in Procs \ {p} : loc'[q] = loc[q]
  BY <1>4, <1>5, LocUpdate
<1>7. HeldOK' /\ pc'[p] = "plan_docs"
  BY <1>1, GotoType DEF TypeOK, HeldOK
<1>8. ProcessOK(p)'
  BY <1>2, <1>4, <1>6, <1>7 DEF ProcessOK, SyncSteps, PlannedSteps, ReadSteps
<1> QED
  BY <1>1, <1>3, <1>6, <1>7, <1>8, TypeGoto

(* Planning reads the documents and divides the pages. *)
LEMMA TypePlanDocs ==
    ASSUME TypeOK, NEW p \in Procs, PlanDocs(p) PROVE TypeOK'
<1> USE DEF PlanDocs
<1> DEFINE docs == index[Proj(p)].docs
<1>1. /\ pc[p] = "plan_docs" /\ pc[p] \in SyncSteps \ {"scan"} /\ "exec" \in Steps
      /\ {"refused", "failed", "changed"} \subseteq Results
  BY DEF Steps, SyncSteps, PlannedSteps, Results
<1>2. /\ loc[p] \in Loc /\ index[Proj(p)] \in Index
      /\ loc[p].req \in Requests /\ loc[p].req.op = "sync" /\ loc[p].scan \in Corpus
  BY <1>1, SyncFacts DEF TypeOK, ProcessOK
<1>3. StoreOK'
  BY FaultType DEF TypeOK, StoreOK
<1>4. docs \in [Paths -> Doc \cup {None}]
  BY <1>2 DEF Index
<1> HIDE DEF docs
<1>5. /\ Present(p) \subseteq Paths /\ Stale(p, docs) \subseteq Present(p)
      /\ Touched(p, docs) \subseteq Present(p) /\ Absent(p, docs) \subseteq Paths
      /\ Unchanged(p, docs) \subseteq Present(p)
  BY DEF Present, Stale, Touched, Absent, Existing, Unchanged, MissingRefs
<1>6. CASE \E r \in {"refused", "failed", "changed"} : Return(p, r) /\ UNCHANGED loc
  BY <1>1, <1>3, <1>6, TypeReturn
<1>7. CASE /\ loc' = [loc EXCEPT ![p].docs = docs,
                 ![p].upserts = Stale(p, docs), ![p].metas = Touched(p, docs),
                 ![p].deletions = Absent(p, docs), ![p].refs = Unchanged(p, docs)]
           /\ Goto(p, "exec") /\ UNCHANGED held
  <2> DEFINE l == [loc[p] EXCEPT !.docs = docs,
                 !.upserts = Stale(p, docs), !.metas = Touched(p, docs),
                 !.deletions = Absent(p, docs), !.refs = Unchanged(p, docs)]
  <2>1. l \in Loc
    BY <1>2, <1>4, <1>5 DEF Loc
  <2>2. /\ l.req = loc[p].req /\ l.scan = loc[p].scan /\ l.docs = docs
        /\ l.upserts = Stale(p, docs) /\ l.metas = Touched(p, docs) /\ l.refs = Unchanged(p, docs)
    BY <1>2 DEF Loc
  <2>3. loc' = [loc EXCEPT ![p] = l]
    BY <1>7 DEF TypeOK
  <2> HIDE DEF l
  <2>4. LocOK' /\ loc'[p] = l /\ \A q \in Procs \ {p} : loc'[q] = loc[q]
    BY <2>1, <2>3, LocUpdate
  <2>5. HeldOK' /\ pc'[p] = "exec"
    BY <1>1, <1>7, GotoType DEF TypeOK, HeldOK
  <2>6. Present(p)' = Present(p)
    BY <2>2, <2>4 DEF Present
  <2>7. ProcessOK(p)'
    BY <1>2, <1>4, <1>5, <2>2, <2>4, <2>5, <2>6 DEF ProcessOK, SyncSteps, PlannedSteps, ReadSteps
  <2> QED
    BY <1>1, <1>3, <1>7, <2>4, <2>5, <2>7, TypeGoto
<1> QED
  BY <1>6, <1>7 DEF docs

(* A planned synchronization goes on with the plan it has. *)
LEMMA TypePlanned ==
    ASSUME TypeOK, NEW p \in Procs, pc[p] \in PlannedSteps,
           NEW s \in PlannedSteps, Goto(p, s), StoreOK', HeldOK', loc' = loc,
           s \in {"final", "commit"} => loc[p].gen < MaxGen
    PROVE  TypeOK'
<1>1. s \in Steps
  BY DEF Steps, SyncSteps
<1>2. pc'[p] = s /\ loc'[p] = loc[p] /\ LocOK' /\ \A q \in Procs \ {p} : loc'[q] = loc[q]
  BY <1>1, GotoType DEF TypeOK, LocOK
<1>3. Present(p)' = Present(p)
  BY <1>2 DEF Present
<1>4. ProcessOK(p)'
  BY <1>2, <1>3, SyncFacts, ScanFacts DEF ProcessOK, SyncSteps, PlannedSteps, ReadSteps
<1> QED
  BY <1>1, <1>2, <1>4, TypeGoto

(* The same when the step also changes the process's record, but neither   *)
(* request nor scan.                                                       *)
LEMMA TypeReplanned ==
    ASSUME TypeOK, NEW p \in Procs, pc[p] \in PlannedSteps,
           NEW s \in PlannedSteps \ {"final", "commit"}, Goto(p, s), StoreOK', HeldOK',
           NEW l \in Loc, loc' = [loc EXCEPT ![p] = l],
           l.req = loc[p].req, l.scan = loc[p].scan, l.docs = loc[p].docs,
           l.upserts \cup l.metas \cup l.refs \subseteq Present(p)
    PROVE  TypeOK'
<1>1. s \in Steps
  BY DEF Steps, SyncSteps
<1>2. LocOK' /\ loc'[p] = l /\ (\A q \in Procs \ {p} : loc'[q] = loc[q]) /\ pc'[p] = s
  BY <1>1, LocUpdate, GotoType
<1>3. Present(p)' = Present(p)
  BY <1>2 DEF Present
<1>4. ProcessOK(p)'
  BY <1>2, <1>3, SyncFacts, ScanFacts DEF ProcessOK, SyncSteps, PlannedSteps, ReadSteps
<1> QED
  BY <1>1, <1>2, <1>4, TypeGoto

(* A step that changes its record and returns. *)
LEMMA TypeReturnWith ==
    ASSUME TypeOK, NEW p \in Procs, NEW r \in Results, Return(p, r), StoreOK',
           NEW l \in Loc, loc' = [loc EXCEPT ![p] = l]
    PROVE  TypeOK'
<1>1. LocOK' /\ loc'[p] = l /\ \A q \in Procs \ {p} : loc'[q] = loc[q]
  BY LocUpdate
<1>2. \A q \in Procs \ {p} : ProcessOK(q)'
  BY <1>1, ReturnType, ProcessOKStable DEF TypeOK
<1>3. ProcessOK(p)'
  BY ReturnType DEF ProcessOK, SyncSteps, PlannedSteps, ReadSteps
<1> QED
  BY <1>1, <1>2, <1>3, ReturnType DEF TypeOK, StoreOK, LocOK

(* The preconditions at the start of execution. *)
LEMMA TypeExecCheck ==
    ASSUME TypeOK, NEW p \in Procs, ExecCheck(p) PROVE TypeOK'
<1> USE DEF ExecCheck
<1>1. /\ pc[p] = "exec" /\ pc[p] \in PlannedSteps
      /\ {"recheck", "embed"} \subseteq PlannedSteps \ {"final", "commit"}
      /\ {"busy", "changed", "ok"} \subseteq Results
  BY DEF PlannedSteps, Results
<1>2. StoreOK'
  BY StoreKept
<1>3. CASE \E r \in {"busy", "changed"} : Return(p, r) /\ UNCHANGED loc
  BY <1>1, <1>2, <1>3, TypeReturn
<1>4. CASE /\ loc' = [loc EXCEPT ![p].losses = losses]
           /\ \/ (Goto(p, "recheck") \/ Goto(p, "embed")) /\ UNCHANGED held
              \/ Return(p, "ok")
  <2> DEFINE l == [loc[p] EXCEPT !.losses = losses]
  <2>1. loc[p] \in Loc /\ losses \in Nat
    BY OwnLoc
  <2>2. l \in Loc
    BY <2>1 DEF Loc
  <2>3. /\ l.req = loc[p].req /\ l.scan = loc[p].scan /\ l.docs = loc[p].docs
        /\ l.upserts = loc[p].upserts /\ l.metas = loc[p].metas /\ l.refs = loc[p].refs
    BY <2>1 DEF Loc
  <2>4. loc' = [loc EXCEPT ![p] = l]
    BY <1>4 DEF TypeOK
  <2> HIDE DEF l
  <2>5. l.upserts \cup l.metas \cup l.refs \subseteq Present(p)
    BY <1>1, <2>3, ScanFacts
  <2>6. CASE (Goto(p, "recheck") \/ Goto(p, "embed")) /\ UNCHANGED held
    <3>1. HeldOK'
      BY <2>6 DEF TypeOK, HeldOK
    <3> QED
      BY <1>1, <1>2, <2>2, <2>3, <2>4, <2>5, <2>6, <3>1, TypeReplanned
  <2>7. CASE Return(p, "ok")
    BY <1>1, <1>2, <2>2, <2>4, <2>7, TypeReturnWith
  <2> QED
    BY <1>4, <2>6, <2>7
<1> QED
  BY <1>3, <1>4

(* The vectors of unchanged pages are looked up again. *)
LEMMA TypeRecheck ==
    ASSUME TypeOK, NEW p \in Procs, Recheck(p) PROVE TypeOK'
<1> USE DEF Recheck
<1>1. /\ pc[p] = "recheck" /\ pc[p] \in PlannedSteps
      /\ "embed" \in PlannedSteps \ {"final", "commit"}
      /\ {"busy", "failed", "ok"} \subseteq Results
  BY DEF PlannedSteps, Results
<1>2. StoreOK'
  BY StoreKept
<1>3. CASE \E r \in {"busy", "failed"} : Return(p, r) /\ UNCHANGED loc
  BY <1>1, <1>2, <1>3, TypeReturn
<1> DEFINE gone == {f \in loc[p].refs : loc[p].docs[f].key \notin cache}
           ups == loc[p].upserts \cup gone
           metas == loc[p].metas \ gone
<1>4. CASE /\ loc' = [loc EXCEPT ![p].upserts = ups, ![p].metas = metas, ![p].losses = losses]
           /\ \/ Goto(p, "embed") /\ UNCHANGED held
              \/ Return(p, "ok")
  <2>1. loc[p] \in Loc /\ losses \in Nat
    BY OwnLoc
  <2>2. ups \cup metas \cup loc[p].refs \subseteq Present(p) /\ Present(p) \subseteq Paths
    BY <1>1, ScanFacts
  <2> HIDE DEF ups, metas
  <2> DEFINE l == [loc[p] EXCEPT !.upserts = ups, !.metas = metas, !.losses = losses]
  <2>3. l \in Loc
    BY <2>1, <2>2 DEF Loc
  <2>4. /\ l.req = loc[p].req /\ l.scan = loc[p].scan /\ l.docs = loc[p].docs
        /\ l.upserts = ups /\ l.metas = metas /\ l.refs = loc[p].refs
    BY <2>1 DEF Loc
  <2>5. loc' = [loc EXCEPT ![p] = l]
    BY <1>4 DEF TypeOK
  <2> HIDE DEF l
  <2>6. CASE Goto(p, "embed") /\ UNCHANGED held
    <3>1. HeldOK'
      BY <2>6 DEF TypeOK, HeldOK
    <3> QED
      BY <1>1, <1>2, <2>2, <2>3, <2>4, <2>5, <2>6, <3>1, TypeReplanned
  <2>7. CASE Return(p, "ok")
    BY <1>1, <1>2, <2>3, <2>5, <2>7, TypeReturnWith
  <2> QED
    BY <1>4, <2>6, <2>7
<1> QED
  BY <1>3, <1>4

(* Lookup and embedding outside the lease. *)
LEMMA TypeEmbed ==
    ASSUME TypeOK, NEW p \in Procs, Embed(p) PROVE TypeOK'
<1> USE DEF Embed
<1>1. /\ pc[p] = "embed" /\ pc[p] \in PlannedSteps
      /\ "lease" \in PlannedSteps \ {"final", "commit"}
      /\ {"changed", "failed"} \subseteq Results
  BY DEF PlannedSteps, Results
<1>2. StoreOK'
  BY StoreKept
<1>3. CASE \E r \in {"changed", "failed"} : Return(p, r) /\ UNCHANGED loc
  BY <1>1, <1>2, <1>3, TypeReturn
<1>4. CASE /\ loc' = [loc EXCEPT ![p].missing = Requested(p) \ cache]
           /\ Goto(p, "lease") /\ UNCHANGED held
  <2> DEFINE l == [loc[p] EXCEPT !.missing = Requested(p) \ cache]
  <2>1. loc[p] \in Loc /\ Requested(p) \ cache \in SUBSET Keys
    BY <1>1, RequestedType DEF TypeOK
  <2>2. l \in Loc
    BY <2>1 DEF Loc
  <2>3. /\ l.req = loc[p].req /\ l.scan = loc[p].scan /\ l.docs = loc[p].docs
        /\ l.upserts = loc[p].upserts /\ l.metas = loc[p].metas /\ l.refs = loc[p].refs
    BY <2>1 DEF Loc
  <2>4. loc' = [loc EXCEPT ![p] = l]
    BY <1>4 DEF TypeOK
  <2> HIDE DEF l
  <2>5. HeldOK' /\ l.upserts \cup l.metas \cup l.refs \subseteq Present(p)
    BY <1>1, <1>4, <2>3, ScanFacts DEF TypeOK, HeldOK
  <2> QED
    BY <1>1, <1>2, <1>4, <2>2, <2>3, <2>4, <2>5, TypeReplanned
<1> QED
  BY <1>3, <1>4

(* Taking the lease, in either mode. *)
LEMMA TypeAcquire ==
    ASSUME TypeOK, NEW p \in Procs, NEW step, NEW mode \in {"shared", "exclusive"}, NEW next,
           AcquireLease(p, step, mode, next)
    PROVE  /\ StoreOK' /\ HeldOK' /\ loc' = loc /\ pc[p] = step
           /\ Goto(p, next) \/ (Return(p, "busy") /\ TypeOK')
<1> USE DEF AcquireLease
<1>1. StoreOK' /\ loc' = loc /\ pc[p] = step
  BY StoreKept
<1>2. CASE Return(p, "busy")
  BY <1>1, <1>2, ReturnType, TypeReturn DEF Results, HeldOK
<1>3. CASE Goto(p, next) /\ held' = [held EXCEPT ![p] = [ino |-> leaseIno, mode |-> mode]]
  BY <1>1, <1>3 DEF TypeOK, HeldOK
<1> QED
  BY <1>1, <1>2, <1>3

(* A synchronization takes the lease. *)
LEMMA TypeSyncLease ==
    ASSUME TypeOK, NEW p \in Procs, SyncLease(p) PROVE TypeOK'
<1>1. /\ StoreOK' /\ HeldOK' /\ loc' = loc /\ pc[p] = "lease"
      /\ Goto(p, "insert") \/ TypeOK'
  BY TypeAcquire DEF SyncLease
<1>2. {"lease", "insert"} \subseteq PlannedSteps
  BY DEF PlannedSteps
<1> QED
  BY <1>1, <1>2, TypePlanned

(* There is nothing to collect. *)
LEMMA TypeGcAbsent ==
    ASSUME TypeOK, NEW p \in Procs, GcAbsent(p) PROVE TypeOK'
<1>1. StoreOK'
  BY StoreKept DEF GcAbsent
<1> QED
  BY <1>1, TypeReturn DEF GcAbsent, Results

(* A collection takes the lease. *)
LEMMA TypeGcLease ==
    ASSUME TypeOK, NEW p \in Procs, GcLease(p) PROVE TypeOK'
<1>1. /\ StoreOK' /\ HeldOK' /\ loc' = loc
      /\ Goto(p, "gc_initial") \/ TypeOK'
  BY TypeAcquire DEF GcLease
<1>2. CASE Goto(p, "gc_initial")
  <2>1. "gc_initial" \in Steps
    BY DEF Steps, GcSteps
  <2>2. ProcessOK(p)'
    BY <1>2, <2>1, GotoType DEF ProcessOK, SyncSteps, PlannedSteps, ReadSteps
  <2> QED
    BY <1>1, <1>2, <2>1, <2>2, TypeGoto DEF TypeOK, LocOK
<1> QED
  BY <1>1, <1>2

(* Vectors are inserted under the lease. *)
LEMMA TypeInsertVectors ==
    ASSUME TypeOK, NEW p \in Procs, InsertVectors(p) PROVE TypeOK'
<1> USE DEF InsertVectors
<1>1. pc[p] = "insert" /\ {"insert", "begin"} \subseteq PlannedSteps
  BY DEF PlannedSteps
<1>2. cache' \subseteq Keys /\ lost' \subseteq Keys
  BY <1>1, RequestedType DEF TypeOK
<1>3. StoreOK'
  BY <1>2, FaultType DEF TypeOK, StoreOK
<1>4. CASE \E r \in {"busy", "changed", "failed"} : Return(p, r)
  BY <1>3, <1>4, TypeReturn DEF Results
<1>5. CASE Goto(p, "begin") /\ UNCHANGED held
  <2>1. HeldOK'
    BY <1>5 DEF TypeOK, HeldOK
  <2> QED
    BY <1>1, <1>3, <1>5, <2>1, TypePlanned
<1> QED
  BY <1>4, <1>5

(* The transaction opens; the next generation exists. *)
LEMMA TypeBegin ==
    ASSUME TypeOK, NEW p \in Procs, Begin(p) PROVE TypeOK'
<1> USE DEF Begin
<1>1. pc[p] = "begin" /\ {"begin", "final"} \subseteq PlannedSteps
  BY DEF PlannedSteps
<1>2. Proj(p) \in Projects /\ loc[p] \in Loc
  BY <1>1, SyncFacts DEF SyncSteps
<1>3. StoreOK'
  BY <1>2, FaultType DEF TypeOK, StoreOK
<1>4. CASE \E r \in {"busy", "changed", "failed"} : Return(p, r)
  BY <1>3, <1>4, TypeReturn DEF Results
<1>5. CASE Goto(p, "final") /\ UNCHANGED held /\ loc[p].gen # MaxGen
  <2>1. HeldOK'
    BY <1>5 DEF TypeOK, HeldOK
  <2>2. loc[p].gen < MaxGen
    BY <1>2, <1>5, BoundsAssumption DEF Loc
  <2> QED
    BY <1>1, <1>3, <1>5, <2>1, <2>2, TypePlanned
<1> QED
  BY <1>4, <1>5

(* The last revalidation. *)
LEMMA TypeFinal ==
    ASSUME TypeOK, NEW p \in Procs, FinalRevalidation(p) PROVE TypeOK'
<1> USE DEF FinalRevalidation
<1>1. pc[p] = "final" /\ {"final", "commit"} \subseteq PlannedSteps
  BY DEF PlannedSteps
<1>2. loc[p].gen < MaxGen
  BY <1>1 DEF TypeOK, ProcessOK
<1>3. StoreOK'
  BY FaultType DEF TypeOK, StoreOK
<1>4. CASE \E r \in {"busy", "changed"} : Return(p, r)
  BY <1>3, <1>4, TypeReturn DEF Results
<1>5. CASE Goto(p, "commit") /\ UNCHANGED held
  <2>1. HeldOK'
    BY <1>5 DEF TypeOK, HeldOK
  <2> QED
    BY <1>1, <1>2, <1>3, <1>5, <2>1, TypePlanned
<1> QED
  BY <1>4, <1>5

(* What a commit writes is an index. *)
LEMMA NewDocType ==
    ASSUME TypeOK, NEW p \in Procs, pc[p] = "commit", NEW f \in Paths
    PROVE  NewDoc(p, f) \in Doc \cup {None}
<1>1. pc[p] \in PlannedSteps /\ pc[p] \in SyncSteps
  BY DEF PlannedSteps, SyncSteps
<1> DEFINE file == loc[p].scan.files[f]
           old == index[Proj(p)].docs[f]
<1>2. old \in Doc \cup {None}
  BY <1>1, SyncFacts DEF Index
<1>3. f \in loc[p].upserts \cup loc[p].metas => file.content \in Contents /\ file.stamp \in Nat
  BY <1>1, ScanFacts
<1>4. f \in loc[p].upserts => KeyFor(p, f) \in Keys
  BY <1>1, ScanFacts
<1> HIDE DEF file, old
<1>5. NewDoc(p, f) = IF f \in loc[p].upserts
       THEN [hash |-> file.content, key |-> KeyFor(p, f), stamp |-> file.stamp]
       ELSE IF Full(p) \/ f \in loc[p].deletions \/ old = None THEN None
       ELSE IF f \in loc[p].metas
       THEN [old EXCEPT !.hash = file.content, !.stamp = file.stamp]
       ELSE old
  BY DEF NewDoc, file, old
<1>6. CASE f \in loc[p].upserts
  BY <1>3, <1>4, <1>5, <1>6 DEF Doc
<1>7. CASE f \notin loc[p].upserts /\ NewDoc(p, f) \in {None, old}
  BY <1>2, <1>7
<1>8. CASE f \in loc[p].metas /\ old # None
           /\ NewDoc(p, f) = [old EXCEPT !.hash = file.content, !.stamp = file.stamp]
  <2>1. old \in Doc
    BY <1>2, <1>8
  <2> QED
    BY <1>3, <1>8, <2>1 DEF Doc
<1> QED
  BY <1>5, <1>6, <1>7, <1>8

(* The commit, which advances the generation. *)
LEMMA TypeCommit ==
    ASSUME TypeOK, NEW p \in Procs, Commit(p) PROVE TypeOK'
<1> USE DEF Commit
<1>1. pc[p] = "commit" /\ pc[p] \in SyncSteps /\ loc[p].gen < MaxGen
  BY DEF SyncSteps, PlannedSteps, TypeOK, ProcessOK
<1>2. loc[p] \in Loc /\ loc[p].req.scheme \in Schemes
  BY <1>1, SyncFacts
<1>3. index' \in [Projects -> Index]
  <2> DEFINE new == [gen |-> loc[p].gen + 1, scheme |-> loc[p].req.scheme,
                     docs |-> [f \in Paths |-> NewDoc(p, f)]]
  <2>1. [f \in Paths |-> NewDoc(p, f)] \in [Paths -> Doc \cup {None}]
    BY <1>1, NewDocType
  <2>2. loc[p].gen + 1 \in 0 .. MaxGen
    BY <1>1, <1>2, BoundsAssumption DEF Loc
  <2>3. new \in Index
    BY <1>2, <2>1, <2>2 DEF Index
  <2> HIDE DEF new
  <2>4. UNCHANGED index \/ index' = [index EXCEPT ![Proj(p)] = new]
    BY DEF Publish, new
  <2> QED
    BY <2>3, <2>4 DEF TypeOK
<1>4. StoreOK'
  BY <1>3, FaultType DEF TypeOK, StoreOK
<1> QED
  BY <1>4, TypeReturn DEF Results

(* A collection reads the cache or sets it aside. *)
LEMMA TypeGcInitial ==
    ASSUME TypeOK, NEW p \in Procs, GcInitial(p) PROVE TypeOK'
<1> USE DEF GcInitial
<1>1. StoreOK'
  <2>1. quarantines \in 0 .. MaxQuarantines /\ MaxQuarantines \in Nat /\ damaged \in BOOLEAN
    BY BoundsAssumption DEF TypeOK
  <2>2. \/ quarantines' = quarantines
        \/ quarantines < MaxQuarantines /\ quarantines' = quarantines + 1
    OBVIOUS
  <2>3. quarantines' \in 0 .. MaxQuarantines
    BY <2>1, <2>2
  <2>4. damaged' \in BOOLEAN
    BY <2>1, Zenon
  <2> QED
    BY <2>3, <2>4, FaultType DEF TypeOK, StoreOK
<1>2. "gc_first" \in Steps
  BY DEF Steps, GcSteps
<1>3. CASE Return(p, "failed") /\ UNCHANGED loc
  BY <1>1, <1>3, TypeReturn DEF Results
<1>4. CASE Goto(p, "gc_first") /\ UNCHANGED held
           /\ (loc' = [loc EXCEPT ![p].initial = cache] \/ UNCHANGED loc)
  <2>1. loc[p] \in Loc /\ cache \in SUBSET Keys
    BY DEF TypeOK
  <2>2. [loc[p] EXCEPT !.initial = cache] \in Loc
    BY <2>1 DEF Loc
  <2>3. LocOK' /\ \A q \in Procs \ {p} : loc'[q] = loc[q]
    <3>1. CASE loc' = [loc EXCEPT ![p].initial = cache]
      BY <2>2, <3>1, LocUpdate
    <3>2. CASE loc' = loc
      BY <3>2 DEF TypeOK, LocOK
    <3> QED
      BY <1>4, <3>1, <3>2
  <2>4. ProcessOK(p)' /\ HeldOK'
    BY <1>2, <1>4, GotoType DEF ProcessOK, SyncSteps, PlannedSteps, ReadSteps, HeldOK, TypeOK
  <2> QED
    BY <1>1, <1>2, <1>4, <2>3, <2>4, TypeGoto
<1> QED
  BY <1>3, <1>4

(* What is published are keys. *)
LEMMA PublishedType ==
    ASSUME TypeOK PROVE Published \subseteq Keys
<1>1. ASSUME NEW j \in Projects, NEW f \in Paths, index[j].docs[f] # None
      PROVE  index[j].docs[f].key \in Keys
  BY <1>1 DEF TypeOK, Index, Doc
<1> QED
  BY <1>1, PublishedMember

(* A collection gathers the live keys. *)
LEMMA TypeGcLive ==
    ASSUME TypeOK, NEW p \in Procs, GcLive(p) PROVE TypeOK'
<1> USE DEF GcLive
<1>1. StoreOK'
  BY StoreKept
<1>2. {"gc_second", "gc_sweep"} \subseteq Steps
  BY DEF Steps, GcSteps
<1>3. CASE Return(p, "failed") /\ UNCHANGED loc
  BY <1>1, <1>3, TypeReturn DEF Results
<1>4. CASE /\ loc' = [loc EXCEPT ![p].live = @ \cup Published] /\ UNCHANGED held
           /\ Goto(p, IF pc[p] = "gc_first" THEN "gc_second" ELSE "gc_sweep")
  <2>1. loc[p] \in Loc /\ Published \in SUBSET Keys
    BY PublishedType DEF TypeOK
  <2>2. [loc[p] EXCEPT !.live = @ \cup Published] \in Loc
    BY <2>1 DEF Loc
  <2>3. loc' = [loc EXCEPT ![p] = [loc[p] EXCEPT !.live = @ \cup Published]]
    BY <1>4 DEF TypeOK
  <2>4. LocOK' /\ \A q \in Procs \ {p} : loc'[q] = loc[q]
    BY <2>2, <2>3, LocUpdate
  <2>5. PICK n \in {"gc_second", "gc_sweep"} : Goto(p, n)
    BY <1>4
  <2>6. ProcessOK(p)' /\ HeldOK'
    BY <1>2, <1>4, <2>5, GotoType DEF ProcessOK, SyncSteps, PlannedSteps, ReadSteps, HeldOK, TypeOK
  <2> QED
    BY <1>1, <1>2, <2>4, <2>5, <2>6, TypeGoto
<1> QED
  BY <1>3, <1>4

(* The sweep. *)
LEMMA TypeGcSweep ==
    ASSUME TypeOK, NEW p \in Procs, GcSweep(p) PROVE TypeOK'
<1>1. StoreOK' /\ loc' = loc
  BY FaultType DEF GcSweep, TypeOK, StoreOK
<1>2. \E r \in {"failed", "busy", "ok"} : Return(p, r)
  BY DEF GcSweep
<1> QED
  BY <1>1, <1>2, TypeReturn DEF Results

(* retry_transient_store goes back to a step of a reader, or gives up. *)
LEMMA TypeAgain ==
    ASSUME TypeOK, NEW p \in Procs, NEW s \in {"open", "stats_lease"}, pc[p] \in ReadSteps,
           Again(p, s), StoreOK'
    PROVE  TypeOK'
<1> USE DEF Again
<1>1. CASE Return(p, "busy") /\ UNCHANGED loc
  BY <1>1, TypeReturn DEF Results
<1>2. CASE /\ loc' = [loc EXCEPT ![p].tries = @ + 1, ![p].snap = None]
           /\ pc' = [pc EXCEPT ![p] = s] /\ held' = [held EXCEPT ![p] = None]
           /\ UNCHANGED out
  <2> DEFINE l == [loc[p] EXCEPT !.tries = loc[p].tries + 1, !.snap = None]
  <2>1. loc[p] \in Loc /\ loc[p].req \in Requests /\ loc[p].req.op \in {"search", "stats"}
    BY ReadFacts
  <2>0. loc[p].tries + 1 \in Nat
    BY <2>1 DEF Loc
  <2>2. l \in Loc /\ l.req = loc[p].req
    BY <2>0, <2>1 DEF Loc
  <2>3. loc' = [loc EXCEPT ![p] = l]
    BY <1>2 DEF TypeOK
  <2> HIDE DEF l
  <2>4. LocOK' /\ loc'[p] = l /\ \A q \in Procs \ {p} : loc'[q] = loc[q]
    BY <2>2, <2>3, LocUpdate
  <2>5. Goto(p, s) /\ s \in Steps /\ HeldOK' /\ pc'[p] = s
    BY <1>2 DEF Goto, Steps, ReadSteps, HeldOK, TypeOK
  <2>6. ProcessOK(p)'
    BY <2>1, <2>2, <2>4, <2>5 DEF ProcessOK, SyncSteps, PlannedSteps, ReadSteps
  <2> QED
    BY <2>4, <2>5, <2>6, TypeGoto
<1> QED
  BY <1>1, <1>2

(* A search opens its snapshot. *)
LEMMA TypeSearchOpen ==
    ASSUME TypeOK, NEW p \in Procs, SearchOpen(p) PROVE TypeOK'
<1> USE DEF SearchOpen
<1>1. StoreOK'
  BY StoreKept
<1>2. pc[p] = "open" /\ pc[p] \in ReadSteps /\ "lookup" \in Steps
  BY DEF ReadSteps, Steps
<1>3. CASE Again(p, "open")
  BY <1>1, <1>2, <1>3, TypeAgain
<1>4. CASE Return(p, "refused") /\ UNCHANGED loc
  BY <1>1, <1>4, TypeReturn DEF Results
<1>5. CASE /\ loc' = [loc EXCEPT ![p].snap = index[Proj(p)]]
           /\ Goto(p, "lookup") /\ UNCHANGED held
  <2> DEFINE l == [loc[p] EXCEPT !.snap = index[Proj(p)]]
  <2>1. /\ loc[p] \in Loc /\ loc[p].req \in Requests /\ loc[p].req.op \in {"search", "stats"}
        /\ index[Proj(p)] \in Index
    BY <1>2, ReadFacts
  <2>2. l \in Loc /\ l.req = loc[p].req /\ l.snap = index[Proj(p)]
    BY <2>1 DEF Loc
  <2>3. loc' = [loc EXCEPT ![p] = l]
    BY <1>5 DEF TypeOK
  <2> HIDE DEF l
  <2>4. LocOK' /\ loc'[p] = l /\ \A q \in Procs \ {p} : loc'[q] = loc[q]
    BY <2>2, <2>3, LocUpdate
  <2>5. HeldOK' /\ pc'[p] = "lookup"
    BY <1>2, <1>5, GotoType DEF HeldOK, TypeOK
  <2>6. ProcessOK(p)'
    BY <2>1, <2>2, <2>4, <2>5 DEF ProcessOK, SyncSteps, PlannedSteps, ReadSteps
  <2> QED
    BY <1>1, <1>2, <1>5, <2>4, <2>5, <2>6, TypeGoto
<1> QED
  BY <1>3, <1>4, <1>5

(* A search reads the vectors. *)
LEMMA TypeSearchLookup ==
    ASSUME TypeOK, NEW p \in Procs, SearchLookup(p) PROVE TypeOK'
<1> USE DEF SearchLookup
<1>1. StoreOK'
  BY StoreKept
<1>2. pc[p] \in ReadSteps
  BY DEF ReadSteps
<1>3. CASE Again(p, "open")
  BY <1>1, <1>2, <1>3, TypeAgain
<1>4. CASE UNCHANGED loc /\ \E r \in {"ok", "missing", "refused", "failed"} : Return(p, r)
  BY <1>1, <1>4, TypeReturn DEF Results
<1> QED
  BY <1>3, <1>4

(* A report takes the shared lease. *)
LEMMA TypeStatsLease ==
    ASSUME TypeOK, NEW p \in Procs, StatsLease(p) PROVE TypeOK'
<1> USE DEF StatsLease
<1>1. StoreOK'
  BY StoreKept
<1>2. pc[p] = "stats_lease" /\ pc[p] \in ReadSteps /\ "stats_read" \in Steps
  BY DEF ReadSteps, Steps
<1>3. CASE Again(p, "stats_lease")
  BY <1>1, <1>2, <1>3, TypeAgain
<1>4. CASE /\ held' = [held EXCEPT ![p] = [ino |-> leaseIno, mode |-> "shared"]]
           /\ Goto(p, "stats_read") /\ UNCHANGED loc
  <2>1. HeldOK' /\ pc'[p] = "stats_read" /\ LocOK'
    BY <1>2, <1>4, GotoType DEF HeldOK, LocOK, TypeOK
  <2>2. ProcessOK(p)'
    BY <1>2, <1>4, <2>1, ReadFacts DEF ProcessOK, SyncSteps, PlannedSteps, ReadSteps
  <2> QED
    BY <1>1, <1>2, <1>4, <2>1, <2>2, TypeGoto
<1> QED
  BY <1>3, <1>4

(* A report reads index and cache. *)
LEMMA TypeStatsRead ==
    ASSUME TypeOK, NEW p \in Procs, StatsRead(p) PROVE TypeOK'
<1> USE DEF StatsRead
<1>1. StoreOK'
  BY StoreKept
<1>2. pc[p] \in ReadSteps
  BY DEF ReadSteps
<1>3. CASE Again(p, "stats_lease")
  BY <1>1, <1>2, <1>3, TypeAgain
<1>4. CASE UNCHANGED loc /\ \E r \in {"ok", "failed"} : Return(p, r)
  BY <1>1, <1>4, TypeReturn DEF Results
<1> QED
  BY <1>3, <1>4

(* A killed process. *)
LEMMA TypeCrash ==
    ASSUME TypeOK, NEW p \in Procs, Crash(p) PROVE TypeOK'
<1>1. StoreOK' /\ HeldOK' /\ LocOK' /\ out' \in [Procs -> Results]
  BY BoundsAssumption DEF Crash, TypeOK, StoreOK, HeldOK, LocOK, store
<1>2. /\ pc' \in [Procs -> Steps \cup {"idle", "done", "dead"}] /\ pc'[p] = "dead"
      /\ \A q \in Procs \ {p} : pc'[q] = pc[q] /\ loc'[q] = loc[q]
  BY DEF Crash, TypeOK
<1>3. \A q \in Procs \ {p} : ProcessOK(q)'
  BY <1>2, ProcessOKStable DEF TypeOK
<1>4. ProcessOK(p)'
  BY <1>2 DEF ProcessOK, SyncSteps, PlannedSteps, ReadSteps
<1> QED
  BY <1>1, <1>2, <1>3, <1>4 DEF TypeOK, StoreOK, HeldOK, LocOK

(* An edited corpus is a corpus. *)
LEMMA EditType ==
    ASSUME TypeOK, NEW j \in Projects, NEW f \in Paths, Edit(j, f) PROVE source' \in [Projects -> Corpus]
<1> USE DEF Edit
<1>1. source[j] \in Corpus /\ edits + 1 \in Nat
  BY BoundsAssumption DEF TypeOK
<1>2. PICK d \in Nat, n \in File \cup {None} :
        source' = [source EXCEPT ![j] = [dir |-> d, files |-> [source[j].files EXCEPT ![f] = n]]]
  BY <1>1 DEF Corpus, File
<1>3. [dir |-> d, files |-> [source[j].files EXCEPT ![f] = n]] \in Corpus
  BY <1>1 DEF Corpus
<1> QED
  BY <1>2, <1>3 DEF TypeOK

(* The editor, the user and SQLite's recovery touch no process. *)
LEMMA TypeEnvironment ==
    ASSUME TypeOK, Environment PROVE TypeOK'
<1>1. UNCHANGED <<held, pc, loc, out>>
  BY DEF Environment, Edit, LoseCache, RebindLease, Recover
<1>2. \A q \in Procs : ProcessOK(q)'
  BY <1>1, ProcessOKStable DEF TypeOK
<1>3. StoreOK'
  <2>1. ASSUME NEW j \in Projects, NEW f \in Paths, Edit(j, f) PROVE StoreOK'
    <3>1. source' \in [Projects -> Corpus]
      BY <2>1, EditType
    <3> QED
      BY <2>1, <3>1, BoundsAssumption DEF Edit, TypeOK, StoreOK, store
  <2>2. ASSUME LoseCache PROVE StoreOK'
    <3>1. losses' \in 0 .. MaxLosses
      BY <2>2, BoundsAssumption DEF LoseCache, TypeOK
    <3>2. damaged' \in BOOLEAN
      BY <2>2, Zenon DEF LoseCache
    <3> QED
      BY <2>2, <3>1, <3>2 DEF LoseCache, TypeOK, StoreOK
  <2>3. ASSUME RebindLease PROVE StoreOK'
    BY <2>3, BoundsAssumption DEF RebindLease, TypeOK, StoreOK, store
  <2>4. ASSUME NEW j \in Projects, Recover(j) PROVE StoreOK'
    BY <2>4 DEF Recover, TypeOK, StoreOK
  <2> QED
    BY <2>1, <2>2, <2>3, <2>4 DEF Environment
<1> QED
  BY <1>1, <1>2, <1>3 DEF TypeOK, StoreOK

(* Stuttering. *)
LEMMA TypeUnchanged ==
    ASSUME TypeOK, UNCHANGED vars PROVE TypeOK'
<1>1. \A q \in Procs : ProcessOK(q)'
  BY ProcessOKStable DEF TypeOK, vars
<1> QED
  BY <1>1 DEF TypeOK, vars

(* Every step preserves the type invariant. *)
LEMMA TypeNext == TypeOK /\ [Next]_vars => TypeOK'
<1> SUFFICES ASSUME TypeOK, [Next]_vars PROVE TypeOK'
  OBVIOUS
<1>1. ASSUME NEW p \in Procs, Process(p) PROVE TypeOK'
  BY <1>1, TypeStart, TypeScan, TypePlanOpen, TypePlanScheme, TypePlanDocs, TypeExecCheck, TypeRecheck,
     TypeEmbed, TypeSyncLease, TypeInsertVectors, TypeBegin, TypeFinal, TypeCommit, TypeGcAbsent, TypeGcLease,
     TypeGcInitial, TypeGcLive, TypeGcSweep, TypeSearchOpen, TypeSearchLookup, TypeStatsLease,
     TypeStatsRead
     DEF Process
<1>2. ASSUME NEW p \in Procs, Crash(p) PROVE TypeOK'
  BY <1>2, TypeCrash
<1>3. CASE Environment
  BY <1>3, TypeEnvironment
<1>4. CASE Terminated \/ UNCHANGED vars
  BY <1>4, TypeUnchanged DEF Terminated
<1> QED
  BY <1>1, <1>2, <1>3, <1>4 DEF Next

(* The store's variables keep their types, the generation of an index      *)
(* never passes the largest 64-bit number (checked_add), and every step of *)
(* an operation finds what an earlier step of it recorded.                 *)
THEOREM TypeCorrect == Spec => []TypeOK
<1>1. Init => TypeOK
  BY TypeInit
<1>2. TypeOK /\ [Next]_vars => TypeOK'
  BY TypeNext
<1> QED
  BY <1>1, <1>2, PTL DEF Spec
=============================================================================
