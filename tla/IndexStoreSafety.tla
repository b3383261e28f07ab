--------------------------- MODULE IndexStoreSafety ---------------------------
(* No published chunk loses its vector to garbage collection, no           *)
(* publication overwrites what its plan has not seen, indexes are uniform  *)
(* and published from the disk, and a reported success is searchable:      *)
(* proofs for every set of processes, projects, pages and requests.        *)
EXTENDS IndexStoreProofs

ExclusiveSteps == {"insert", "begin", "final", "commit"} \cup (GcSteps \ {"gc_lease"})
VerifiedSteps == {"begin", "final", "commit"}
SweepSteps == {"gc_second", "gc_sweep"}

(* The inductive invariant behind the theorems about vectors. *)
Safe == LeaseInv /\ VectorsInv /\ NoDanglingVectors /\ SnapshotInv

(* Initially nothing is held, and the cache is what is published. *)
LEMMA SafeInit == Init => Safe
<1> SUFFICES ASSUME Init PROVE Safe
  OBVIOUS
<1>1. \A p \in Procs : pc[p] = "idle" /\ held[p] = None
  BY DEF Init
<1>2. LeaseInv /\ VectorsInv /\ SnapshotInv
  BY <1>1 DEF LeaseInv, VectorsInv, SnapshotInv, GcSteps
<1>3. NoDanglingVectors
  BY DEF Init, NoDanglingVectors
<1> QED
  BY <1>2, <1>3 DEF Safe

(* Where p stands after a step that takes no lease but may drop one. *)
Elsewhere(p) ==
    \A q \in Procs \ {p} : pc'[q] = pc[q] /\ loc'[q] = loc[q] /\ held'[q] = held[q]

(* The lease part of the invariant, for a step of p alone: it keeps its    *)
(* lease, drops it, or takes one no other process's lease conflicts with.  *)
LEMMA LeaseStep ==
    ASSUME TypeOK, LeaseInv, NEW p \in Procs, Elsewhere(p), UNCHANGED leaseIno,
           \/ held'[p] = None
           \/ held'[p] = held[p]
           \/ \E m \in {"shared", "exclusive"} :
                Compatible(p, m) /\ held'[p] = [ino |-> leaseIno, mode |-> m],
           pc'[p] \in ExclusiveSteps => held'[p] # None /\ held'[p].mode = "exclusive",
           pc'[p] = "commit" => LeaseCurrent(p)'
    PROVE  LeaseInv'
<1> DEFINE Own(q) ==
        /\ held[q] # None => held[q].ino <= leaseIno
        /\ pc[q] \in ExclusiveSteps => held[q] # None /\ held[q].mode = "exclusive"
        /\ pc[q] = "commit" => LeaseCurrent(q)
    Pair(q, r) ==
        held[q] # None /\ held[r] # None /\ held[q].ino = held[r].ino
           => held[q].mode = "shared" /\ held[r].mode = "shared"
<1>1. LeaseInv <=> \A q \in Procs : Own(q) /\ \A r \in Procs \ {q} : Pair(q, r)
  BY DEF LeaseInv, ExclusiveSteps
<1>2. LeaseInv' <=> \A q \in Procs : Own(q)' /\ \A r \in Procs \ {q} : Pair(q, r)'
  BY DEF LeaseInv, ExclusiveSteps
<1>3. \A q \in Procs \ {p} : Own(q)'
  BY <1>1 DEF Elsewhere, LeaseCurrent
<1>4. Own(p)'
  <2>1. held'[p] # None => held'[p].ino <= leaseIno'
    BY <1>1 DEF TypeOK
  <2> QED
    BY <2>1
<1>5. \A q \in Procs \ {p} : Pair(p, q)' /\ Pair(q, p)'
  <2> SUFFICES ASSUME NEW q \in Procs \ {p} PROVE Pair(p, q)' /\ Pair(q, p)'
    OBVIOUS
  <2>1. CASE held'[p] = None
    BY <2>1
  <2>2. CASE held'[p] = held[p]
    BY <1>1, <2>2 DEF Elsewhere
  <2>3. CASE \E m \in {"shared", "exclusive"} :
               Compatible(p, m) /\ held'[p] = [ino |-> leaseIno, mode |-> m]
    <3>1. PICK m \in {"shared", "exclusive"} :
               Compatible(p, m) /\ held'[p] = [ino |-> leaseIno, mode |-> m]
      BY <2>3
    <3>2. held'[q] = held[q] /\ held'[p].ino = leaseIno /\ held'[p].mode = m
      BY <3>1 DEF Elsewhere
    <3>3. held[q] # None /\ held[q].ino = leaseIno => m = "shared" /\ held[q].mode = "shared"
      BY <3>1 DEF Compatible
    <3> QED
      BY <3>2, <3>3
  <2> QED
    BY <2>1, <2>2, <2>3
<1>6. \A q \in Procs \ {p} : \A r \in Procs \ {p, q} : Pair(q, r)'
  BY <1>1 DEF Elsewhere
<1> HIDE DEF Own, Pair
<1> QED
  BY <1>2, <1>3, <1>4, <1>5, <1>6

(* A step of p that changes neither an index nor the cache. *)
LEMMA QuietStep ==
    ASSUME TypeOK, Safe, NEW p \in Procs, Elsewhere(p), UNCHANGED <<index, cache, lost, leaseIno>>,
           LeaseInv',
           pc'[p] \in VerifiedSteps =>
              pc[p] \in VerifiedSteps /\ loc'[p] = loc[p] /\ held'[p] = held[p],
           pc'[p] \in SweepSteps => Published \subseteq loc'[p].live,
           pc'[p] = "lookup" => loc'[p].snap = index[loc'[p].req.project]
    PROVE  Safe'
<1>1. NoDanglingVectors' /\ Published' = Published
  BY DEF Safe, NoDanglingVectors, Published, KeysOf
<1>2. SnapshotInv'
  BY DEF Safe, SnapshotInv, Elsewhere, Proj
<1>3. ASSUME NEW q \in Procs, loc'[q] = loc[q] PROVE Requested(q)' = Requested(q)
  BY <1>3 DEF Requested, KeyFor
<1>4. VectorsInv'
  <2> SUFFICES ASSUME NEW q \in Procs
               PROVE  /\ pc'[q] \in VerifiedSteps /\ LeaseCurrent(q)'
                           => Requested(q)' \subseteq cache' \cup lost'
                      /\ pc'[q] \in SweepSteps /\ LeaseCurrent(q)' => Published' \subseteq loc'[q].live
    BY DEF VectorsInv, VerifiedSteps, SweepSteps
  <2>1. CASE q # p
    BY <1>1, <1>3, <2>1 DEF Elsewhere, Safe, VectorsInv, VerifiedSteps, SweepSteps, LeaseCurrent
  <2>2. CASE q = p
    BY <1>1, <1>3, <2>2 DEF Safe, VectorsInv, VerifiedSteps, SweepSteps, LeaseCurrent
  <2> QED
    BY <2>1, <2>2
<1> QED
  BY <1>1, <1>2, <1>4 DEF Safe

(* What Return leaves to the invariant. *)
LEMMA ReturnElsewhere ==
    ASSUME TypeOK, NEW p \in Procs, NEW r, Return(p, r),
           \A q \in Procs \ {p} : loc'[q] = loc[q]
    PROVE  Elsewhere(p) /\ pc'[p] = "done" /\ held'[p] = None
BY DEF TypeOK, Return, Elsewhere

(* An operation that ends and changes neither an index nor the cache. *)
LEMMA QuietReturn ==
    ASSUME TypeOK, Safe, NEW p \in Procs, NEW r, Return(p, r),
           \A q \in Procs \ {p} : loc'[q] = loc[q], UNCHANGED <<index, cache, lost, leaseIno>>
    PROVE  Safe'
<1>1. Elsewhere(p) /\ pc'[p] = "done" /\ held'[p] = None
  BY ReturnElsewhere
<1>2. pc'[p] \notin ExclusiveSteps \cup VerifiedSteps \cup SweepSteps /\ pc'[p] # "lookup"
  BY <1>1 DEF ExclusiveSteps, GcSteps, VerifiedSteps, SweepSteps
<1>3. LeaseInv'
  BY <1>1, <1>2, LeaseStep DEF Safe
<1> QED
  BY <1>1, <1>2, <1>3, QuietStep

(* An operation that goes on to a step that relies on no lease and on no   *)
(* snapshot.                                                               *)
LEMMA QuietGoto ==
    ASSUME TypeOK, Safe, NEW p \in Procs,
           NEW s \in (SyncSteps \ ExclusiveSteps) \cup {"gc_lease", "open", "stats_lease", "stats_read"},
           Goto(p, s), \A q \in Procs \ {p} : loc'[q] = loc[q] /\ held'[q] = held[q],
           \/ held'[p] = None
           \/ held'[p] = held[p]
           \/ \E m \in {"shared", "exclusive"} :
                Compatible(p, m) /\ held'[p] = [ino |-> leaseIno, mode |-> m],
           UNCHANGED <<index, cache, lost, leaseIno>>
    PROVE  Safe'
<1>1. s \in Steps /\ s \notin ExclusiveSteps \cup VerifiedSteps \cup SweepSteps /\ s # "lookup"
  BY DEF ExclusiveSteps, GcSteps, VerifiedSteps, SweepSteps, SyncSteps, PlannedSteps, Steps, ReadSteps
<1>2. Elsewhere(p) /\ pc'[p] = s
  BY <1>1, GotoType DEF Elsewhere
<1>3. s # "commit"
  BY <1>1 DEF VerifiedSteps
<1>4. LeaseInv'
  BY <1>1, <1>2, <1>3, LeaseStep DEF Safe
<1> QED
  BY <1>1, <1>2, <1>4, QuietStep

(* A synchronization before it takes the lease. *)
LEMMA SafePlanning ==
    ASSUME TypeOK, Safe, NEW p \in Procs,
           \/ Start(p) \/ Scan(p) \/ PlanOpen(p) \/ PlanScheme(p) \/ PlanDocs(p)
           \/ ExecCheck(p) \/ Recheck(p) \/ Embed(p)
    PROVE  Safe'
<1> DEFINE Plain == (SyncSteps \ ExclusiveSteps) \cup {"gc_lease", "open", "stats_lease", "stats_read"}
<1>1. {"scan", "plan", "plan_scheme", "plan_docs", "exec", "recheck", "embed", "lease", "gc_lease",
       "open", "stats_lease"} \subseteq Plain
  BY DEF SyncSteps, PlannedSteps, ExclusiveSteps, GcSteps
<1> HIDE DEF Plain
<1> USE DEF TypeOK, store
<1>2. UNCHANGED <<index, cache, lost, leaseIno>> /\ \A q \in Procs \ {p} : loc'[q] = loc[q]
  <2>1. CASE Start(p)
    BY <2>1 DEF Start
  <2>2. CASE Scan(p)
    BY <2>2 DEF Scan
  <2>3. CASE PlanOpen(p)
    BY <2>3 DEF PlanOpen
  <2>4. CASE PlanScheme(p) \/ PlanDocs(p)
    BY <2>4 DEF PlanScheme, PlanDocs
  <2>5. CASE ExecCheck(p)
    BY <2>5 DEF ExecCheck
  <2>6. CASE Recheck(p)
    BY <2>6 DEF Recheck
  <2>7. CASE Embed(p)
    BY <2>7 DEF Embed
  <2> QED
    BY <2>1, <2>2, <2>3, <2>4, <2>5, <2>6, <2>7
<1>3. (\E r : Return(p, r)) \/ (\E s \in Plain : Goto(p, s) /\ UNCHANGED held)
  <2>1. CASE Start(p)
    <3>1. PICK r \in Requests :
            Goto(p, CASE r.op = "sync" -> "scan" [] r.op = "gc" -> "gc_lease"
                      [] r.op = "search" -> "open" [] r.op = "stats" -> "stats_lease")
      BY <2>1 DEF Start
    <3> DEFINE next == CASE r.op = "sync" -> "scan" [] r.op = "gc" -> "gc_lease"
                         [] r.op = "search" -> "open" [] r.op = "stats" -> "stats_lease"
    <3>2. next \in {"scan", "gc_lease", "open", "stats_lease"}
      BY RequestsAssumption
    <3>3. Goto(p, next) /\ UNCHANGED held
      BY <2>1, <3>1 DEF Start
    <3> HIDE DEF next
    <3> QED
      BY <1>1, <3>2, <3>3
  <2>2. CASE Scan(p)
    BY <1>1, <2>2 DEF Scan
  <2>3. CASE PlanOpen(p)
    BY <1>1, <2>3 DEF PlanOpen
  <2>4. CASE PlanScheme(p) \/ PlanDocs(p)
    BY <1>1, <2>4 DEF PlanScheme, PlanDocs
  <2>5. CASE ExecCheck(p)
    BY <1>1, <2>5 DEF ExecCheck
  <2>6. CASE Recheck(p)
    BY <1>1, <2>6 DEF Recheck
  <2>7. CASE Embed(p)
    BY <1>1, <2>7 DEF Embed
  <2> QED
    BY <2>1, <2>2, <2>3, <2>4, <2>5, <2>6, <2>7
<1>4. CASE \E r : Return(p, r)
  BY <1>2, <1>4, QuietReturn
<1>5. CASE \E s \in Plain : Goto(p, s) /\ UNCHANGED held
  BY <1>2, <1>5, QuietGoto DEF Plain
<1> QED
  BY <1>3, <1>4, <1>5

(* Search and statistics. *)
LEMMA SafeAgain ==
    ASSUME TypeOK, Safe, NEW p \in Procs, NEW s \in {"open", "stats_lease"}, Again(p, s),
           UNCHANGED <<index, cache, lost, leaseIno>>
    PROVE  Safe'
<1>1. \A q \in Procs \ {p} : loc'[q] = loc[q]
  BY DEF Again, TypeOK
<1>2. CASE Return(p, "busy")
  BY <1>1, <1>2, QuietReturn
<1>3. CASE pc' = [pc EXCEPT ![p] = s] /\ held' = [held EXCEPT ![p] = None] /\ UNCHANGED out
  <2>1. Goto(p, s) /\ held'[p] = None /\ \A q \in Procs \ {p} : held'[q] = held[q]
    BY <1>3 DEF Goto, TypeOK
  <2> QED
    BY <1>1, <2>1, QuietGoto
<1> QED
  BY <1>2, <1>3 DEF Again

(* Opening a snapshot, reading it, reporting, and having nothing to collect. *)
LEMMA SafeReading ==
    ASSUME TypeOK, Safe, NEW p \in Procs,
           SearchOpen(p) \/ SearchLookup(p) \/ StatsLease(p) \/ StatsRead(p) \/ GcAbsent(p)
    PROVE  Safe'
<1>1. UNCHANGED <<index, cache, lost, leaseIno>>
  BY DEF SearchOpen, SearchLookup, StatsLease, StatsRead, GcAbsent, store
<1>2. CASE Again(p, "open") \/ Again(p, "stats_lease")
  BY <1>1, <1>2, SafeAgain
<1>3. CASE (\E r : Return(p, r)) /\ UNCHANGED loc
  BY <1>1, <1>3, QuietReturn
<1>4. CASE /\ Compatible(p, "shared")
           /\ held' = [held EXCEPT ![p] = [ino |-> leaseIno, mode |-> "shared"]]
           /\ Goto(p, "stats_read") /\ UNCHANGED loc
  <2>1. /\ held'[p] = [ino |-> leaseIno, mode |-> "shared"]
        /\ \A q \in Procs \ {p} : held'[q] = held[q]
    BY <1>4 DEF TypeOK
  <2> QED
    BY <1>1, <1>4, <2>1, QuietGoto
<1>5. CASE /\ pc[p] = "open" /\ loc' = [loc EXCEPT ![p].snap = index[Proj(p)]]
           /\ Goto(p, "lookup") /\ UNCHANGED held
  <2>1. loc[p] \in Loc /\ loc \in [Procs -> Loc] /\ "lookup" \in Steps
    BY DEF TypeOK, Steps, ReadSteps
  <2>2. loc'[p].snap = index[Proj(p)] /\ loc'[p].req = loc[p].req
    BY <1>5, <2>1 DEF Loc
  <2>3. Elsewhere(p) /\ pc'[p] = "lookup"
    BY <1>5, <2>1, GotoType DEF Elsewhere
  <2>4. "lookup" \notin ExclusiveSteps \cup VerifiedSteps \cup SweepSteps
    BY DEF ExclusiveSteps, GcSteps, VerifiedSteps, SweepSteps
  <2>5. LeaseInv'
    BY <1>1, <1>5, <2>3, <2>4, LeaseStep DEF Safe
  <2> QED
    BY <1>1, <2>2, <2>3, <2>4, <2>5, QuietStep DEF Proj
<1> QED
  BY <1>2, <1>3, <1>4, <1>5 DEF SearchOpen, SearchLookup, StatsLease, StatsRead, GcAbsent

(* Taking the exclusive lease. *)
LEMMA SafeAcquire ==
    ASSUME TypeOK, Safe, NEW p \in Procs, SyncLease(p) \/ GcLease(p)
    PROVE  Safe'
<1>1. PICK s \in {"lease", "gc_lease"}, n \in {"insert", "gc_initial"} : AcquireLease(p, s, "exclusive", n)
  BY DEF SyncLease, GcLease
<1>2. UNCHANGED <<index, cache, lost, leaseIno, loc>>
  BY <1>1 DEF AcquireLease, store
<1>3. CASE Return(p, "busy")
  BY <1>2, <1>3, QuietReturn
<1>4. CASE /\ Compatible(p, "exclusive") /\ Goto(p, n)
           /\ held' = [held EXCEPT ![p] = [ino |-> leaseIno, mode |-> "exclusive"]]
  <2>1. n \in Steps
    BY DEF Steps, SyncSteps, PlannedSteps, GcSteps
  <2>2. /\ Elsewhere(p) /\ pc'[p] = n
        /\ held'[p] = [ino |-> leaseIno, mode |-> "exclusive"]
    BY <1>2, <1>4, <2>1, GotoType DEF Elsewhere, TypeOK
  <2>3. n \notin VerifiedSteps \cup SweepSteps /\ n # "lookup" /\ n # "commit"
    BY DEF VerifiedSteps, SweepSteps
  <2>4. held'[p] # None /\ held'[p].mode = "exclusive"
    <3>1. [ino |-> leaseIno, mode |-> "exclusive"] \in [ino : Nat, mode : {"shared", "exclusive"}]
      BY DEF TypeOK
    <3> QED
      BY <2>2, <3>1, NoneAssumption
  <2>5. LeaseInv'
    BY <1>2, <1>4, <2>2, <2>3, <2>4, LeaseStep DEF Safe
  <2> QED
    BY <1>2, <2>2, <2>3, <2>5, QuietStep
<1> QED
  BY <1>1, <1>3, <1>4 DEF AcquireLease

(* Two processes cannot both hold a current lease if one is exclusive. *)
LEMMA ExclusiveCurrent ==
    ASSUME LeaseInv, NEW p \in Procs, NEW q \in Procs \ {p},
           pc[p] \in ExclusiveSteps, LeaseCurrent(p)
    PROVE  ~LeaseCurrent(q)
BY DEF LeaseInv, LeaseCurrent, ExclusiveSteps

(* Vectors are inserted: what is cached or was lost only grows. *)
LEMMA SafeInsertVectors ==
    ASSUME TypeOK, Safe, NEW p \in Procs, InsertVectors(p) PROVE Safe'
<1> USE DEF InsertVectors
<1>1. UNCHANGED <<index, leaseIno, loc>> /\ pc[p] = "insert"
  OBVIOUS
<1>2. CASE (\E r : Return(p, r)) /\ UNCHANGED <<cache, lost>>
  BY <1>1, <1>2, QuietReturn
<1>3. CASE /\ cache' = cache \cup Requested(p) /\ lost' = lost \ Requested(p)
           /\ Goto(p, "begin") /\ UNCHANGED held
  <2>1. "begin" \in Steps /\ pc[p] \in ExclusiveSteps /\ "begin" \notin SweepSteps
    BY <1>1 DEF Steps, SyncSteps, PlannedSteps, ExclusiveSteps, SweepSteps
  <2>2. Elsewhere(p) /\ pc'[p] = "begin"
    BY <1>1, <1>3, <2>1, GotoType DEF Elsewhere
  <2>3. LeaseInv'
    <3>1. held'[p] # None /\ held'[p].mode = "exclusive"
      BY <1>3, <2>1 DEF Safe, LeaseInv, ExclusiveSteps
    <3> QED
      BY <1>1, <1>3, <2>2, <3>1, LeaseStep DEF Safe
  <2>4. cache' \cup lost' = cache \cup lost \cup Requested(p)
    BY <1>3
  <2>5. \A q \in Procs : Requested(q)' = Requested(q) /\ LeaseCurrent(q)' = LeaseCurrent(q)
    BY <1>1, <1>3 DEF Requested, KeyFor, LeaseCurrent
  <2>6. Published' = Published
    BY <1>1 DEF Published, KeysOf
  <2>7. NoDanglingVectors'
    BY <2>4, <2>6 DEF Safe, NoDanglingVectors
  <2>8. SnapshotInv'
    BY <1>1, <2>2 DEF Safe, SnapshotInv, Elsewhere, Proj
  <2>9. VectorsInv'
    <3> SUFFICES ASSUME NEW q \in Procs
                 PROVE  /\ pc'[q] \in VerifiedSteps /\ LeaseCurrent(q)'
                             => Requested(q)' \subseteq cache' \cup lost'
                        /\ pc'[q] \in SweepSteps /\ LeaseCurrent(q)' => Published' \subseteq loc'[q].live
      BY DEF VectorsInv, VerifiedSteps, SweepSteps
    <3>1. CASE q = p
      BY <2>1, <2>2, <2>4, <2>5, <3>1
    <3>2. CASE q # p
      BY <1>1, <2>2, <2>4, <2>5, <2>6, <3>2 DEF Elsewhere, Safe, VectorsInv, VerifiedSteps, SweepSteps
    <3> QED
      BY <3>1, <3>2
  <2> QED
    BY <2>3, <2>7, <2>8, <2>9 DEF Safe
<1> QED
  BY <1>2, <1>3

(* The transaction opens, and passes its last check. *)
LEMMA SafeTransaction ==
    ASSUME TypeOK, Safe, NEW p \in Procs, Begin(p) \/ FinalRevalidation(p) PROVE Safe'
<1> USE DEF Begin, FinalRevalidation
<1>1. UNCHANGED <<index, cache, lost, leaseIno, loc>> /\ pc[p] \in {"begin", "final"}
  OBVIOUS
<1>2. CASE \E r : Return(p, r)
  BY <1>1, <1>2, QuietReturn
<1>3. CASE \E s \in {"final", "commit"} :
             Goto(p, s) /\ UNCHANGED held /\ (s = "commit" => LeaseCurrent(p))
  <2>1. PICK s \in {"final", "commit"} :
             Goto(p, s) /\ UNCHANGED held /\ (s = "commit" => LeaseCurrent(p))
    BY <1>3
  <2>2. /\ s \in Steps /\ s \in VerifiedSteps /\ pc[p] \in VerifiedSteps /\ s \notin SweepSteps
        /\ pc[p] \in ExclusiveSteps /\ s # "lookup"
    BY <1>1 DEF Steps, SyncSteps, PlannedSteps, VerifiedSteps, SweepSteps, ExclusiveSteps
  <2>3. Elsewhere(p) /\ pc'[p] = s /\ held' = held
    BY <1>1, <2>1, <2>2, GotoType DEF Elsewhere
  <2>4. held[p] # None /\ held[p].mode = "exclusive"
    BY <2>2 DEF Safe, LeaseInv, ExclusiveSteps
  <2>5. pc'[p] = "commit" => LeaseCurrent(p)'
    BY <1>1, <2>1, <2>3 DEF LeaseCurrent
  <2>6. LeaseInv'
    BY <1>1, <2>3, <2>4, <2>5, LeaseStep DEF Safe
  <2> QED
    BY <1>1, <2>2, <2>3, <2>6, QuietStep
<1> QED
  BY <1>2, <1>3

(* What a commit publishes was published before, or requested. *)
LEMMA PublishedByCommit ==
    ASSUME TypeOK, NEW p \in Procs, pc[p] = "commit", Publish(p)
    PROVE  Published' \subseteq Published \cup Requested(p)
<1>1. Proj(p) \in Projects /\ index \in [Projects -> Index]
  BY SyncFacts DEF SyncSteps, PlannedSteps, TypeOK
<1>2. ASSUME NEW j \in Projects, NEW f \in Paths, index'[j].docs[f] # None
      PROVE  index'[j].docs[f].key \in Published \cup Requested(p)
  <2>1. CASE j # Proj(p)
    <3>1. index'[j] = index[j]
      BY <1>1, <2>1 DEF Publish
    <3> QED
      BY <1>2, <3>1, PublishedMember
  <2>2. CASE j = Proj(p)
    <3> DEFINE old == index[Proj(p)].docs[f]
    <3>1. index'[j].docs[f] = NewDoc(p, f)
      BY <1>1, <2>2 DEF Publish
    <3>2. CASE f \in loc[p].upserts
      <4>1. NewDoc(p, f).key = KeyFor(p, f)
        BY <3>2 DEF NewDoc
      <4> QED
        BY <3>1, <3>2, <4>1 DEF Requested
    <3>3. CASE f \notin loc[p].upserts
      <4>1. old \in Doc \cup {None}
        BY <1>1 DEF Index
      <4>2. old # None /\ NewDoc(p, f).key = old.key
        <5>1. old # None /\ NewDoc(p, f) \in
                {old, [old EXCEPT !.hash = loc[p].scan.files[f].content,
                                  !.stamp = loc[p].scan.files[f].stamp]}
          BY <1>2, <3>1, <3>3 DEF NewDoc
        <5>2. old \in Doc
          BY <4>1, <5>1
        <5> QED
          BY <5>1, <5>2 DEF Doc
      <4> QED
        BY <1>1, <3>1, <4>2, PublishedMember
    <3> QED
      BY <3>2, <3>3
  <2> QED
    BY <2>1, <2>2
<1>3. ASSUME NEW k \in Published' PROVE k \in Published \cup Requested(p)
  <2>1. Published' = UNION {KeysOf(index[j].docs)' : j \in Projects}
    BY DEF Published
  <2>2. PICK j \in Projects, f \in Paths : index'[j].docs[f] # None /\ k = index'[j].docs[f].key
    BY <1>3, <2>1 DEF KeysOf
  <2> QED
    BY <1>2, <2>2
<1> QED
  BY <1>3

(* A commit: its current exclusive lease means no collection relies on the *)
(* published keys, and no reader has the index open.                       *)
LEMMA SafeCommit ==
    ASSUME TypeOK, Safe, NEW p \in Procs, Commit(p) PROVE Safe'
<1> USE DEF Commit
<1>1. UNCHANGED <<cache, lost, leaseIno, loc>> /\ pc[p] = "commit"
  OBVIOUS
<1>2. CASE Return(p, "busy") /\ UNCHANGED index
  BY <1>1, <1>2, QuietReturn
<1>3. CASE ~(\E q \in Procs : Reading(q, Proj(p))) /\ Publish(p) /\ Return(p, "ok")
  <2>1. Elsewhere(p) /\ pc'[p] = "done" /\ held'[p] = None
    BY <1>1, <1>3, ReturnElsewhere
  <2>2. "done" \notin ExclusiveSteps \cup VerifiedSteps \cup SweepSteps
    BY DEF ExclusiveSteps, GcSteps, VerifiedSteps, SweepSteps
  <2>3. LeaseInv'
    BY <1>1, <2>1, <2>2, LeaseStep DEF Safe
  <2>4. LeaseCurrent(p) /\ pc[p] \in ExclusiveSteps
    BY <1>1 DEF Safe, LeaseInv, ExclusiveSteps
  <2>5. \A q \in Procs : ~LeaseCurrent(q)'
    <3>1. ASSUME NEW q \in Procs \ {p} PROVE ~LeaseCurrent(q)'
      BY <1>1, <2>1, <2>4, ExclusiveCurrent DEF Safe, Elsewhere, LeaseCurrent
    <3> QED
      BY <2>1, <3>1 DEF LeaseCurrent
  <2>6. VectorsInv'
    BY <2>5 DEF VectorsInv
  <2>7. NoDanglingVectors'
    <3>1. Requested(p) \subseteq cache \cup lost
      BY <1>1, <2>4 DEF Safe, VectorsInv
    <3> QED
      BY <1>1, <1>3, <3>1, PublishedByCommit DEF Safe, NoDanglingVectors
  <2>8. SnapshotInv'
    <3> SUFFICES ASSUME NEW q \in Procs, pc'[q] = "lookup" PROVE loc'[q].snap = index'[Proj(q)']
      BY DEF SnapshotInv
    <3>1. q # p /\ pc[q] = "lookup" /\ Proj(q)' = Proj(q) /\ loc'[q] = loc[q]
      BY <1>1, <2>1 DEF Elsewhere, Proj
    <3>2. Proj(q) # Proj(p)
      BY <1>3, <3>1 DEF Reading, Proj
    <3>3. Proj(q) \in Projects
      BY <3>1, ReadFacts DEF ReadSteps
    <3>4. index'[Proj(q)] = index[Proj(q)]
      BY <1>3, <3>2, <3>3 DEF Publish, TypeOK
    <3> QED
      BY <3>1, <3>4 DEF Safe, SnapshotInv
  <2> QED
    BY <2>3, <2>6, <2>7, <2>8 DEF Safe
<1> QED
  BY <1>2, <1>3

(* A collection gathers the live keys. *)
LEMMA SafeGather ==
    ASSUME TypeOK, Safe, NEW p \in Procs, GcInitial(p) \/ GcLive(p) PROVE Safe'
<1>1. /\ UNCHANGED <<index, cache, lost, leaseIno>>
      /\ pc[p] \in ExclusiveSteps
      /\ \A q \in Procs \ {p} : loc'[q] = loc[q]
  BY DEF GcInitial, GcLive, store, TypeOK, ExclusiveSteps, GcSteps
<1>2. CASE \E r : Return(p, r)
  BY <1>1, <1>2, QuietReturn
<1>3. CASE \E s \in {"gc_first", "gc_second", "gc_sweep"} :
             /\ Goto(p, s) /\ UNCHANGED held
             /\ s # "gc_first" => loc' = [loc EXCEPT ![p].live = @ \cup Published]
  <2>1. PICK s \in {"gc_first", "gc_second", "gc_sweep"} :
             /\ Goto(p, s) /\ UNCHANGED held
             /\ s # "gc_first" => loc' = [loc EXCEPT ![p].live = @ \cup Published]
    BY <1>3
  <2>2. s \in Steps /\ s \notin VerifiedSteps /\ s # "lookup" /\ "gc_first" \notin SweepSteps
    BY DEF Steps, GcSteps, VerifiedSteps, SweepSteps
  <2>3. Elsewhere(p) /\ pc'[p] = s
    BY <1>1, <2>1, <2>2, GotoType DEF Elsewhere
  <2>4. held[p] # None /\ held[p].mode = "exclusive"
    BY <1>1 DEF Safe, LeaseInv, ExclusiveSteps
  <2>5. LeaseInv'
    BY <1>1, <2>1, <2>2, <2>3, <2>4, LeaseStep DEF Safe, VerifiedSteps
  <2>6. s # "gc_first" => Published \subseteq loc'[p].live
    <3>1. loc \in [Procs -> Loc] /\ loc[p] \in Loc
      BY DEF TypeOK
    <3> QED
      BY <2>1, <3>1 DEF Loc
  <2> QED
    BY <1>1, <2>2, <2>3, <2>5, <2>6, QuietStep
<1> QED
  BY <1>2, <1>3 DEF GcInitial, GcLive

(* The sweep: under a current lease the gathered keys cover all that is    *)
(* published, and nobody else relies on a vector it verified.              *)
LEMMA SafeGcSweep ==
    ASSUME TypeOK, Safe, NEW p \in Procs, GcSweep(p) PROVE Safe'
<1> USE DEF GcSweep
<1>1. UNCHANGED <<index, lost, leaseIno, loc>> /\ pc[p] = "gc_sweep"
  OBVIOUS
<1>2. CASE (\E r : Return(p, r)) /\ UNCHANGED cache
  BY <1>1, <1>2, QuietReturn
<1>3. CASE LeaseCurrent(p) /\ cache' = cache \ (loc[p].initial \ loc[p].live) /\ Return(p, "ok")
  <2>1. Elsewhere(p) /\ pc'[p] = "done" /\ held'[p] = None
    BY <1>1, <1>3, ReturnElsewhere
  <2>2. "done" \notin ExclusiveSteps
    BY DEF ExclusiveSteps, GcSteps
  <2>3. LeaseInv'
    BY <1>1, <2>1, <2>2, LeaseStep DEF Safe
  <2>4. pc[p] \in ExclusiveSteps
    BY <1>1 DEF ExclusiveSteps, GcSteps
  <2>5. \A q \in Procs : ~LeaseCurrent(q)'
    <3>1. ASSUME NEW q \in Procs \ {p} PROVE ~LeaseCurrent(q)'
      BY <1>1, <1>3, <2>1, <2>4, ExclusiveCurrent DEF Safe, Elsewhere, LeaseCurrent
    <3> QED
      BY <2>1, <3>1 DEF LeaseCurrent
  <2>6. VectorsInv'
    BY <2>5 DEF VectorsInv
  <2>7. NoDanglingVectors'
    <3>1. Published \subseteq loc[p].live
      BY <1>1, <1>3 DEF Safe, VectorsInv
    <3>2. Published' = Published
      BY <1>1 DEF Published, KeysOf
    <3> QED
      BY <1>1, <1>3, <3>1, <3>2 DEF Safe, NoDanglingVectors
  <2>8. SnapshotInv'
    BY <1>1, <2>1 DEF Safe, SnapshotInv, Elsewhere, Proj
  <2> QED
    BY <2>3, <2>6, <2>7, <2>8 DEF Safe
<1> QED
  BY <1>2, <1>3

(* A killed process drops its lease. *)
LEMMA SafeCrash ==
    ASSUME TypeOK, Safe, NEW p \in Procs, Crash(p) PROVE Safe'
<1>1. /\ UNCHANGED <<index, cache, lost, leaseIno>> /\ Elsewhere(p)
      /\ pc'[p] = "dead" /\ held'[p] = None
  BY DEF Crash, store, Elsewhere, TypeOK
<1>2. "dead" \notin ExclusiveSteps \cup VerifiedSteps \cup SweepSteps
  BY DEF ExclusiveSteps, GcSteps, VerifiedSteps, SweepSteps
<1>3. LeaseInv'
  BY <1>1, <1>2, LeaseStep DEF Safe
<1> QED
  BY <1>1, <1>2, <1>3, QuietStep

(* A step that changes nothing the invariant speaks of, except that        *)
(* vectors may go from the cache to the lost ones.                         *)
LEMMA SafeKept ==
    ASSUME Safe, UNCHANGED <<index, leaseIno, held, pc, loc>>, cache' \cup lost' = cache \cup lost
    PROVE  Safe'
<1>1. Published' = Published
  BY DEF Published, KeysOf
<1>2. \A q \in Procs : Requested(q)' = Requested(q) /\ LeaseCurrent(q)' = LeaseCurrent(q)
  BY DEF Requested, KeyFor, LeaseCurrent
<1>3. VectorsInv'
  BY <1>1, <1>2 DEF Safe, VectorsInv
<1>4. LeaseInv'
  BY <1>2 DEF Safe, LeaseInv
<1> QED
  BY <1>1, <1>3, <1>4 DEF Safe, NoDanglingVectors, SnapshotInv, Proj

(* Once the lease file is replaced no lease is current. *)
LEMMA SafeRebindLease ==
    ASSUME FinalRace = FALSE, TypeOK, Safe, RebindLease PROVE Safe'
<1>1. /\ UNCHANGED <<index, cache, lost, held, pc, loc>> /\ leaseIno' = leaseIno + 1
      /\ \A p \in Procs : pc[p] # "commit"
  BY DEF RebindLease, OutsideLastWindow, store
<1>2. \A p \in Procs : held[p] # None => held[p].ino < leaseIno'
  <2> SUFFICES ASSUME NEW p \in Procs, held[p] # None PROVE held[p].ino < leaseIno'
    OBVIOUS
  <2>1. held[p].ino \in Nat /\ leaseIno \in Nat /\ held[p].ino <= leaseIno
    BY DEF TypeOK, Safe, LeaseInv
  <2> QED
    BY <1>1, <2>1
<1>3. \A p \in Procs : ~LeaseCurrent(p)'
  <2> SUFFICES ASSUME NEW p \in Procs, held[p] # None PROVE held[p].ino # leaseIno'
    BY <1>1 DEF LeaseCurrent
  <2>1. held[p].ino \in Nat /\ leaseIno' \in Nat
    BY <1>1 DEF TypeOK
  <2> QED
    BY <1>2, <2>1
<1>4. VectorsInv'
  BY <1>3 DEF VectorsInv
<1>5. \A p \in Procs : held'[p] # None => held'[p].ino <= leaseIno'
  <2> SUFFICES ASSUME NEW p \in Procs, held[p] # None PROVE held[p].ino <= leaseIno'
    BY <1>1
  <2>1. held[p].ino \in Nat /\ leaseIno' \in Nat
    BY <1>1 DEF TypeOK
  <2> QED
    BY <1>2, <2>1
<1>6. LeaseInv'
  BY <1>1, <1>5 DEF Safe, LeaseInv
<1> QED
  BY <1>1, <1>4, <1>6 DEF Safe, NoDanglingVectors, SnapshotInv, Proj, Published, KeysOf

(* Every step preserves the invariant. *)
LEMMA SafeNext ==
    ASSUME FinalRace = FALSE PROVE TypeOK /\ Safe /\ [Next]_vars => Safe'
<1> SUFFICES ASSUME TypeOK, Safe, [Next]_vars PROVE Safe'
  OBVIOUS
<1>1. ASSUME NEW p \in Procs, Process(p) PROVE Safe'
  BY <1>1, SafePlanning, SafeAcquire, SafeInsertVectors, SafeTransaction, SafeCommit, SafeGather,
     SafeGcSweep, SafeReading DEF Process
<1>2. ASSUME NEW p \in Procs, Crash(p) PROVE Safe'
  BY <1>2, SafeCrash
<1>3. ASSUME NEW j \in Projects, NEW f \in Paths, Edit(j, f) PROVE Safe'
  BY <1>3, SafeKept DEF Edit, store
<1>4. CASE LoseCache
  <2>1. cache' \cup lost' = cache \cup lost
    BY <1>4 DEF LoseCache
  <2> QED
    BY <1>4, <2>1, SafeKept DEF LoseCache
<1>5. CASE RebindLease
  BY <1>5, SafeRebindLease
<1>6. ASSUME NEW j \in Projects, Recover(j) PROVE Safe'
  BY <1>6, SafeKept DEF Recover
<1>7. CASE Terminated \/ UNCHANGED vars
  BY <1>7, SafeKept DEF Terminated, vars
<1> QED
  BY <1>1, <1>2, <1>3, <1>4, <1>5, <1>6, <1>7 DEF Next, Environment

(* Garbage collection, synchronization and searching run concurrently, a   *)
(* process may be killed anywhere and the lease file replaced anywhere but *)
(* in the last instant before a commit: no chunk of a published index      *)
(* loses its vector, except to the destruction of the cache itself.        *)
THEOREM VectorsKept ==
    ASSUME FinalRace = FALSE PROVE Spec => []NoDanglingVectors
<1>1. Init => Safe
  BY SafeInit
<1>2. TypeOK /\ Safe /\ [Next]_vars => Safe'
  BY SafeNext
<1>3. Safe => NoDanglingVectors
  BY DEF Safe
<1> QED
  BY <1>1, <1>2, <1>3, TypeCorrect, PTL DEF Spec

(* A search holds no lease, only a read transaction on the index; still    *)
(* every vector of its snapshot stays cached until it has read them.       *)
THEOREM SnapshotsKept ==
    ASSUME FinalRace = FALSE PROVE Spec => []OpenSnapshotsKeepTheirVectors
<1>1. Init => Safe
  BY SafeInit
<1>2. TypeOK /\ Safe /\ [Next]_vars => Safe'
  BY SafeNext
<1>3. TypeOK /\ Safe => OpenSnapshotsKeepTheirVectors
  <2> SUFFICES ASSUME TypeOK, Safe, NEW p \in Procs, pc[p] = "lookup"
               PROVE  KeysOf(loc[p].snap.docs) \subseteq cache \cup lost
    BY DEF OpenSnapshotsKeepTheirVectors
  <2>1. loc[p].snap = index[Proj(p)] /\ Proj(p) \in Projects
    BY ReadFacts DEF Safe, SnapshotInv, ReadSteps
  <2>2. KeysOf(index[Proj(p)].docs) \subseteq Published
    BY <2>1 DEF Published
  <2> QED
    BY <2>1, <2>2 DEF Safe, NoDanglingVectors
<1> QED
  BY <1>1, <1>2, <1>3, TypeCorrect, PTL DEF Spec

-----------------------------------------------------------------------------
(* Publication *)

(* The plan part of the invariant, for a step of p that changes no index:  *)
(* p writes afterwards only if it did before or nobody did.                *)
LEMMA PlanStep ==
    ASSUME TypeOK, PlanInv, NEW p \in Procs,
           \A q \in Procs \ {p} : pc'[q] = pc[q] /\ loc'[q] = loc[q],
           UNCHANGED index, PlanOK(p)',
           pc'[p] \in {"final", "commit"} =>
              /\ loc'[p].req = loc[p].req
              /\ \/ pc[p] \in {"final", "commit"}
                 \/ \A q \in Procs \ {p} : ~Writing(q, Proj(p))
    PROVE  PlanInv'
<1>1. \A q \in Procs \ {p} : PlanOK(q)'
  BY DEF PlanInv, PlanOK, Proj
<1>2. ASSUME NEW q \in Procs \ {p}, pc'[p] \in {"final", "commit"}, pc'[q] \in {"final", "commit"}
      PROVE  Proj(p)' # Proj(q)'
  BY <1>2 DEF PlanInv, Writing, Proj
<1>3. ASSUME NEW q \in Procs \ {p}, NEW r \in Procs \ {p, q},
             pc'[q] \in {"final", "commit"}, pc'[r] \in {"final", "commit"}
      PROVE  Proj(q)' # Proj(r)'
  BY <1>3 DEF PlanInv, Proj
<1> QED
  BY <1>1, <1>2, <1>3 DEF PlanInv

(* A step of p that leaves planning, or has not reached it. *)
LEMMA PlanLeft ==
    ASSUME TypeOK, PlanInv, NEW p \in Procs,
           \A q \in Procs \ {p} : pc'[q] = pc[q] /\ loc'[q] = loc[q],
           UNCHANGED index, pc'[p] \notin {"plan_scheme", "plan_docs"} \cup PlannedSteps
    PROVE  PlanInv'
<1>1. PlanOK(p)' /\ pc'[p] \notin {"final", "commit"}
  BY DEF PlanOK, PlannedSteps
<1> QED
  BY <1>1, PlanStep

(* A step of p that goes on with its plan and does not write yet. *)
LEMMA PlanKept ==
    ASSUME TypeOK, PlanInv, NEW p \in Procs,
           \A q \in Procs \ {p} : pc'[q] = pc[q] /\ loc'[q] = loc[q],
           UNCHANGED index, pc[p] \in PlannedSteps, pc'[p] \in PlannedSteps \ {"final", "commit"},
           loc'[p].gen = loc[p].gen, loc'[p].docs = loc[p].docs, loc'[p].req = loc[p].req
    PROVE  PlanInv'
<1>1. PlanOK(p)'
  BY DEF PlanInv, PlanOK, Proj, PlannedSteps
<1> QED
  BY <1>1, PlanStep

(* The steps that plan. *)
LEMMA PlanInvPlanning ==
    ASSUME TypeOK, PlanInv, NEW p \in Procs, PlanOpen(p) \/ PlanScheme(p) \/ PlanDocs(p)
    PROVE  PlanInv'
<1>1. /\ UNCHANGED index /\ \A q \in Procs \ {p} : loc'[q] = loc[q]
      /\ loc \in [Procs -> Loc] /\ loc[p] \in Loc /\ {"plan_scheme", "plan_docs", "exec"} \subseteq Steps
  BY DEF PlanOpen, PlanScheme, PlanDocs, store, TypeOK, Steps, SyncSteps, PlannedSteps
<1>2. CASE \E r \in Results : Return(p, r)
  <2>1. pc'[p] = "done" /\ \A q \in Procs \ {p} : pc'[q] = pc[q]
    BY <1>2, ReturnType
  <2>2. pc'[p] \notin {"plan_scheme", "plan_docs"} \cup PlannedSteps
    BY <2>1 DEF PlannedSteps
  <2> QED
    BY <1>1, <2>1, <2>2, PlanLeft
<1>3. CASE /\ Goto(p, "plan_scheme") /\ pc[p] = "plan"
           /\ loc' = [loc EXCEPT ![p].gen = index[Proj(p)].gen]
  <2>1. pc'[p] = "plan_scheme" /\ \A q \in Procs \ {p} : pc'[q] = pc[q]
    BY <1>1, <1>3, GotoType
  <2>2. loc'[p].gen = index[Proj(p)].gen /\ loc'[p].req = loc[p].req
    BY <1>1, <1>3 DEF Loc
  <2>3. index[Proj(p)].gen \in Nat
    BY <1>3, SyncFacts, BoundsAssumption DEF SyncSteps, Index
  <2>4. PlanOK(p)'
    BY <1>1, <2>1, <2>2, <2>3 DEF PlanOK, Proj, PlannedSteps
  <2> QED
    BY <1>1, <2>1, <2>4, PlanStep
<1>4. CASE /\ Goto(p, "exec") /\ pc[p] = "plan_docs"
           /\ LET docs == index[Proj(p)].docs
              IN loc' = [loc EXCEPT ![p].docs = docs,
                            ![p].upserts = Stale(p, docs), ![p].metas = Touched(p, docs),
                            ![p].deletions = Absent(p, docs), ![p].refs = Unchanged(p, docs)]
  <2>1. pc'[p] = "exec" /\ \A q \in Procs \ {p} : pc'[q] = pc[q]
    BY <1>1, <1>4, GotoType
  <2>2. loc'[p].gen = loc[p].gen /\ loc'[p].docs = index[Proj(p)].docs /\ loc'[p].req = loc[p].req
    BY <1>1, <1>4 DEF Loc
  <2>3. PlanOK(p)'
    BY <1>1, <1>4, <2>1, <2>2 DEF PlanInv, PlanOK, Proj
  <2> QED
    BY <1>1, <2>1, <2>3, PlanStep
<1>5. CASE /\ Goto(p, "plan_docs") /\ pc[p] = "plan_scheme"
           /\ loc' = [loc EXCEPT ![p].scheme = index[Proj(p)].scheme]
  <2>1. pc'[p] = "plan_docs" /\ \A q \in Procs \ {p} : pc'[q] = pc[q]
    BY <1>1, <1>5, GotoType
  <2>2. loc'[p].gen = loc[p].gen /\ loc'[p].req = loc[p].req
    BY <1>1, <1>5 DEF Loc
  <2>3. PlanOK(p)'
    BY <1>1, <1>5, <2>1, <2>2 DEF PlanInv, PlanOK, Proj, PlannedSteps
  <2> QED
    BY <1>1, <2>1, <2>3, PlanStep
<1> QED
  BY <1>2, <1>3, <1>4, <1>5 DEF PlanOpen, PlanScheme, PlanDocs, Results

(* The steps of execute_sync_plan before its transaction. *)
LEMMA PlanInvExecuting ==
    ASSUME TypeOK, PlanInv, NEW p \in Procs,
           ExecCheck(p) \/ Recheck(p) \/ Embed(p) \/ SyncLease(p) \/ InsertVectors(p)
    PROVE  PlanInv'
<1>1. loc \in [Procs -> Loc] /\ loc[p] \in Loc
  BY DEF TypeOK
<1>2. /\ UNCHANGED index /\ \A q \in Procs \ {p} : loc'[q] = loc[q]
      /\ pc[p] \in PlannedSteps
      /\ loc'[p].gen = loc[p].gen /\ loc'[p].docs = loc[p].docs /\ loc'[p].req = loc[p].req
  <2>1. CASE ExecCheck(p)
    BY <1>1, <2>1 DEF ExecCheck, store, PlannedSteps, Loc
  <2>2. CASE Recheck(p)
    <3>1. UNCHANGED index /\ pc[p] \in PlannedSteps
      BY <2>2 DEF Recheck, store, PlannedSteps
    <3>2. \/ loc' = loc
          \/ \E u, m, n : loc' = [loc EXCEPT ![p].upserts = u, ![p].metas = m, ![p].losses = n]
      BY <2>2 DEF Recheck
    <3>3. CASE loc' = loc
      BY <3>1, <3>3
    <3>4. ASSUME NEW u, NEW m, NEW n,
                 loc' = [loc EXCEPT ![p].upserts = u, ![p].metas = m, ![p].losses = n]
          PROVE  /\ \A q \in Procs \ {p} : loc'[q] = loc[q]
                 /\ loc'[p].gen = loc[p].gen /\ loc'[p].docs = loc[p].docs
                 /\ loc'[p].req = loc[p].req
      BY <1>1, <3>4 DEF Loc
    <3> QED
      BY <3>1, <3>2, <3>3, <3>4
  <2>3. CASE Embed(p)
    BY <1>1, <2>3 DEF Embed, store, PlannedSteps, Loc
  <2>4. CASE SyncLease(p) \/ InsertVectors(p)
    BY <2>4 DEF SyncLease, AcquireLease, InsertVectors, store, PlannedSteps
  <2> QED
    BY <2>1, <2>2, <2>3, <2>4
<1>3. \/ \E r \in Results : Return(p, r)
      \/ \E s \in PlannedSteps \ {"final", "commit"} : Goto(p, s)
  <2>1. {"recheck", "embed", "lease", "insert", "begin"} \subseteq PlannedSteps \ {"final", "commit"}
    BY DEF PlannedSteps
  <2>2. {"busy", "changed", "failed", "ok"} \subseteq Results
    BY DEF Results
  <2> QED
    BY <2>1, <2>2 DEF ExecCheck, Recheck, Embed, SyncLease, AcquireLease, InsertVectors
<1>4. CASE \E r \in Results : Return(p, r)
  <2>1. pc'[p] = "done" /\ \A q \in Procs \ {p} : pc'[q] = pc[q]
    BY <1>4, ReturnType
  <2>2. pc'[p] \notin {"plan_scheme", "plan_docs"} \cup PlannedSteps
    BY <2>1 DEF PlannedSteps
  <2> QED
    BY <1>2, <2>1, <2>2, PlanLeft
<1>5. CASE \E s \in PlannedSteps \ {"final", "commit"} : Goto(p, s)
  <2>1. PICK s \in PlannedSteps \ {"final", "commit"} : Goto(p, s)
    BY <1>5
  <2>2. s \in Steps
    BY DEF Steps, SyncSteps
  <2>3. pc'[p] = s /\ \A q \in Procs \ {p} : pc'[q] = pc[q]
    BY <2>1, <2>2, GotoType
  <2> QED
    BY <1>2, <2>3, PlanKept
<1> QED
  BY <1>3, <1>4, <1>5

(* The transaction opens only on the generation that was planned for, and  *)
(* only one at a time.                                                     *)
LEMMA PlanInvTransaction ==
    ASSUME TypeOK, PlanInv, NEW p \in Procs, Begin(p) \/ FinalRevalidation(p) PROVE PlanInv'
<1> USE DEF Begin, FinalRevalidation
<1>1. UNCHANGED <<index, loc>> /\ pc[p] \in PlannedSteps /\ {"final", "commit"} \subseteq Steps
  BY DEF PlannedSteps, Steps, SyncSteps
<1>2. CASE \E r \in {"busy", "changed", "failed"} : Return(p, r)
  <2>1. pc'[p] = "done" /\ \A q \in Procs \ {p} : pc'[q] = pc[q]
    BY <1>2, ReturnType DEF Results
  <2>2. pc'[p] \notin {"plan_scheme", "plan_docs"} \cup PlannedSteps
    BY <2>1 DEF PlannedSteps
  <2> QED
    BY <1>1, <2>1, <2>2, PlanLeft
<1>3. CASE /\ Goto(p, "final") /\ Preconditions(p)
           /\ ~(\E q \in Procs : Writing(q, Proj(p)))
  <2>1. pc'[p] = "final" /\ \A q \in Procs \ {p} : pc'[q] = pc[q]
    BY <1>1, <1>3, GotoType
  <2>2. PlanOK(p)'
    BY <1>1, <1>3, <2>1 DEF PlanInv, PlanOK, Proj, Preconditions, PlannedSteps
  <2> QED
    BY <1>1, <1>3, <2>1, <2>2, PlanStep
<1>4. CASE Goto(p, "commit") /\ pc[p] = "final"
  <2>1. pc'[p] = "commit" /\ \A q \in Procs \ {p} : pc'[q] = pc[q]
    BY <1>1, <1>4, GotoType
  <2>2. PlanOK(p)'
    BY <1>1, <1>4, <2>1 DEF PlanInv, PlanOK, Proj, PlannedSteps
  <2> QED
    BY <1>1, <1>4, <2>1, <2>2, PlanStep
<1> QED
  BY <1>2, <1>3, <1>4

(* A commit passes the generation of every other plan for the project. *)
LEMMA PlanInvCommit ==
    ASSUME TypeOK, PlanInv, NEW p \in Procs, Commit(p) PROVE PlanInv'
<1> USE DEF Commit
<1>1. pc[p] = "commit" /\ loc' = loc /\ {"ok", "busy"} \subseteq Results
  BY DEF Results
<1>2. pc'[p] = "done" /\ \A q \in Procs \ {p} : pc'[q] = pc[q]
  BY <1>1, ReturnType
<1>3. CASE UNCHANGED index
  <2>1. pc'[p] \notin {"plan_scheme", "plan_docs"} \cup PlannedSteps
    BY <1>2 DEF PlannedSteps
  <2> QED
    BY <1>1, <1>2, <1>3, <2>1, PlanLeft
<1>4. CASE Publish(p)
  <2>1. /\ Proj(p) \in Projects /\ index \in [Projects -> Index]
        /\ loc[p].gen = index[Proj(p)].gen /\ index[Proj(p)].gen \in Nat
    BY <1>1, SyncFacts, BoundsAssumption DEF SyncSteps, PlannedSteps, TypeOK, PlanInv, PlanOK, Index
  <2>2. /\ index'[Proj(p)].gen = index[Proj(p)].gen + 1
        /\ \A j \in Projects \ {Proj(p)} : index'[j] = index[j]
    BY <1>4, <2>1 DEF Publish
  <2>3. ASSUME NEW q \in Procs PROVE PlanOK(q)'
    <3>1. CASE q = p
      BY <1>2, <3>1 DEF PlanOK, PlannedSteps
    <3>2. CASE q # p /\ pc[q] \in {"plan_scheme", "plan_docs"} \cup PlannedSteps
      <4>1. /\ pc'[q] = pc[q] /\ Proj(q)' = Proj(q) /\ PlanOK(q) /\ Proj(q) \in Projects
            /\ loc[q].gen \in Nat
        BY <1>1, <1>2, <3>2, SyncFacts, BoundsAssumption DEF PlanInv, Proj, SyncSteps, Loc
      <4>2. CASE Proj(q) # Proj(p)
        BY <1>1, <2>2, <4>1, <4>2 DEF PlanOK, Proj
      <4>3. CASE Proj(q) = Proj(p)
        <5>1. pc[q] \notin {"final", "commit"}
          BY <1>1, <3>2, <4>3 DEF PlanInv
        <5>2. loc[q].gen <= index[Proj(q)].gen
          BY <3>2, <4>1 DEF PlanOK
        <5>3. loc[q].gen < index'[Proj(q)].gen
          BY <2>1, <2>2, <4>1, <4>3, <5>2
        <5>4. loc'[q].gen = loc[q].gen /\ index'[Proj(q)].gen \in Nat
          BY <1>1, <2>1, <2>2, <4>3
        <5> QED
          BY <4>1, <5>1, <5>3, <5>4 DEF PlanOK
      <4> QED
        BY <4>2, <4>3
    <3>3. CASE q # p /\ pc[q] \notin {"plan_scheme", "plan_docs"} \cup PlannedSteps
      BY <1>2, <3>3 DEF PlanOK, PlannedSteps
    <3> QED
      BY <3>1, <3>2, <3>3
  <2>4. ASSUME NEW q \in Procs, NEW r \in Procs \ {q},
               pc'[q] \in {"final", "commit"}, pc'[r] \in {"final", "commit"}
        PROVE  Proj(q)' # Proj(r)'
    BY <1>1, <1>2, <2>4 DEF PlanInv, Proj
  <2> QED
    BY <2>3, <2>4 DEF PlanInv
<1> QED
  BY <1>3, <1>4

(* Every other step starts, ends or is no part of a synchronization. *)
LEMMA PlanInvOther ==
    ASSUME TypeOK, PlanInv, NEW p \in Procs,
           \/ Start(p) \/ Scan(p) \/ GcAbsent(p) \/ GcLease(p) \/ GcInitial(p) \/ GcLive(p) \/ GcSweep(p)
           \/ SearchOpen(p) \/ SearchLookup(p) \/ StatsLease(p) \/ StatsRead(p) \/ Crash(p)
    PROVE  PlanInv'
<1>1. UNCHANGED index
  BY DEF Start, Scan, GcAbsent, GcLease, AcquireLease, GcInitial, GcLive, GcSweep, SearchOpen, SearchLookup,
         StatsLease, StatsRead, Crash, store
<1>2. \A q \in Procs \ {p} : loc'[q] = loc[q]
  BY DEF Start, Scan, GcAbsent, GcLease, AcquireLease, GcInitial, GcLive, GcSweep, SearchOpen, SearchLookup,
         StatsLease, StatsRead, Crash, Again, TypeOK
<1>3. \E s \in {"scan", "plan", "gc_lease", "open", "stats_lease", "gc_initial", "gc_first",
                "gc_second", "gc_sweep", "lookup", "stats_read", "done", "dead"} :
         pc' = [pc EXCEPT ![p] = s]
  <2>1. CASE Start(p)
    <3>1. PICK r \in Requests :
            Goto(p, CASE r.op = "sync" -> "scan" [] r.op = "gc" -> "gc_lease"
                      [] r.op = "search" -> "open" [] r.op = "stats" -> "stats_lease")
      BY <2>1 DEF Start
    <3> DEFINE next == CASE r.op = "sync" -> "scan" [] r.op = "gc" -> "gc_lease"
                         [] r.op = "search" -> "open" [] r.op = "stats" -> "stats_lease"
    <3>2. next \in {"scan", "gc_lease", "open", "stats_lease"}
      BY RequestsAssumption
    <3>3. pc' = [pc EXCEPT ![p] = next]
      BY <3>1 DEF Goto
    <3> HIDE DEF next
    <3> QED
      BY <3>2, <3>3
  <2>2. CASE \/ Scan(p) \/ GcAbsent(p) \/ GcLease(p) \/ GcInitial(p) \/ GcLive(p) \/ GcSweep(p)
    BY <2>2 DEF Scan, GcAbsent, GcLease, AcquireLease, GcInitial, GcLive, GcSweep, Return, Goto
  <2>3. CASE \/ SearchOpen(p) \/ SearchLookup(p) \/ StatsLease(p) \/ StatsRead(p) \/ Crash(p)
    BY <2>3 DEF SearchOpen, SearchLookup, StatsLease, StatsRead, Crash, Again, Return, Goto
  <2> QED
    BY <2>1, <2>2, <2>3
<1>4. /\ \A q \in Procs \ {p} : pc'[q] = pc[q]
      /\ pc'[p] \notin {"plan_scheme", "plan_docs"} \cup PlannedSteps
  BY <1>3 DEF TypeOK, PlannedSteps
<1> QED
  BY <1>1, <1>2, <1>4, PlanLeft

(* Only Commit changes an index. *)
LEMMA ProcessIndexChange ==
    ASSUME NEW p \in Procs, Process(p) \/ Crash(p)
    PROVE  UNCHANGED index \/ (Commit(p) /\ Publish(p))
<1>1. CASE \/ Start(p) \/ Scan(p) \/ PlanOpen(p) \/ PlanScheme(p) \/ PlanDocs(p) \/ ExecCheck(p)
           \/ Recheck(p) \/ Embed(p) \/ SyncLease(p)
  BY <1>1 DEF Start, Scan, PlanOpen, PlanScheme, PlanDocs, ExecCheck, Recheck, Embed, SyncLease,
              AcquireLease, store
<1>2. CASE \/ InsertVectors(p) \/ Begin(p) \/ FinalRevalidation(p) \/ GcAbsent(p) \/ GcLease(p) \/ GcInitial(p)
           \/ GcLive(p) \/ GcSweep(p)
  BY <1>2 DEF InsertVectors, Begin, FinalRevalidation, GcAbsent, GcLease, AcquireLease,
              GcInitial, GcLive, GcSweep, store
<1>3. CASE SearchOpen(p) \/ SearchLookup(p) \/ StatsLease(p) \/ StatsRead(p)
  BY <1>3 DEF SearchOpen, SearchLookup, StatsLease, StatsRead, store
<1>4. CASE Commit(p)
  BY <1>4 DEF Commit
<1>5. CASE Crash(p)
  BY <1>5 DEF Crash, store
<1> QED
  BY <1>1, <1>2, <1>3, <1>4, <1>5 DEF Process

LEMMA IndexChange ==
    ASSUME Next, index' # index
    PROVE  \E p \in Procs : Commit(p) /\ Publish(p)
<1>1. Environment \/ Terminated => UNCHANGED index
  BY DEF Environment, Edit, LoseCache, RebindLease, Recover, Terminated, store, vars
<1> QED
  BY <1>1, ProcessIndexChange DEF Next

(* Every step preserves the plan invariant. *)
LEMMA PlanInvNext == TypeOK /\ PlanInv /\ [Next]_vars => PlanInv'
<1> SUFFICES ASSUME TypeOK, PlanInv, [Next]_vars PROVE PlanInv'
  OBVIOUS
<1>1. ASSUME NEW p \in Procs, Process(p) \/ Crash(p) PROVE PlanInv'
  BY <1>1, PlanInvPlanning, PlanInvExecuting, PlanInvTransaction, PlanInvCommit, PlanInvOther DEF Process
<1>2. CASE Environment \/ Terminated \/ UNCHANGED vars
  <2>1. UNCHANGED <<index, pc, loc>>
    BY <1>2 DEF Environment, Edit, LoseCache, RebindLease, Recover, Terminated, store, vars
  <2> QED
    BY <2>1 DEF PlanInv, PlanOK, Proj
<1> QED
  BY <1>1, <1>2 DEF Next

(* Synchronizations of a project never overwrite a result they have not    *)
(* seen, whatever the environment does, the last instant before the commit *)
(* included: the generation a plan was made for is checked inside the      *)
(* transaction, and generations never repeat.                              *)
THEOREM PublicationsSerialized == Spec => PublishReplacesItsBase
<1>1. Init => PlanInv
  BY DEF Init, PlanInv, PlanOK, PlannedSteps
<1>2. TypeOK /\ PlanInv /\ [Next]_vars =>
        [\A j \in Projects :
           index'[j] # index[j] =>
              /\ index'[j].gen = index[j].gen + 1
              /\ \E p \in Procs : pc[p] = "commit" /\ Proj(p) = j /\ loc[p].docs = index[j].docs]_vars
  <2> SUFFICES ASSUME TypeOK, PlanInv, Next, NEW j \in Projects, index'[j] # index[j]
               PROVE  /\ index'[j].gen = index[j].gen + 1
                      /\ \E p \in Procs : /\ pc[p] = "commit" /\ Proj(p) = j
                                          /\ loc[p].docs = index[j].docs
    OBVIOUS
  <2>1. PICK p \in Procs : Commit(p) /\ Publish(p)
    BY IndexChange
  <2>2. pc[p] = "commit" /\ pc[p] \in PlannedSteps /\ index \in [Projects -> Index]
    BY <2>1 DEF Commit, PlannedSteps, TypeOK
  <2>3. Proj(p) = j
    BY <2>1, <2>2 DEF Publish
  <2>4. loc[p].gen = index[j].gen /\ loc[p].docs = index[j].docs
    BY <2>2, <2>3 DEF PlanInv, PlanOK
  <2>5. index'[j].gen = loc[p].gen + 1
    BY <2>1, <2>2, <2>3 DEF Publish
  <2> QED
    BY <2>2, <2>3, <2>4, <2>5
<1> QED
  BY <1>1, <1>2, PlanInvNext, TypeCorrect, PTL DEF Spec, PublishReplacesItsBase

-----------------------------------------------------------------------------
(* How a process gets on with a synchronization.                           *)

KeepsPlan(p) ==
    /\ loc'[p].req = loc[p].req /\ loc'[p].scan = loc[p].scan /\ loc'[p].root = loc[p].root
    /\ loc'[p].gen = loc[p].gen /\ loc'[p].scheme = loc[p].scheme /\ loc'[p].docs = loc[p].docs
    /\ loc'[p].deletions = loc[p].deletions /\ loc'[p].refs = loc[p].refs

Leaves(p) == pc'[p] \notin SyncSteps \ {"scan"} /\ loc'[p].losses \in {loc[p].losses, losses}
Scans(p) ==
    /\ pc[p] = "scan" /\ pc'[p] = "plan" /\ loc'[p].req = loc[p].req /\ loc'[p].losses = loc[p].losses
    /\ loc'[p].scan.dir = source[Proj(p)].dir
    /\ ~loc'[p].root \/ loc'[p].scan = source[Proj(p)]
Opens(p) ==
    /\ \/ pc[p] = "plan" /\ pc'[p] = "plan_scheme"
       \/ pc[p] = "plan_scheme" /\ pc'[p] = "plan_docs"
    /\ loc'[p].req = loc[p].req
    /\ loc'[p].scan = loc[p].scan /\ loc'[p].root = loc[p].root /\ loc'[p].losses = loc[p].losses
Plans(p) ==
    LET docs == index[Proj(p)].docs
    IN /\ pc[p] = "plan_docs" /\ pc'[p] = "exec" /\ ~PlanRefused(p, docs)
       /\ loc'[p].req = loc[p].req /\ loc'[p].scan = loc[p].scan /\ loc'[p].root = loc[p].root
       /\ loc'[p].scheme = loc[p].scheme /\ loc'[p].losses = loc[p].losses
       /\ loc'[p].docs = docs /\ loc'[p].upserts = Stale(p, docs) /\ loc'[p].metas = Touched(p, docs)
       /\ loc'[p].deletions = Absent(p, docs) /\ loc'[p].refs = Unchanged(p, docs)

Gone(p) == {f \in loc[p].refs : loc[p].docs[f].key \notin cache}
Checks(p) ==
    /\ pc[p] = "exec" /\ pc'[p] \in {"recheck", "embed"}
    /\ pc'[p] = "embed" => loc[p].refs = {}
    /\ KeepsPlan(p) /\ loc'[p].losses = losses
    /\ loc'[p].upserts = loc[p].upserts /\ loc'[p].metas = loc[p].metas
Rechecks(p) ==
    /\ pc[p] = "recheck" /\ pc'[p] = "embed" /\ KeepsPlan(p) /\ loc'[p].losses = losses
    /\ loc'[p].upserts = loc[p].upserts \cup Gone(p) /\ loc'[p].metas = loc[p].metas \ Gone(p)
Prepares(p) ==
    /\ \/ pc[p] = "embed" /\ pc'[p] = "lease"
       \/ pc[p] = "lease" /\ pc'[p] = "insert"
       \/ pc[p] = "insert" /\ pc'[p] = "begin" /\ cache' = cache \cup Requested(p)
    /\ KeepsPlan(p) /\ loc'[p].losses = loc[p].losses
    /\ loc'[p].upserts = loc[p].upserts /\ loc'[p].metas = loc[p].metas
Writes(p) ==
    /\ \/ pc[p] = "begin" /\ pc'[p] = "final" /\ Preconditions(p)
       \/ pc[p] = "final" /\ pc'[p] = "commit" /\ SourcesCurrent(p)
    /\ loc'[p] = loc[p] /\ held'[p] = held[p]

GetsOn(p) ==
    \/ Leaves(p) \/ Scans(p) \/ Opens(p) \/ Plans(p)
    \/ Checks(p) \/ Rechecks(p) \/ Prepares(p) \/ Writes(p)

(* An operation that ends. *)
LEMMA EndsLeaving ==
    ASSUME TypeOK, NEW p \in Procs, NEW r, Return(p, r), loc' = loc
    PROVE  Elsewhere(p) /\ Leaves(p)
<1>1. Elsewhere(p) /\ pc'[p] = "done"
  BY ReturnElsewhere
<1> QED
  BY <1>1 DEF Leaves, SyncSteps, PlannedSteps

(* A process that moves within its operation. *)
LEMMA GotoMoves ==
    ASSUME TypeOK, NEW p \in Procs, NEW s, Goto(p, s)
    PROVE  pc'[p] = s /\ \A q \in Procs \ {p} : pc'[q] = pc[q]
BY DEF TypeOK, Goto

LEMMA ScanGetsOn ==
    ASSUME TypeOK, NEW p \in Procs, Scan(p)
    PROVE  Elsewhere(p) /\ Scans(p)
<1>1. /\ pc[p] = "scan" /\ UNCHANGED <<held>> /\ Goto(p, "plan") /\ loc[p] \in Loc /\ loc \in [Procs -> Loc]
      /\ source[Proj(p)] \in Corpus
  BY SyncFacts DEF Scan, TypeOK, SyncSteps
<1>2. pc'[p] = "plan" /\ \A q \in Procs \ {p} : pc'[q] = pc[q]
  BY <1>1, GotoMoves
<1>3. CASE loc' = [loc EXCEPT ![p].scan = source[Proj(p)]]
  <2>1. /\ \A q \in Procs \ {p} : loc'[q] = loc[q]
        /\ loc'[p].scan = source[Proj(p)] /\ loc'[p].req = loc[p].req /\ loc'[p].losses = loc[p].losses
    BY <1>1, <1>3 DEF Loc
  <2> QED
    BY <1>1, <1>2, <2>1 DEF Elsewhere, Scans
<1>4. CASE loc' = [loc EXCEPT ![p].root = FALSE,
                     ![p].scan = [source[Proj(p)] EXCEPT !.files = [f \in Paths |-> None]]]
  <2> DEFINE none == [source[Proj(p)] EXCEPT !.files = [f \in Paths |-> None]]
  <2>1. none.dir = source[Proj(p)].dir
    BY <1>1 DEF Corpus
  <2> HIDE DEF none
  <2>2. /\ \A q \in Procs \ {p} : loc'[q] = loc[q]
        /\ loc'[p].scan = none /\ loc'[p].root = FALSE
        /\ loc'[p].req = loc[p].req /\ loc'[p].losses = loc[p].losses
    BY <1>1, <1>4 DEF Loc, none
  <2> QED
    BY <1>1, <1>2, <2>1, <2>2 DEF Elsewhere, Scans
<1> QED
  BY <1>3, <1>4 DEF Scan

LEMMA PlanOpenGetsOn ==
    ASSUME TypeOK, NEW p \in Procs, PlanOpen(p)
    PROVE  Elsewhere(p) /\ (Leaves(p) \/ Opens(p))
<1>1. loc[p] \in Loc /\ loc \in [Procs -> Loc] /\ pc[p] = "plan"
  BY DEF TypeOK, PlanOpen
<1>2. CASE Return(p, "busy") /\ UNCHANGED loc
  BY <1>2, EndsLeaving
<1>3. CASE /\ loc' = [loc EXCEPT ![p].gen = index[Proj(p)].gen]
           /\ Goto(p, "plan_scheme") /\ UNCHANGED held
  <2>1. pc'[p] = "plan_scheme" /\ \A q \in Procs \ {p} : pc'[q] = pc[q]
    BY <1>3, GotoMoves
  <2>2. /\ \A q \in Procs \ {p} : loc'[q] = loc[q]
        /\ loc'[p].req = loc[p].req /\ loc'[p].scan = loc[p].scan /\ loc'[p].root = loc[p].root
        /\ loc'[p].losses = loc[p].losses
    BY <1>1, <1>3 DEF Loc
  <2> QED
    BY <1>1, <1>3, <2>1, <2>2 DEF Elsewhere, Opens
<1> QED
  BY <1>2, <1>3 DEF PlanOpen

LEMMA PlanSchemeGetsOn ==
    ASSUME TypeOK, NEW p \in Procs, PlanScheme(p)
    PROVE  Elsewhere(p) /\ Opens(p)
<1>1. /\ loc[p] \in Loc /\ loc \in [Procs -> Loc] /\ pc[p] = "plan_scheme"
      /\ loc' = [loc EXCEPT ![p].scheme = index[Proj(p)].scheme]
      /\ Goto(p, "plan_docs") /\ UNCHANGED held
  BY DEF TypeOK, PlanScheme
<1>2. pc'[p] = "plan_docs" /\ \A q \in Procs \ {p} : pc'[q] = pc[q]
  BY <1>1, GotoMoves
<1>3. /\ \A q \in Procs \ {p} : loc'[q] = loc[q]
      /\ loc'[p].req = loc[p].req /\ loc'[p].scan = loc[p].scan /\ loc'[p].root = loc[p].root
      /\ loc'[p].losses = loc[p].losses
  BY <1>1 DEF Loc
<1> QED
  BY <1>1, <1>2, <1>3 DEF Elsewhere, Opens

LEMMA PlanDocsGetsOn ==
    ASSUME TypeOK, NEW p \in Procs, PlanDocs(p)
    PROVE  Elsewhere(p) /\ (Leaves(p) \/ Plans(p))
<1> DEFINE docs == index[Proj(p)].docs
<1>1. loc[p] \in Loc /\ loc \in [Procs -> Loc] /\ pc[p] = "plan_docs"
  BY DEF TypeOK, PlanDocs
<1>2. CASE \E r : Return(p, r) /\ UNCHANGED loc
  BY <1>2, EndsLeaving
<1>3. CASE /\ ~PlanRefused(p, docs) /\ Goto(p, "exec") /\ UNCHANGED held
           /\ loc' = [loc EXCEPT ![p].docs = docs,
                        ![p].upserts = Stale(p, docs), ![p].metas = Touched(p, docs),
                        ![p].deletions = Absent(p, docs), ![p].refs = Unchanged(p, docs)]
  <2>1. pc'[p] = "exec" /\ \A q \in Procs \ {p} : pc'[q] = pc[q]
    BY <1>3, GotoMoves
  <2>2. /\ \A q \in Procs \ {p} : loc'[q] = loc[q]
        /\ loc'[p].req = loc[p].req /\ loc'[p].scan = loc[p].scan /\ loc'[p].root = loc[p].root
        /\ loc'[p].scheme = loc[p].scheme /\ loc'[p].losses = loc[p].losses
    BY <1>1, <1>3 DEF Loc
  <2>3. /\ loc'[p].docs = docs /\ loc'[p].upserts = Stale(p, docs) /\ loc'[p].metas = Touched(p, docs)
        /\ loc'[p].deletions = Absent(p, docs) /\ loc'[p].refs = Unchanged(p, docs)
    BY <1>1, <1>3 DEF Loc
  <2> QED
    BY <1>1, <1>3, <2>1, <2>2, <2>3 DEF Elsewhere, Plans
<1> QED
  BY <1>2, <1>3 DEF PlanDocs

LEMMA ExecCheckGetsOn ==
    ASSUME TypeOK, NEW p \in Procs, ExecCheck(p)
    PROVE  Elsewhere(p) /\ (Leaves(p) \/ Checks(p))
<1>1. loc[p] \in Loc /\ loc \in [Procs -> Loc] /\ pc[p] = "exec"
  BY DEF TypeOK, ExecCheck
<1>2. CASE \E r : Return(p, r) /\ UNCHANGED loc
  BY <1>2, EndsLeaving
<1>3. ASSUME loc' = [loc EXCEPT ![p].losses = losses]
      PROVE  /\ \A q \in Procs \ {p} : loc'[q] = loc[q]
             /\ KeepsPlan(p) /\ loc'[p].losses = losses
             /\ loc'[p].upserts = loc[p].upserts /\ loc'[p].metas = loc[p].metas
  BY <1>1, <1>3 DEF Loc, KeepsPlan
<1>4. CASE loc' = [loc EXCEPT ![p].losses = losses] /\ Return(p, "ok")
  <2>1. Elsewhere(p) /\ pc'[p] = "done"
    BY <1>3, <1>4, ReturnElsewhere
  <2> QED
    BY <1>3, <1>4, <2>1 DEF Leaves, SyncSteps, PlannedSteps
<1>5. CASE /\ loc' = [loc EXCEPT ![p].losses = losses] /\ UNCHANGED held
           /\ Goto(p, "recheck") \/ (Goto(p, "embed") /\ loc[p].refs = {})
  <2>1. pc'[p] \in {"recheck", "embed"} /\ \A q \in Procs \ {p} : pc'[q] = pc[q]
    BY <1>5, GotoMoves
  <2>2. pc'[p] = "embed" => loc[p].refs = {}
    BY <1>5, GotoMoves
  <2> QED
    BY <1>1, <1>3, <1>5, <2>1, <2>2 DEF Elsewhere, Checks
<1> QED
  BY <1>2, <1>4, <1>5 DEF ExecCheck

LEMMA RecheckGetsOn ==
    ASSUME TypeOK, NEW p \in Procs, Recheck(p)
    PROVE  Elsewhere(p) /\ (Leaves(p) \/ Rechecks(p))
<1> DEFINE ups == loc[p].upserts \cup Gone(p)
           metas == loc[p].metas \ Gone(p)
<1>1. loc[p] \in Loc /\ loc \in [Procs -> Loc] /\ pc[p] = "recheck"
  BY DEF TypeOK, Recheck
<1>2. CASE \E r : Return(p, r) /\ UNCHANGED loc
  BY <1>2, EndsLeaving
<1>3. CASE /\ loc' = [loc EXCEPT ![p].upserts = ups, ![p].metas = metas, ![p].losses = losses]
           /\ (Goto(p, "embed") /\ UNCHANGED held) \/ Return(p, "ok")
  <2> HIDE DEF ups, metas
  <2>1. /\ \A q \in Procs \ {p} : loc'[q] = loc[q]
        /\ KeepsPlan(p) /\ loc'[p].losses = losses
        /\ loc'[p].upserts = ups /\ loc'[p].metas = metas
    BY <1>1, <1>3 DEF Loc, KeepsPlan
  <2>2. CASE Return(p, "ok")
    <3>1. Elsewhere(p) /\ pc'[p] = "done"
      BY <2>1, <2>2, ReturnElsewhere
    <3> QED
      BY <2>1, <3>1 DEF Leaves, SyncSteps, PlannedSteps
  <2>3. CASE Goto(p, "embed") /\ UNCHANGED held
    <3>1. pc'[p] = "embed" /\ \A q \in Procs \ {p} : pc'[q] = pc[q]
      BY <2>3, GotoMoves
    <3> QED
      BY <1>1, <2>1, <2>3, <3>1 DEF Elsewhere, Rechecks, ups, metas
  <2> QED
    BY <1>3, <2>2, <2>3
<1> QED
  BY <1>2, <1>3 DEF Recheck, Gone

LEMMA PrepareGetsOn ==
    ASSUME TypeOK, NEW p \in Procs, Embed(p) \/ SyncLease(p) \/ InsertVectors(p)
    PROVE  Elsewhere(p) /\ (Leaves(p) \/ Prepares(p))
<1>1. loc[p] \in Loc /\ loc \in [Procs -> Loc] /\ held \in [Procs -> [ino : Nat, mode : {"shared", "exclusive"}] \cup {None}]
  BY DEF TypeOK
<1>2. CASE \E r : Return(p, r) /\ UNCHANGED loc
  BY <1>2, EndsLeaving
<1>3. CASE /\ pc[p] = "embed" /\ loc' = [loc EXCEPT ![p].missing = Requested(p) \ cache]
           /\ Goto(p, "lease") /\ UNCHANGED held
  <2>1. pc'[p] = "lease" /\ \A q \in Procs \ {p} : pc'[q] = pc[q]
    BY <1>3, GotoMoves
  <2>2. /\ \A q \in Procs \ {p} : loc'[q] = loc[q]
        /\ KeepsPlan(p) /\ loc'[p].losses = loc[p].losses
        /\ loc'[p].upserts = loc[p].upserts /\ loc'[p].metas = loc[p].metas
    BY <1>1, <1>3 DEF Loc, KeepsPlan
  <2> QED
    BY <1>3, <2>1, <2>2 DEF Elsewhere, Prepares
<1>4. CASE /\ pc[p] = "lease" /\ UNCHANGED loc /\ Goto(p, "insert")
           /\ held' = [held EXCEPT ![p] = [ino |-> leaseIno, mode |-> "exclusive"]]
  <2>1. pc'[p] = "insert" /\ \A q \in Procs \ {p} : pc'[q] = pc[q]
    BY <1>4, GotoMoves
  <2> QED
    BY <1>1, <1>4, <2>1 DEF Elsewhere, Prepares, KeepsPlan
<1>5. CASE /\ pc[p] = "insert" /\ UNCHANGED <<loc, held>> /\ Goto(p, "begin")
           /\ cache' = cache \cup Requested(p)
  <2>1. pc'[p] = "begin" /\ \A q \in Procs \ {p} : pc'[q] = pc[q]
    BY <1>5, GotoMoves
  <2> QED
    BY <1>5, <2>1 DEF Elsewhere, Prepares, KeepsPlan
<1>6. CASE Embed(p)
  BY <1>2, <1>3, <1>6 DEF Embed
<1>7. CASE SyncLease(p)
  BY <1>2, <1>4, <1>7 DEF SyncLease, AcquireLease
<1>8. CASE InsertVectors(p)
  BY <1>2, <1>5, <1>8 DEF InsertVectors
<1> QED
  BY <1>6, <1>7, <1>8

LEMMA WriteGetsOn ==
    ASSUME TypeOK, NEW p \in Procs, Begin(p) \/ FinalRevalidation(p)
    PROVE  Elsewhere(p) /\ (Leaves(p) \/ Writes(p))
<1>1. CASE \E r : Return(p, r) /\ UNCHANGED loc
  BY <1>1, EndsLeaving
<1>2. CASE /\ UNCHANGED <<loc, held>>
           /\ \/ pc[p] = "begin" /\ Goto(p, "final") /\ Preconditions(p)
              \/ pc[p] = "final" /\ Goto(p, "commit") /\ SourcesCurrent(p)
  BY <1>2, GotoMoves DEF Elsewhere, Writes
<1> QED
  BY <1>1, <1>2 DEF Begin, FinalRevalidation

LEMMA OthersGetOn ==
    ASSUME TypeOK, NEW p \in Procs,
           \/ Start(p) \/ Commit(p) \/ GcAbsent(p) \/ GcLease(p) \/ GcInitial(p) \/ GcLive(p) \/ GcSweep(p)
           \/ SearchOpen(p) \/ SearchLookup(p) \/ StatsLease(p) \/ StatsRead(p) \/ Crash(p)
    PROVE  Elsewhere(p) /\ Leaves(p)
<1>1. /\ loc[p] \in Loc /\ loc \in [Procs -> Loc]
      /\ held \in [Procs -> [ino : Nat, mode : {"shared", "exclusive"}] \cup {None}]
      /\ pc \in [Procs -> Steps \cup {"idle", "done", "dead"}]
  BY DEF TypeOK
<1>2. (\A q \in Procs \ {p} : loc'[q] = loc[q]) /\ loc'[p].losses = loc[p].losses
  <2>1. CASE Start(p)
    <3>1. PICK r \in Requests : loc' = [loc EXCEPT ![p].req = r]
      BY <2>1 DEF Start
    <3> QED
      BY <1>1, <3>1 DEF Loc
  <2>2. CASE Commit(p) \/ GcAbsent(p) \/ GcLease(p) \/ GcSweep(p) \/ Crash(p)
    BY <2>2 DEF Commit, GcAbsent, GcLease, AcquireLease, GcSweep, Crash
  <2>3. CASE GcInitial(p) \/ GcLive(p)
    BY <1>1, <2>3 DEF GcInitial, GcLive, Loc
  <2>4. CASE SearchOpen(p) \/ SearchLookup(p) \/ StatsLease(p) \/ StatsRead(p)
    BY <1>1, <2>4 DEF SearchOpen, SearchLookup, StatsLease, StatsRead, Again, Loc
  <2> QED
    BY <2>1, <2>2, <2>3, <2>4
<1>3. \A q \in Procs \ {p} : held'[q] = held[q]
  <2>1. CASE Start(p) \/ Commit(p) \/ GcAbsent(p) \/ GcLease(p) \/ GcSweep(p) \/ Crash(p)
    BY <1>1, <2>1 DEF Start, Commit, GcAbsent, GcLease, AcquireLease, GcSweep, Crash, Return
  <2>2. CASE GcInitial(p) \/ GcLive(p)
    BY <1>1, <2>2 DEF GcInitial, GcLive, Return
  <2>3. CASE SearchOpen(p) \/ SearchLookup(p) \/ StatsLease(p) \/ StatsRead(p)
    BY <1>1, <2>3 DEF SearchOpen, SearchLookup, StatsLease, StatsRead, Again, Return
  <2> QED
    BY <2>1, <2>2, <2>3
<1>4. (\A q \in Procs \ {p} : pc'[q] = pc[q]) /\ pc'[p] \notin SyncSteps \ {"scan"}
  <2> USE DEF SyncSteps, PlannedSteps
  <2>1. CASE Start(p)
    <3>1. PICK r \in Requests :
            Goto(p, CASE r.op = "sync" -> "scan" [] r.op = "gc" -> "gc_lease"
                      [] r.op = "search" -> "open" [] r.op = "stats" -> "stats_lease")
      BY <2>1 DEF Start
    <3> DEFINE next == CASE r.op = "sync" -> "scan" [] r.op = "gc" -> "gc_lease"
                         [] r.op = "search" -> "open" [] r.op = "stats" -> "stats_lease"
    <3>2. next \in {"scan", "gc_lease", "open", "stats_lease"}
      BY RequestsAssumption
    <3>3. pc' = [pc EXCEPT ![p] = next]
      BY <3>1 DEF Goto
    <3> HIDE DEF next
    <3> QED
      BY <1>1, <3>2, <3>3
  <2>2. CASE Commit(p) \/ GcAbsent(p) \/ GcLease(p) \/ GcSweep(p) \/ Crash(p)
    BY <1>1, <2>2 DEF Commit, GcAbsent, GcLease, AcquireLease, GcSweep, Crash, Return, Goto
  <2>3. CASE GcInitial(p) \/ GcLive(p)
    BY <1>1, <2>3 DEF GcInitial, GcLive, Return, Goto
  <2>4. CASE SearchOpen(p) \/ SearchLookup(p) \/ StatsLease(p) \/ StatsRead(p)
    BY <1>1, <2>4 DEF SearchOpen, SearchLookup, StatsLease, StatsRead, Again, Return, Goto
  <2> QED
    BY <2>1, <2>2, <2>3, <2>4
<1> QED
  BY <1>2, <1>3, <1>4 DEF Elsewhere, Leaves

(* Every step of a process: it alone moves, nothing is edited or lost, and *)
(* an index changes only by its commit.                                    *)
LEMMA ProcessGetsOn ==
    ASSUME TypeOK, NEW p \in Procs, Process(p) \/ Crash(p)
    PROVE  /\ Elsewhere(p) /\ GetsOn(p) /\ UNCHANGED <<source, losses, edits>>
           /\ UNCHANGED index \/ (Commit(p) /\ Publish(p))
<1>1. Elsewhere(p) /\ GetsOn(p)
  BY ScanGetsOn, PlanOpenGetsOn, PlanSchemeGetsOn, PlanDocsGetsOn, ExecCheckGetsOn, RecheckGetsOn,
     PrepareGetsOn, WriteGetsOn, OthersGetOn DEF Process, GetsOn
<1>2. UNCHANGED <<source, losses, edits>>
  <2>1. NoFault \/ Fault => UNCHANGED <<losses, edits>>
    BY DEF NoFault, Fault, bounds
  <2>2. CASE \/ Start(p) \/ Scan(p) \/ PlanOpen(p) \/ PlanScheme(p) \/ PlanDocs(p) \/ ExecCheck(p)
             \/ Recheck(p) \/ Embed(p) \/ SyncLease(p)
    BY <2>1, <2>2 DEF Start, Scan, PlanOpen, PlanScheme, PlanDocs, ExecCheck, Recheck, Embed, SyncLease,
                      AcquireLease
  <2>3. CASE \/ InsertVectors(p) \/ Begin(p) \/ FinalRevalidation(p) \/ Commit(p) \/ GcAbsent(p)
             \/ GcLease(p) \/ GcInitial(p) \/ GcLive(p) \/ GcSweep(p)
    BY <2>1, <2>3 DEF InsertVectors, Begin, FinalRevalidation, Commit, GcAbsent, GcLease, AcquireLease,
                      GcInitial, GcLive, GcSweep
  <2>4. CASE SearchOpen(p) \/ SearchLookup(p) \/ StatsLease(p) \/ StatsRead(p) \/ Crash(p)
    BY <2>1, <2>4 DEF SearchOpen, SearchLookup, StatsLease, StatsRead, Crash
  <2> QED
    BY <2>2, <2>3, <2>4 DEF Process
<1>3. UNCHANGED index \/ (Commit(p) /\ Publish(p))
  BY ProcessIndexChange
<1> QED
  BY <1>1, <1>2, <1>3

-----------------------------------------------------------------------------
(* What a plan says of the pages, and what a commit makes of it.           *)

(* A plan that is not refused accounts for every indexed page. *)
LEMMA PlansContents ==
    ASSUME TypeOK, NEW p \in Procs, Plans(p) PROVE PlanContents(p)'
<1> DEFINE docs == index[Proj(p)].docs
<1>1. /\ Full(p)' <=> Full(p)
      /\ NewScheme(p)' <=> NewScheme(p)
      /\ Present(p)' = Present(p) /\ RejectedIn(p)' = RejectedIn(p)
  BY DEF Plans, Full, NewScheme, Present, RejectedIn
<1>2. /\ ~PlanRefused(p, docs) /\ loc'[p].docs = docs /\ loc'[p].scan = loc[p].scan
      /\ loc'[p].root = loc[p].root
      /\ loc'[p].upserts = Stale(p, docs) /\ loc'[p].metas = Touched(p, docs)
      /\ loc'[p].deletions = Absent(p, docs) /\ loc'[p].refs = Unchanged(p, docs)
      /\ pc'[p] = "exec"
  BY DEF Plans
<1> HIDE DEF docs
<1>3. ASSUME NEW f \in Existing(docs), f \notin Stale(p, docs), f \notin Absent(p, docs)
      PROVE  \/ Full(p)
             \/ ~NewScheme(p) /\ (f \in Touched(p, docs) => docs[f].hash = loc[p].scan.files[f].content)
  <2>1. CASE f \in Present(p)
    BY <1>3, <2>1 DEF Stale, Unchanged
  <2>2. CASE f \notin Present(p)
    <3>1. f \in Retained(p, docs)
      BY <1>3, <2>2 DEF Retained
    <3> QED
      BY <1>2, <2>2, <3>1 DEF PlanRefused, Touched
  <2> QED
    BY <2>1, <2>2
<1>4. ASSUME NEW f \in Existing(docs), f \notin Stale(p, docs), Full(p) \/ f \in Absent(p, docs)
      PROVE  loc[p].root /\ (loc[p].scan.files[f] = None \/ f \in RejectedIn(p))
  <2>1. f \in Paths /\ f \notin Present(p)
    BY <1>4 DEF Existing, Stale, Unchanged, Absent
  <2>2. f \notin Unknown(p)
    BY <1>2, <1>4 DEF PlanRefused, Absent
  <2>3. loc[p].scan.files[f] # None => loc[p].scan.files[f].content \in Contents \cup {Rejected, Unreadable}
    <3>1. loc[p].scan \in Corpus
      BY DEF TypeOK, ProcessOK, Plans, SyncSteps
    <3> QED
      BY <2>1, <3>1 DEF Corpus, File
  <2> QED
    BY <2>1, <2>2, <2>3 DEF Unknown, Present, RejectedIn
<1>5. Present(p) \cap Existing(docs) \subseteq Stale(p, docs) \cup Unchanged(p, docs)
  BY DEF Stale
<1> QED
  BY <1>1, <1>2, <1>3, <1>4, <1>5 DEF PlanContents

(* Going on with a plan may add replacements, never renewals. *)
LEMMA KeptContents ==
    ASSUME NEW p \in Procs, pc[p] \in PlannedSteps, PlanContents(p), KeepsPlan(p),
           loc[p].upserts \subseteq loc'[p].upserts, loc'[p].metas \subseteq loc[p].metas
    PROVE  PlanContents(p)'
<1>1. /\ Full(p)' <=> Full(p)
      /\ NewScheme(p)' <=> NewScheme(p)
      /\ Present(p)' = Present(p) /\ RejectedIn(p)' = RejectedIn(p)
  BY DEF KeepsPlan, Full, NewScheme, Present, RejectedIn
<1>2. /\ loc'[p].docs = loc[p].docs /\ loc'[p].scan = loc[p].scan /\ loc'[p].root = loc[p].root
      /\ loc'[p].deletions = loc[p].deletions /\ loc'[p].refs = loc[p].refs
  BY DEF KeepsPlan
<1> QED
  BY <1>1, <1>2 DEF PlanContents

(* A process that moves keeps its part of the invariant. *)
LEMMA PlannedGetsOn ==
    ASSUME TypeOK, PlannedInv, NEW p \in Procs, GetsOn(p), UNCHANGED index \/ pc'[p] = "done"
    PROVE  /\ PlanContents(p)'
           /\ pc'[p] \in {"final", "commit"} => loc'[p].scheme = index'[Proj(p)'].scheme
<1>1. CASE Leaves(p) \/ Scans(p) \/ Opens(p)
  BY <1>1 DEF Leaves, Scans, Opens, PlanContents, SyncSteps, PlannedSteps
<1>2. CASE Plans(p)
  BY <1>2, PlansContents DEF Plans
<1>3. CASE Checks(p) \/ Rechecks(p) \/ Prepares(p)
  <2>1. /\ pc[p] \in PlannedSteps /\ KeepsPlan(p) /\ pc'[p] \notin {"final", "commit"}
        /\ loc[p].upserts \subseteq loc'[p].upserts /\ loc'[p].metas \subseteq loc[p].metas
    BY <1>3 DEF Checks, Rechecks, Prepares, PlannedSteps
  <2> QED
    BY <2>1, KeptContents DEF PlannedInv
<1>4. CASE Writes(p)
  <2>1. /\ pc[p] \in PlannedSteps /\ KeepsPlan(p) /\ UNCHANGED index /\ Proj(p)' = Proj(p)
        /\ loc[p].upserts \subseteq loc'[p].upserts /\ loc'[p].metas \subseteq loc[p].metas
        /\ loc[p].scheme = index[Proj(p)].scheme
    <3>1. pc[p] \in {"begin", "final"} /\ pc'[p] # "done" /\ loc'[p] = loc[p]
      BY <1>4 DEF Writes
    <3>2. KeepsPlan(p) /\ Proj(p)' = Proj(p)
      BY <3>1 DEF KeepsPlan, Proj
    <3>3. loc[p].scheme = index[Proj(p)].scheme
      BY <1>4 DEF Writes, Preconditions, PlannedInv
    <3> QED
      BY <3>1, <3>2, <3>3 DEF PlannedSteps
  <2> QED
    BY <2>1, KeptContents DEF PlannedInv, KeepsPlan
<1> QED
  BY <1>1, <1>2, <1>3, <1>4 DEF GetsOn

LEMMA PlannedInvNext == TypeOK /\ PlanInv /\ PlannedInv /\ [Next]_vars => PlannedInv'
<1> SUFFICES ASSUME TypeOK, PlanInv, PlannedInv, [Next]_vars PROVE PlannedInv'
  OBVIOUS
<1>1. ASSUME NEW p \in Procs, Process(p) \/ Crash(p) PROVE PlannedInv'
  <2>1. Elsewhere(p) /\ GetsOn(p) /\ (UNCHANGED index \/ (Commit(p) /\ Publish(p)))
    BY <1>1, ProcessGetsOn
  <2>2. Commit(p) => pc'[p] = "done" /\ pc[p] = "commit"
    BY ReturnElsewhere DEF Commit, Return, TypeOK
  <2>3. PlanContents(p)' /\ (pc'[p] \in {"final", "commit"} => loc'[p].scheme = index'[Proj(p)'].scheme)
    BY <2>1, <2>2, PlannedGetsOn
  <2>4. ASSUME NEW q \in Procs \ {p}
        PROVE  /\ PlanContents(q)'
               /\ pc'[q] \in {"final", "commit"} => loc'[q].scheme = index'[Proj(q)'].scheme
    <3>1. pc'[q] = pc[q] /\ loc'[q] = loc[q]
      BY <2>1 DEF Elsewhere
    <3>2. PlanContents(q)'
      BY <3>1 DEF PlannedInv, PlanContents, Full, NewScheme, Present, RejectedIn
    <3>3. ASSUME pc[q] \in {"final", "commit"} PROVE index'[Proj(q)] = index[Proj(q)]
      <4>1. CASE UNCHANGED index
        BY <4>1
      <4>2. CASE Commit(p) /\ Publish(p)
        <5>1. Proj(p) # Proj(q) /\ Proj(q) \in Projects /\ index \in [Projects -> Index]
          BY <2>2, <3>3, <4>2, SyncFacts DEF PlanInv, TypeOK, SyncSteps, PlannedSteps
        <5> QED
          BY <4>2, <5>1 DEF Publish
      <4> QED
        BY <2>1, <4>1, <4>2
    <3>4. Proj(q)' = Proj(q)
      BY <3>1 DEF Proj
    <3> QED
      BY <3>1, <3>2, <3>3, <3>4 DEF PlannedInv
  <2> QED
    BY <2>3, <2>4 DEF PlannedInv
<1>2. CASE Environment \/ Terminated \/ UNCHANGED vars
  <2>1. UNCHANGED <<index, pc, loc>>
    BY <1>2 DEF Environment, Edit, LoseCache, RebindLease, Recover, Terminated, store, vars
  <2> QED
    BY <2>1 DEF PlannedInv, PlanContents, Full, NewScheme, Present, RejectedIn, Proj
<1> QED
  BY <1>1, <1>2 DEF Next

(* What a commit publishes. *)
LEMMA CommitFacts ==
    ASSUME TypeOK, PlanInv, NEW p \in Procs, Commit(p), Publish(p)
    PROVE  /\ pc[p] = "commit" /\ pc[p] \in PlannedSteps /\ Proj(p) \in Projects
           /\ loc[p].docs = index[Proj(p)].docs /\ loc[p].docs \in [Paths -> Doc \cup {None}]
           /\ index'[Proj(p)].scheme = loc[p].req.scheme
           /\ \A f \in Paths : index'[Proj(p)].docs[f] = NewDoc(p, f)
           /\ \A j \in Projects \ {Proj(p)} : index'[j] = index[j]
           /\ loc' = loc /\ UNCHANGED <<cache, losses, source>>
<1>1. /\ pc[p] = "commit" /\ pc[p] \in PlannedSteps /\ pc[p] \in SyncSteps
      /\ loc' = loc /\ UNCHANGED <<cache, losses, source>>
  BY DEF Commit, PlannedSteps, SyncSteps, NoFault, bounds
<1>2. Proj(p) \in Projects /\ index \in [Projects -> Index]
  BY <1>1, SyncFacts DEF TypeOK
<1>3. loc[p].docs = index[Proj(p)].docs /\ loc[p].docs \in [Paths -> Doc \cup {None}]
  BY <1>1, ScanFacts DEF PlanInv, PlanOK
<1>4. index'[Proj(p)] = [gen |-> loc[p].gen + 1, scheme |-> loc[p].req.scheme,
                         docs |-> [f \in Paths |-> NewDoc(p, f)]]
  BY <1>2 DEF Publish
<1>5. \A j \in Projects \ {Proj(p)} : index'[j] = index[j]
  BY <1>2 DEF Publish
<1> QED
  BY <1>1, <1>2, <1>3, <1>4, <1>5

(* A published page is a replacement, or one the plan keeps: removed pages *)
(* are gone, and the text of a kept one stays with its chunks.             *)
LEMMA NewDocs ==
    ASSUME TypeOK, PlanInv, PlannedInv, NEW p \in Procs, Commit(p), Publish(p), NEW f \in Paths
    PROVE  \/ /\ f \in loc[p].upserts /\ f \in Present(p)
              /\ NewDoc(p, f) = [hash |-> loc[p].scan.files[f].content, key |-> KeyFor(p, f),
                                 stamp |-> loc[p].scan.files[f].stamp]
           \/ /\ NewDoc(p, f) = None /\ f \notin loc[p].upserts
              /\ \/ loc[p].docs[f] = None
                 \/ Full(p) \/ f \in loc[p].deletions
           \/ /\ f \in Existing(loc[p].docs) \ loc[p].upserts /\ f \in Present(p) /\ f \in loc[p].metas
              /\ loc[p].docs[f].hash = loc[p].scan.files[f].content /\ ~NewScheme(p)
              /\ NewDoc(p, f) = [loc[p].docs[f] EXCEPT !.hash = loc[p].scan.files[f].content,
                                                       !.stamp = loc[p].scan.files[f].stamp]
           \/ /\ f \in Existing(loc[p].docs) \ loc[p].upserts /\ ~NewScheme(p)
              /\ NewDoc(p, f) = loc[p].docs[f]
<1>1. /\ loc[p].docs = index[Proj(p)].docs /\ pc[p] \in PlannedSteps /\ PlanContents(p)
      /\ loc[p].upserts \cup loc[p].metas \subseteq Present(p)
  BY CommitFacts, ScanFacts DEF PlannedInv
<1>2. CASE f \in loc[p].upserts
  BY <1>1, <1>2 DEF NewDoc
<1>3. CASE f \notin loc[p].upserts /\ (Full(p) \/ f \in loc[p].deletions \/ loc[p].docs[f] = None)
  BY <1>1, <1>3 DEF NewDoc
<1>4. CASE f \notin loc[p].upserts /\ ~(Full(p) \/ f \in loc[p].deletions \/ loc[p].docs[f] = None)
  <2>1. f \in Existing(loc[p].docs) \ (loc[p].upserts \cup loc[p].deletions)
    BY <1>4 DEF Existing
  <2>2. ~NewScheme(p) /\ (f \in loc[p].metas => loc[p].docs[f].hash = loc[p].scan.files[f].content)
    BY <1>1, <1>4, <2>1 DEF PlanContents
  <2>3. CASE f \in loc[p].metas
    BY <1>1, <1>4, <2>1, <2>2, <2>3 DEF NewDoc
  <2>4. CASE f \notin loc[p].metas
    BY <1>1, <1>4, <2>1, <2>2, <2>4 DEF NewDoc
  <2> QED
    BY <2>3, <2>4
<1> QED
  BY <1>2, <1>3, <1>4

LEMMA UniformCommit ==
    ASSUME TypeOK, PlanInv, PlannedInv, IndexIsUniform, NEW p \in Procs, Commit(p), Publish(p)
    PROVE  IndexIsUniform'
<1> DEFINE doc(f) == index'[Proj(p)].docs[f]
<1>1. /\ Proj(p) \in Projects /\ loc[p].docs = index[Proj(p)].docs
      /\ loc[p].docs \in [Paths -> Doc \cup {None}] /\ index'[Proj(p)].scheme = loc[p].req.scheme
      /\ \A f \in Paths : doc(f) = NewDoc(p, f)
      /\ \A j \in Projects \ {Proj(p)} : index'[j] = index[j]
      /\ pc[p] = "commit"
  BY CommitFacts
<1>2. loc[p].scheme = index[Proj(p)].scheme
  BY <1>1 DEF PlannedInv
<1>3. ASSUME NEW f \in Paths, doc(f) # None
      PROVE  doc(f).key = <<loc[p].req.scheme, doc(f).hash>>
  <2>1. CASE doc(f) = [hash |-> loc[p].scan.files[f].content, key |-> KeyFor(p, f),
                       stamp |-> loc[p].scan.files[f].stamp]
    BY <2>1 DEF KeyFor
  <2>2. ASSUME f \in Existing(loc[p].docs), ~NewScheme(p)
        PROVE  /\ loc[p].docs[f] \in Doc
               /\ loc[p].docs[f].key = <<loc[p].req.scheme, loc[p].docs[f].hash>>
    BY <1>1, <1>2, <2>2 DEF Existing, NewScheme, IndexIsUniform
  <2>3. CASE /\ f \in Existing(loc[p].docs) /\ ~NewScheme(p)
             /\ loc[p].docs[f].hash = loc[p].scan.files[f].content
             /\ doc(f) = [loc[p].docs[f] EXCEPT !.hash = loc[p].scan.files[f].content,
                                                !.stamp = loc[p].scan.files[f].stamp]
    <3>1. doc(f).key = loc[p].docs[f].key /\ doc(f).hash = loc[p].docs[f].hash
      BY <2>2, <2>3 DEF Doc
    <3> QED
      BY <2>2, <2>3, <3>1
  <2>4. CASE f \in Existing(loc[p].docs) /\ ~NewScheme(p) /\ doc(f) = loc[p].docs[f]
    BY <2>2, <2>4
  <2> QED
    BY <1>1, <1>3, <2>1, <2>3, <2>4, NewDocs
<1> QED
  BY <1>1, <1>3 DEF IndexIsUniform

(* Every page of an index is under its one scheme, its chunks of its text: *)
(* whatever the mode, the schemes at hand and the edits between the steps  *)
(* of a synchronization.                                                   *)
THEOREM IndexesAreUniform == Spec => []IndexIsUniform
<1>1. Init => PlannedInv /\ IndexIsUniform /\ PlanInv
  <2> SUFFICES ASSUME Init PROVE PlannedInv /\ IndexIsUniform /\ PlanInv
    OBVIOUS
  <2>1. PlannedInv /\ PlanInv
    BY DEF Init, PlannedInv, PlanContents, PlanInv, PlanOK, PlannedSteps
  <2>2. PICK s \in Schemes :
          index = [j \in Projects |->
              IF j \notin InitIndexed
              THEN [gen |-> 0, scheme |-> None, docs |-> [f \in Paths |-> None]]
              ELSE [gen |-> 1, scheme |-> s, docs |-> [f \in Paths |->
                      IF InitFiles[j][f] = None THEN None
                      ELSE [hash |-> InitFiles[j][f], key |-> <<s, InitFiles[j][f]>>, stamp |-> 0]]]]
    BY DEF Init
  <2>3. ASSUME NEW j \in Projects, NEW f \in Paths, index[j].docs[f] # None
        PROVE  index[j].docs[f].key = <<index[j].scheme, index[j].docs[f].hash>>
    <3>1. j \in InitIndexed
      BY <2>2, <2>3
    <3>2. /\ index[j].scheme = s
          /\ index[j].docs[f] = [hash |-> InitFiles[j][f], key |-> <<s, InitFiles[j][f]>>, stamp |-> 0]
      BY <2>2, <2>3, <3>1
    <3> QED
      BY <3>2
  <2> QED
    BY <2>1, <2>3 DEF IndexIsUniform
<1>2. TypeOK /\ PlanInv /\ PlannedInv /\ IndexIsUniform /\ [Next]_vars => IndexIsUniform'
  <2> SUFFICES ASSUME TypeOK, PlanInv, PlannedInv, IndexIsUniform, [Next]_vars PROVE IndexIsUniform'
    OBVIOUS
  <2>1. CASE UNCHANGED index
    BY <2>1 DEF IndexIsUniform
  <2>2. CASE index' # index
    <3>1. PICK p \in Procs : Commit(p) /\ Publish(p)
      BY <2>2, IndexChange DEF vars
    <3> QED
      BY <3>1, UniformCommit
  <2> QED
    BY <2>1, <2>2
<1> QED
  BY <1>1, <1>2, PlanInvNext, PlannedInvNext, TypeCorrect, PTL DEF Spec

-----------------------------------------------------------------------------
(* What is published is what is on the disk.                               *)

(* Nothing a process does touches the pages. *)
LEMMA DiskProcess ==
    ASSUME TypeOK, DiskInv, NEW p \in Procs, Process(p) \/ Crash(p) PROVE DiskInv'
<1>1. Elsewhere(p) /\ GetsOn(p) /\ UNCHANGED <<source, edits>>
  BY ProcessGetsOn
<1>2. ASSUME NEW q \in Procs \ {p}
      PROVE  /\ pc'[q] \in SyncSteps \ {"scan"} => ScanOK(q)'
             /\ pc'[q] = "commit" => SourcesCurrent(q)'
  BY <1>1 DEF DiskInv, ScanOK, SourcesCurrent, Elsewhere, Proj, Full
<1>3. ASSUME pc'[p] \in SyncSteps \ {"scan"} PROVE ScanOK(p)'
  <2>1. CASE Scans(p)
    <3>1. /\ Proj(p)' = Proj(p) /\ Proj(p) \in Projects /\ source[Proj(p)] \in Corpus
      BY <2>1, SyncFacts DEF Scans, Proj, SyncSteps
    <3> QED
      BY <1>1, <2>1, <3>1 DEF Scans, ScanOK, DiskInv
  <2>2. CASE ~Scans(p)
    <3>1. /\ pc[p] \in SyncSteps \ {"scan"} /\ loc'[p].scan = loc[p].scan
          /\ loc'[p].root = loc[p].root /\ loc'[p].req = loc[p].req
      BY <1>1, <1>3, <2>2 DEF GetsOn, Leaves, Opens, Plans, Checks, Rechecks, Prepares, Writes,
                              KeepsPlan, SyncSteps, PlannedSteps
    <3> QED
      BY <1>1, <3>1 DEF DiskInv, ScanOK, Proj
  <2> QED
    BY <2>1, <2>2
<1>4. ASSUME pc'[p] = "commit" PROVE SourcesCurrent(p)'
  <2>1. Writes(p) /\ pc[p] = "final" /\ SourcesCurrent(p) /\ loc'[p] = loc[p]
    BY <1>1, <1>4 DEF GetsOn, Leaves, Scans, Opens, Plans, Checks, Rechecks, Prepares, Writes,
                      SyncSteps, PlannedSteps
  <2> QED
    BY <1>1, <2>1 DEF SourcesCurrent, Proj, Full
<1> QED
  BY <1>1, <1>2, <1>3, <1>4 DEF DiskInv

(* An edit that adds or removes an entry gives the directory a stamp no    *)
(* scan has seen; one in place leaves the entries as they are.             *)
LEMMA DiskEdit ==
    ASSUME FinalRace = FALSE, TypeOK, DiskInv, NEW j \in Projects, NEW f \in Paths, Edit(j, f)
    PROVE  DiskInv'
<1>1. /\ UNCHANGED <<pc, loc>> /\ edits' = edits + 1 /\ \A p \in Procs : pc[p] # "commit"
      /\ source \in [Projects -> Corpus] /\ source[j] \in Corpus
  BY DEF Edit, OutsideLastWindow, TypeOK
<1>2. PICK c \in Contents \cup {Rejected, Unreadable, None} :
        source' = [source EXCEPT ![j] =
           [dir |-> IF source[j].files[f] = None \/ c = None THEN edits + 1 ELSE source[j].dir,
            files |-> [source[j].files EXCEPT ![f] =
                         IF c = None THEN None ELSE [content |-> c, stamp |-> edits + 1]]]]
  BY DEF Edit
<1>3. edits \in Nat /\ source[j].dir \in Nat /\ source[j].files \in [Paths -> File \cup {None}]
  BY <1>1, BoundsAssumption DEF TypeOK, Corpus
<1>4. \A k \in Projects \ {j} : source'[k] = source[k]
  BY <1>1, <1>2
<1>5. /\ source'[j].dir = IF source[j].files[f] = None \/ c = None THEN edits + 1 ELSE source[j].dir
      /\ \A g \in Paths \ {f} : source'[j].files[g] = source[j].files[g]
      /\ source'[j].files[f] = IF c = None THEN None ELSE [content |-> c, stamp |-> edits + 1]
  BY <1>1, <1>2, <1>3
<1>6. \A k \in Projects : source'[k].dir <= edits'
  <2> SUFFICES ASSUME NEW k \in Projects PROVE source'[k].dir <= edits'
    OBVIOUS
  <2>1. source[k].dir \in Nat /\ source[k].dir <= edits
    BY <1>1 DEF DiskInv, Corpus
  <2>2. CASE k # j
    BY <1>1, <1>3, <1>4, <2>1, <2>2
  <2>3. CASE k = j
    BY <1>1, <1>3, <1>5, <2>1, <2>3
  <2> QED
    BY <2>2, <2>3
<1>7. ASSUME NEW p \in Procs, pc[p] \in SyncSteps \ {"scan"} PROVE ScanOK(p)'
  <2>1. /\ ScanOK(p) /\ loc'[p] = loc[p] /\ Proj(p)' = Proj(p) /\ loc[p].scan.dir \in Nat
        /\ Proj(p) \in Projects
    BY <1>1, <1>7, SyncFacts DEF DiskInv, Proj, TypeOK, ProcessOK, Corpus
  <2>2. loc'[p].scan.dir <= edits'
    BY <1>1, <1>3, <2>1 DEF ScanOK
  <2>3. CASE Proj(p) # j
    BY <1>4, <2>1, <2>2, <2>3 DEF ScanOK
  <2>4. CASE Proj(p) = j /\ (source[j].files[f] = None \/ c = None)
    <3>1. source'[j].dir # loc[p].scan.dir
      BY <1>3, <1>5, <2>1, <2>4 DEF ScanOK
    <3> QED
      BY <2>1, <2>2, <2>4, <3>1 DEF ScanOK
  <2>5. CASE Proj(p) = j /\ ~(source[j].files[f] = None \/ c = None)
    <3>1. source'[j].dir = source[j].dir
      BY <1>5, <2>5
    <3>2. source'[j].files[f] # None /\ source[j].files[f] # None
      BY <1>3, <1>5, <2>5, NoneAssumption
    <3>3. \A g \in Paths : source'[j].files[g] = None <=> source[j].files[g] = None
      BY <1>5, <3>2
    <3> QED
      BY <2>1, <2>2, <2>5, <3>1, <3>3 DEF ScanOK
  <2> QED
    BY <2>3, <2>4, <2>5
<1> QED
  BY <1>1, <1>6, <1>7 DEF DiskInv

LEMMA DiskInvNext ==
    ASSUME FinalRace = FALSE PROVE TypeOK /\ DiskInv /\ [Next]_vars => DiskInv'
<1> SUFFICES ASSUME TypeOK, DiskInv, [Next]_vars PROVE DiskInv'
  OBVIOUS
<1>1. CASE LoseCache \/ RebindLease \/ (\E j \in Projects : Recover(j)) \/ Terminated \/ UNCHANGED vars
  <2>1. UNCHANGED <<source, pc, loc, edits>>
    BY <1>1 DEF LoseCache, RebindLease, Recover, Terminated, vars
  <2> QED
    BY <2>1 DEF DiskInv, ScanOK, SourcesCurrent, Proj, Full
<1> QED
  BY <1>1, DiskProcess, DiskEdit DEF Next, Environment

(* At every publication the pages added or renewed are those on the disk,  *)
(* and the removed ones are not there, as long as nobody edits between the *)
(* last revalidation and the commit: the revalidations before it suffice,  *)
(* whatever was edited since the scan.                                     *)
THEOREM PublicationsMatchTheDisk ==
    ASSUME FinalRace = FALSE PROVE Spec => PublishesTheDisk
<1> DEFINE Good == \A j \in Projects, f \in Paths :
         LET old == index[j].docs[f] new == index'[j].docs[f] file == source[j].files[f]
         IN new # old =>
              IF new # None
              THEN file = [content |-> new.hash, stamp |-> new.stamp]
              ELSE \/ file = None
                   \/ \E p \in Procs : pc[p] = "commit" /\ Proj(p) = j /\ f \in RejectedIn(p)
<1>1. Init => PlanInv /\ PlannedInv /\ DiskInv
  <2> SUFFICES ASSUME Init PROVE PlanInv /\ PlannedInv /\ DiskInv
    OBVIOUS
  <2>1. PlannedInv /\ PlanInv
    BY DEF Init, PlannedInv, PlanContents, PlanInv, PlanOK, PlannedSteps
  <2>2. DiskInv
    BY DEF Init, DiskInv, SyncSteps, PlannedSteps
  <2> QED
    BY <2>1, <2>2
<1>2. TypeOK /\ PlanInv /\ PlannedInv /\ DiskInv /\ [Next]_vars => [Good]_vars
  <2> SUFFICES ASSUME TypeOK, PlanInv, PlannedInv, DiskInv, Next,
                      NEW j \in Projects, NEW f \in Paths, index'[j].docs[f] # index[j].docs[f]
               PROVE  IF index'[j].docs[f] # None
                      THEN source[j].files[f] = [content |-> index'[j].docs[f].hash,
                                                 stamp |-> index'[j].docs[f].stamp]
                      ELSE \/ source[j].files[f] = None
                           \/ \E p \in Procs : pc[p] = "commit" /\ Proj(p) = j /\ f \in RejectedIn(p)
    OBVIOUS
  <2>1. PICK p \in Procs : Commit(p) /\ Publish(p)
    BY IndexChange
  <2>2. /\ pc[p] = "commit" /\ pc[p] \in PlannedSteps /\ Proj(p) = j
        /\ index'[j].docs[f] = NewDoc(p, f) /\ index[j].docs[f] = loc[p].docs[f]
        /\ loc[p].docs \in [Paths -> Doc \cup {None}]
    BY <2>1, CommitFacts
  <2>3. SourcesCurrent(p) /\ ScanOK(p) /\ PlanContents(p)
    BY <2>2 DEF DiskInv, PlannedInv, SyncSteps, PlannedSteps
  <2>4. ASSUME f \in loc[p].upserts \cup loc[p].metas, f \in Present(p)
        PROVE  source[j].files[f] = [content |-> loc[p].scan.files[f].content,
                                     stamp |-> loc[p].scan.files[f].stamp]
    <3>1. source[j].files[f] = loc[p].scan.files[f]
      BY <2>2, <2>3, <2>4 DEF SourcesCurrent
    <3>2. loc[p].scan.files[f] \in File
      BY <2>2, <2>4, ScanFacts DEF Present, Corpus
    <3> QED
      BY <3>1, <3>2 DEF File
  <2>5. CASE /\ f \in loc[p].upserts /\ f \in Present(p)
             /\ NewDoc(p, f) = [hash |-> loc[p].scan.files[f].content, key |-> KeyFor(p, f),
                                stamp |-> loc[p].scan.files[f].stamp]
    <3>1. /\ NewDoc(p, f).hash = loc[p].scan.files[f].content
          /\ NewDoc(p, f).stamp = loc[p].scan.files[f].stamp /\ NewDoc(p, f) # None
      BY <2>2, <2>5, ScanFacts, NoneAssumption DEF Keys
    <3> QED
      BY <2>2, <2>4, <2>5, <3>1
  <2>6. CASE /\ NewDoc(p, f) = None /\ f \notin loc[p].upserts
             /\ \/ loc[p].docs[f] = None
                \/ Full(p) \/ f \in loc[p].deletions
    <3>1. f \in Existing(loc[p].docs) \ loc[p].upserts /\ (Full(p) \/ f \in loc[p].deletions)
      BY <2>2, <2>6 DEF Existing
    <3>2. loc[p].root /\ (loc[p].scan.files[f] = None \/ f \in RejectedIn(p))
      BY <2>2, <2>3, <3>1 DEF PlanContents
    <3>3. source[j].dir = loc[p].scan.dir
      BY <2>2, <2>3, <3>1 DEF SourcesCurrent
    <3>4. loc[p].scan.files[f] = None => source[j].files[f] = None
      BY <2>2, <2>3, <3>2, <3>3 DEF ScanOK
    <3> QED
      BY <2>2, <2>6, <3>2, <3>4
  <2>7. CASE /\ f \in Existing(loc[p].docs) /\ f \in Present(p) /\ f \in loc[p].metas
             /\ NewDoc(p, f) = [loc[p].docs[f] EXCEPT !.hash = loc[p].scan.files[f].content,
                                                      !.stamp = loc[p].scan.files[f].stamp]
    <3>1. loc[p].docs[f] \in Doc
      BY <2>2, <2>7 DEF Existing
    <3>2. /\ NewDoc(p, f).hash = loc[p].scan.files[f].content
          /\ NewDoc(p, f).stamp = loc[p].scan.files[f].stamp
          /\ NewDoc(p, f) \in Doc
      BY <2>2, <2>7, <3>1, ScanFacts DEF Doc
    <3>3. NewDoc(p, f) # None
      BY <3>2, NoneAssumption DEF Doc, Keys
    <3> QED
      BY <2>2, <2>4, <2>7, <3>2, <3>3
  <2>8. CASE NewDoc(p, f) = loc[p].docs[f]
    BY <2>2, <2>8
  <2> QED
    BY <2>1, <2>5, <2>6, <2>7, <2>8, NewDocs
<1> QED
  BY <1>1, <1>2, PlanInvNext, PlannedInvNext, DiskInvNext, TypeCorrect, PTL DEF Spec, PublishesTheDisk

-----------------------------------------------------------------------------
(* A reported success leaves the project searchable.                       *)

(* Only garbage collection under a current lease takes vectors away, and   *)
(* an operation reports when it ends.                                      *)
LEMMA ProcessEffects ==
    ASSUME TypeOK, NEW p \in Procs, Process(p) \/ Crash(p)
    PROVE  /\ UNCHANGED leaseIno
           /\ \/ cache \subseteq cache'
              \/ /\ pc[p] = "gc_sweep" /\ LeaseCurrent(p)
                 /\ cache' = cache \ (loc[p].initial \ loc[p].live)
           /\ pc[p] \in Steps \cup {"idle"}
           /\ \/ out' = out
              \/ pc'[p] = "done" /\ \A q \in Procs \ {p} : out'[q] = out[q]
<1>1. out \in [Procs -> Results] /\ pc \in [Procs -> Steps \cup {"idle", "done", "dead"}]
  BY DEF TypeOK
<1>2. \A r : Return(p, r) => pc'[p] = "done" /\ \A q \in Procs \ {p} : out'[q] = out[q]
  BY <1>1 DEF Return
<1>3. \A s : Goto(p, s) => out' = out
  BY DEF Goto
<1>4. CASE Start(p) \/ Scan(p) \/ PlanOpen(p) \/ PlanScheme(p) \/ PlanDocs(p)
  BY <1>2, <1>3, <1>4 DEF Start, Scan, PlanOpen, PlanScheme, PlanDocs, store, Steps, SyncSteps
<1>5. CASE ExecCheck(p) \/ Recheck(p) \/ Embed(p) \/ SyncLease(p)
  BY <1>2, <1>3, <1>5 DEF ExecCheck, Recheck, Embed, SyncLease, AcquireLease, store, Steps, SyncSteps,
                          PlannedSteps
<1>6. CASE InsertVectors(p) \/ Begin(p) \/ FinalRevalidation(p) \/ Commit(p)
  BY <1>2, <1>3, <1>6 DEF InsertVectors, Begin, FinalRevalidation, Commit, Steps, SyncSteps, PlannedSteps
<1>7. CASE GcAbsent(p) \/ GcLease(p) \/ GcInitial(p) \/ GcLive(p)
  BY <1>2, <1>3, <1>7 DEF GcAbsent, GcLease, AcquireLease, GcInitial, GcLive, store, Steps, GcSteps
<1>8. CASE GcSweep(p)
  BY <1>2, <1>8 DEF GcSweep, Steps, GcSteps
<1>9. CASE SearchOpen(p) \/ SearchLookup(p) \/ StatsLease(p) \/ StatsRead(p)
  <2>1. UNCHANGED <<leaseIno, cache>> /\ pc[p] \in Steps
    BY <1>9 DEF SearchOpen, SearchLookup, StatsLease, StatsRead, store, Steps, ReadSteps
  <2>2. (\E r : Return(p, r)) \/ out' = out
    BY <1>3, <1>9 DEF SearchOpen, SearchLookup, StatsLease, StatsRead, Again
  <2> QED
    BY <1>2, <2>1, <2>2
<1>10. CASE Crash(p)
  BY <1>10 DEF Crash, Running, store
<1> QED
  BY <1>4, <1>5, <1>6, <1>7, <1>8, <1>9, <1>10 DEF Process

(* The others' vectors survive p's step: a collection spares what is       *)
(* published, and a publication moves the generation on.                   *)
LEMMA SearchableOthers ==
    ASSUME TypeOK, Safe, PlanInv, SearchableInv, NEW p \in Procs, Process(p) \/ Crash(p),
           NEW q \in Procs \ {p}
    PROVE  Searchable(q)'
<1>1. /\ pc'[q] = pc[q] /\ loc'[q] = loc[q] /\ held'[q] = held[q] /\ UNCHANGED <<losses, leaseIno>>
      /\ UNCHANGED index \/ (Commit(p) /\ Publish(p))
  BY ProcessGetsOn, ProcessEffects DEF Elsewhere
<1>2. /\ Proj(q)' = Proj(q) /\ Present(q)' = Present(q) /\ Requested(q)' = Requested(q)
      /\ LeaseCurrent(q)' <=> LeaseCurrent(q)
  BY <1>1 DEF Proj, Present, Requested, KeyFor, LeaseCurrent
<1> SUFFICES ASSUME pc[q] \in PlannedSteps \ {"exec", "recheck"}, losses = loc[q].losses
             PROVE  /\ loc[q].gen = index'[Proj(q)].gen =>
                        \A f \in (Present(q) \cap Existing(loc[q].docs)) \ loc[q].upserts :
                           loc[q].docs[f].key \in cache'
                    /\ pc[q] \in {"begin", "final", "commit"} /\ LeaseCurrent(q) => Requested(q) \subseteq cache'
  BY <1>1, <1>2 DEF Searchable
<1>3. Searchable(q) /\ Proj(q) \in Projects /\ loc[q].gen \in Nat
  BY SyncFacts, BoundsAssumption DEF SearchableInv, SyncSteps, Loc
<1>4. loc[q].gen = index'[Proj(q)].gen => index'[Proj(q)] = index[Proj(q)]
  <2>1. CASE Commit(p) /\ Publish(p) /\ Proj(q) = Proj(p)
    <3>1. /\ index'[Proj(p)].gen = loc[p].gen + 1 /\ loc[p].gen = index[Proj(p)].gen
          /\ index[Proj(p)].gen \in Nat
      <4>1. pc[p] = "commit" /\ pc[p] \in SyncSteps /\ index \in [Projects -> Index]
        BY <2>1 DEF Commit, SyncSteps, PlannedSteps, TypeOK
      <4> QED
        BY <1>3, <2>1, <4>1, BoundsAssumption DEF Publish, PlanInv, PlanOK, Index
    <3>2. loc[q].gen <= index[Proj(p)].gen
      BY <2>1 DEF PlanInv, PlanOK
    <3> QED
      BY <1>3, <2>1, <3>1, <3>2
  <2>2. CASE Commit(p) /\ Publish(p) /\ Proj(q) # Proj(p)
    BY <1>3, <2>2, CommitFacts
  <2> QED
    BY <1>1, <2>1, <2>2
<1>5. CASE cache \subseteq cache'
  BY <1>3, <1>4, <1>5 DEF Searchable
<1>6. CASE /\ pc[p] = "gc_sweep" /\ LeaseCurrent(p)
           /\ cache' = cache \ (loc[p].initial \ loc[p].live)
  <2>1. Published \subseteq loc[p].live
    BY <1>6 DEF Safe, VectorsInv
  <2>2. ~LeaseCurrent(q)
    BY <1>6, ExclusiveCurrent DEF Safe, ExclusiveSteps, GcSteps
  <2>3. ASSUME loc[q].gen = index'[Proj(q)].gen,
               NEW f \in (Present(q) \cap Existing(loc[q].docs)) \ loc[q].upserts
        PROVE  loc[q].docs[f].key \in cache'
    <3>1. loc[q].gen = index[Proj(q)].gen /\ loc[q].docs = index[Proj(q)].docs
      BY <1>4, <2>3 DEF PlanInv, PlanOK
    <3>2. loc[q].docs[f].key \in cache
      BY <1>3, <2>3, <3>1 DEF Searchable
    <3>3. loc[q].docs[f].key \in Published
      BY <1>3, <3>1, PublishedMember DEF Existing
    <3> QED
      BY <1>6, <2>1, <3>2, <3>3
  <2> QED
    BY <2>2, <2>3
<1> QED
  BY <1>5, <1>6, ProcessEffects

(* p's own vectors: looked up, inserted, and then kept. *)
LEMMA SearchableOwn ==
    ASSUME TypeOK, PlanInv, PlannedInv, SearchableInv, NEW p \in Procs, Process(p) \/ Crash(p)
    PROVE  Searchable(p)'
<1>1. /\ GetsOn(p) /\ UNCHANGED <<losses, leaseIno>>
      /\ UNCHANGED index \/ pc[p] = "commit"
      /\ cache \subseteq cache' \/ pc[p] = "gc_sweep"
  BY ProcessGetsOn, ProcessEffects DEF Commit
<1>2. CASE Leaves(p) \/ Scans(p) \/ Opens(p) \/ Plans(p)
  BY <1>2 DEF Leaves, Scans, Opens, Plans, Searchable, SyncSteps, PlannedSteps
<1>3. CASE Checks(p) \/ Rechecks(p)
  <2>1. /\ pc'[p] \notin {"begin", "final", "commit"} /\ KeepsPlan(p) /\ cache \subseteq cache'
        /\ loc[p].upserts \subseteq loc'[p].upserts /\ pc[p] \in PlannedSteps
    BY <1>1, <1>3 DEF Checks, Rechecks, PlannedSteps
  <2>2. Present(p)' = Present(p) /\ loc'[p].docs = loc[p].docs
    BY <2>1 DEF Present, KeepsPlan
  <2>3. ASSUME pc'[p] = "embed",
               NEW f \in (Present(p) \cap Existing(loc[p].docs)) \ loc'[p].upserts
        PROVE  loc[p].docs[f].key \in cache
    <3>1. f \in loc[p].refs
      BY <2>1, <2>3 DEF PlannedInv, PlanContents
    <3> QED
      BY <1>3, <2>3, <3>1 DEF Checks, Rechecks, Gone
  <2>4. pc'[p] \in {"recheck", "embed"}
    BY <1>3 DEF Checks, Rechecks
  <2> QED
    BY <2>1, <2>2, <2>3, <2>4 DEF Searchable
<1>4. CASE Prepares(p) \/ Writes(p)
  <2>1. /\ pc[p] \in PlannedSteps \ {"exec", "recheck"} /\ UNCHANGED index /\ cache \subseteq cache'
        /\ KeepsPlan(p) /\ loc'[p].losses = loc[p].losses /\ loc'[p].upserts = loc[p].upserts
    BY <1>1, <1>4 DEF Prepares, Writes, PlannedSteps, KeepsPlan
  <2>2. /\ Present(p)' = Present(p) /\ loc'[p].docs = loc[p].docs /\ Proj(p)' = Proj(p)
        /\ loc'[p].gen = loc[p].gen /\ Requested(p)' = Requested(p)
    BY <2>1 DEF Present, KeepsPlan, Proj, Requested, KeyFor
  <2>3. Searchable(p)
    BY DEF SearchableInv
  <2>4. ASSUME pc'[p] \in {"begin", "final", "commit"}, LeaseCurrent(p)', losses = loc[p].losses
        PROVE  Requested(p) \subseteq cache'
    <3>1. CASE Prepares(p)
      BY <2>4, <3>1 DEF Prepares
    <3>2. CASE Writes(p)
      <4>1. LeaseCurrent(p) /\ pc[p] \in {"begin", "final", "commit"}
        BY <1>1, <2>4, <3>2 DEF Writes, LeaseCurrent
      <4> QED
        BY <2>1, <2>3, <2>4, <4>1 DEF Searchable
    <3> QED
      BY <1>4, <3>1, <3>2
  <2> QED
    BY <1>1, <2>1, <2>2, <2>3, <2>4 DEF Searchable
<1> QED
  BY <1>1, <1>2, <1>3, <1>4 DEF GetsOn

LEMMA SearchableInvNext ==
    TypeOK /\ Safe /\ PlanInv /\ PlannedInv /\ SearchableInv /\ [Next]_vars => SearchableInv'
<1> SUFFICES ASSUME TypeOK, Safe, PlanInv, PlannedInv, SearchableInv, [Next]_vars PROVE SearchableInv'
  OBVIOUS
<1>1. ASSUME NEW p \in Procs, Process(p) \/ Crash(p) PROVE SearchableInv'
  <2>1. Searchable(p)' /\ \A q \in Procs \ {p} : Searchable(q)'
    BY <1>1, SearchableOwn, SearchableOthers
  <2>2. /\ Elsewhere(p) /\ GetsOn(p) /\ UNCHANGED losses
        /\ pc[p] \in Steps \cup {"idle"}
        /\ \/ out' = out
           \/ pc'[p] = "done" /\ \A q \in Procs \ {p} : out'[q] = out[q]
    BY <1>1, ProcessGetsOn, ProcessEffects
  <2>3. \A q \in Procs : loc'[q].losses <= losses'
    <3>1. losses \in Nat /\ loc[p].losses <= losses
      BY OwnLoc DEF SearchableInv
    <3>2. loc'[p].losses \in {loc[p].losses, losses}
      BY <2>2 DEF GetsOn, Leaves, Scans, Opens, Plans, Checks, Rechecks, Prepares, Writes
    <3>3. loc'[p].losses <= losses'
      BY <2>2, <3>1, <3>2
    <3> QED
      BY <2>2, <3>3 DEF Elsewhere, SearchableInv
  <2>4. ASSUME NEW q \in Procs, pc'[q] \in Steps \cup {"idle"} PROVE out'[q] = "none"
    <3>1. CASE q = p
      <4>1. "done" \notin Steps \cup {"idle"}
        BY DEF Steps, SyncSteps, PlannedSteps, GcSteps, ReadSteps
      <4> QED
        BY <2>2, <2>4, <3>1, <4>1 DEF SearchableInv
    <3>2. CASE q # p
      BY <2>2, <2>4, <3>2 DEF Elsewhere, SearchableInv
    <3> QED
      BY <3>1, <3>2
  <2> QED
    BY <2>1, <2>3, <2>4 DEF SearchableInv
<1>2. CASE LoseCache \/ RebindLease
  <2>1. UNCHANGED <<pc, loc, out>> /\ losses' = losses + 1
    BY <1>2 DEF LoseCache, RebindLease
  <2>2. ASSUME NEW p \in Procs PROVE loc'[p].losses <= losses' /\ losses' # loc'[p].losses
    <3>1. loc[p].losses \in Nat /\ losses \in Nat /\ loc[p].losses <= losses
      BY OwnLoc DEF SearchableInv, Loc
    <3> QED
      BY <2>1, <3>1
  <2> QED
    BY <2>1, <2>2 DEF SearchableInv, Searchable
<1>3. CASE \/ \E j \in Projects, f \in Paths : Edit(j, f)
           \/ \E j \in Projects : Recover(j)
           \/ Terminated \/ UNCHANGED vars
  <2>1. UNCHANGED <<index, cache, leaseIno, held, pc, loc, out, losses>>
    BY <1>3 DEF Edit, Recover, Terminated, store, vars
  <2> QED
    BY <2>1 DEF SearchableInv, Searchable, Proj, Present, Requested, KeyFor, LeaseCurrent
<1> QED
  BY <1>1, <1>2, <1>3 DEF Next, Environment

(* Success is reported by the step that ends the operation. *)
LEMMA ReportingSteps ==
    ASSUME TypeOK, SearchableInv, Next, NEW p \in Procs,
           pc[p] \in {"exec", "recheck", "commit"}, out'[p] = "ok"
    PROVE  /\ pc[p] = "exec" => /\ loc[p].refs = {} /\ UNCHANGED <<index, cache>>
                                /\ ~NeedsCommit(p, loc[p].upserts, loc[p].metas)
           /\ pc[p] = "recheck" => /\ UNCHANGED <<index, cache>>
                                   /\ ~NeedsCommit(p, loc[p].upserts \cup Gone(p), loc[p].metas \ Gone(p))
           /\ pc[p] = "commit" => Commit(p) /\ Publish(p)
<1>1. out[p] = "none" /\ out \in [Procs -> Results]
  BY DEF SearchableInv, TypeOK, Steps, SyncSteps, PlannedSteps
<1>2. Process(p)
  <2>1. ASSUME NEW q \in Procs \ {p}, Process(q) \/ Crash(q) PROVE FALSE
    BY <1>1, <2>1, ProcessEffects
  <2>2. ~Crash(p)
    BY <1>1 DEF Crash
  <2>3. ~Environment
    BY <1>1 DEF Environment, Edit, LoseCache, RebindLease, Recover
  <2>4. ~Terminated
    BY <1>1 DEF Terminated, vars
  <2> QED
    BY <2>1, <2>2, <2>3, <2>4 DEF Next
<1>3. /\ \A s : ~Goto(p, s)
      /\ \A r : Return(p, r) => r = "ok"
  BY <1>1 DEF Goto, Return
<1>4. CASE pc[p] = "exec"
  <2>1. ExecCheck(p)
    BY <1>2, <1>4 DEF Process, Start, Scan, PlanOpen, PlanScheme, PlanDocs, Recheck, Embed, SyncLease,
         AcquireLease, InsertVectors, Begin, FinalRevalidation, Commit, GcAbsent, GcLease, GcInitial, GcLive, GcSweep,
         SearchOpen, SearchLookup, StatsLease, StatsRead
  <2> QED
    BY <1>3, <1>4, <2>1 DEF ExecCheck, store
<1>5. CASE pc[p] = "recheck"
  <2>1. Recheck(p)
    BY <1>2, <1>5 DEF Process, Start, Scan, PlanOpen, PlanScheme, PlanDocs, ExecCheck, Embed, SyncLease,
         AcquireLease, InsertVectors, Begin, FinalRevalidation, Commit, GcAbsent, GcLease, GcInitial, GcLive, GcSweep,
         SearchOpen, SearchLookup, StatsLease, StatsRead
  <2> QED
    BY <1>3, <1>5, <2>1 DEF Recheck, Gone, store
<1>6. CASE pc[p] = "commit"
  <2>1. Commit(p)
    BY <1>2, <1>6 DEF Process, Start, Scan, PlanOpen, PlanScheme, PlanDocs, ExecCheck, Recheck, Embed,
         SyncLease, AcquireLease, InsertVectors, Begin, FinalRevalidation, GcAbsent, GcLease, GcInitial, GcLive, GcSweep,
         SearchOpen, SearchLookup, StatsLease, StatsRead
  <2> QED
    BY <1>3, <1>6, <2>1 DEF Commit
<1> QED
  BY <1>4, <1>5, <1>6

(* A synchronization that reports success leaves the pages it read         *)
(* searchable, whatever other synchronizations, collections and losses     *)
(* came before its last look: the vectors it kept were looked up under a   *)
(* lease, the ones it needed verified under the lease it commits with, and *)
(* no collection takes what is published.                                  *)
THEOREM SuccessesAreSearchable ==
    ASSUME FinalRace = FALSE PROVE Spec => SuccessMeansSearchable
<1> DEFINE Good == \A p \in Procs :
         pc[p] \in {"exec", "recheck", "commit"} /\ out'[p] = "ok" /\ losses = loc'[p].losses =>
            \A f \in Present(p) :
                LET doc == index'[Proj(p)].docs[f]
                IN doc # None /\ (pc[p] = "commit" \/ doc = loc[p].docs[f]) => doc.key \in cache
<1>1. Init => Safe /\ PlanInv /\ PlannedInv /\ SearchableInv
  <2> SUFFICES ASSUME Init PROVE PlanInv /\ PlannedInv /\ SearchableInv
    BY SafeInit
  <2>1. PlannedInv /\ PlanInv
    BY DEF Init, PlannedInv, PlanContents, PlanInv, PlanOK, PlannedSteps
  <2>2. SearchableInv
    BY DEF Init, SearchableInv, Searchable, PlannedSteps, NoLoc
  <2> QED
    BY <2>1, <2>2
<1>2. TypeOK /\ Safe /\ PlanInv /\ PlannedInv /\ SearchableInv /\ [Next]_vars => [Good]_vars
  <2> SUFFICES ASSUME TypeOK, Safe, PlanInv, PlannedInv, SearchableInv, Next, NEW p \in Procs,
                      pc[p] \in {"exec", "recheck", "commit"}, out'[p] = "ok", losses = loc'[p].losses,
                      NEW f \in Present(p), index'[Proj(p)].docs[f] # None,
                      pc[p] = "commit" \/ index'[Proj(p)].docs[f] = loc[p].docs[f]
               PROVE  index'[Proj(p)].docs[f].key \in cache
    OBVIOUS
  <2>1. pc[p] \in PlannedSteps /\ f \in Paths
    BY DEF PlannedSteps, Present
  <2>2. Present(p) \cap Existing(loc[p].docs) \subseteq loc[p].upserts \cup loc[p].refs
    BY <2>1 DEF PlannedInv, PlanContents
  <2>3. CASE pc[p] = "exec"
    BY <2>1, <2>2, <2>3, ReportingSteps DEF NeedsCommit, Existing
  <2>4. CASE pc[p] = "recheck"
    <3>1. loc[p].upserts \cup Gone(p) = {}
      BY <2>4, ReportingSteps DEF NeedsCommit
    <3>2. f \in loc[p].refs
      BY <2>1, <2>2, <2>4, <3>1 DEF Existing
    <3> QED
      BY <2>4, <3>1, <3>2 DEF Gone
  <2>5. CASE pc[p] = "commit"
    <3>1. Commit(p) /\ Publish(p)
      BY <2>5, ReportingSteps
    <3>2. /\ loc' = loc /\ index'[Proj(p)].docs[f] = NewDoc(p, f)
          /\ loc[p].docs = index[Proj(p)].docs /\ loc[p].docs \in [Paths -> Doc \cup {None}]
      BY <2>1, <3>1, CommitFacts
    <3>3. loc[p].gen = index[Proj(p)].gen /\ LeaseCurrent(p) /\ Searchable(p)
      BY <2>5 DEF PlanInv, PlanOK, Safe, LeaseInv, SearchableInv
    <3>4. /\ Requested(p) \subseteq cache
          /\ \A g \in (Present(p) \cap Existing(loc[p].docs)) \ loc[p].upserts : loc[p].docs[g].key \in cache
      BY <2>5, <3>2, <3>3 DEF Searchable, PlannedSteps
    <3>5. CASE /\ f \in loc[p].upserts
               /\ NewDoc(p, f) = [hash |-> loc[p].scan.files[f].content, key |-> KeyFor(p, f),
                                  stamp |-> loc[p].scan.files[f].stamp]
      BY <3>2, <3>4, <3>5 DEF Requested
    <3>6. CASE /\ f \in Existing(loc[p].docs) \ loc[p].upserts
               /\ \/ NewDoc(p, f) = loc[p].docs[f]
                  \/ NewDoc(p, f) = [loc[p].docs[f] EXCEPT !.hash = loc[p].scan.files[f].content,
                                                           !.stamp = loc[p].scan.files[f].stamp]
      <4>1. loc[p].docs[f] \in Doc
        BY <3>2, <3>6 DEF Existing
      <4>2. NewDoc(p, f).key = loc[p].docs[f].key
        BY <3>6, <4>1 DEF Doc
      <4> QED
        BY <3>2, <3>4, <3>6, <4>2
    <3> QED
      BY <2>1, <3>1, <3>2, <3>5, <3>6, NewDocs
  <2> QED
    BY <2>3, <2>4, <2>5
<1> QED
  BY <1>1, <1>2, SafeNext, PlanInvNext, PlannedInvNext, SearchableInvNext, TypeCorrect, PTL
     DEF Spec, SuccessMeansSearchable
=============================================================================
