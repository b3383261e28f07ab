------------------------------ MODULE LockProofs ------------------------------
(***************************************************************************)
(* The wiki lock and the model-construction slots implement the abstract   *)
(* lock of NamedLock, for any number of processes, directories, files and  *)
(* troubles; and a live service keeps its socket's name, for any number of *)
(* services, inodes, deletions and kills.                                  *)
(***************************************************************************)
EXTENDS WikiLock, ConstructionLock, ServiceSocket, TLAPS

-----------------------------------------------------------------------------
(* The wiki lock.                                                          *)

(* Steps at which a process has the corpus directory open, the lock file   *)
(* open, and the advisory lock.                                            *)
WithFlock == {"check", "confirm", "held"}
WithFd == WithFlock \cup {"verify", "try", "wait"}
WithDir == WithFd \cup {"corpus", "create", "existing", "refused"}

WikiTypes ==
    /\ corpus \in Corpora \cup {Nothing}
    /\ lockName \in [Corpora -> Nat \cup {Nothing}]
    /\ lockFiles \in Nat
    /\ lockMode \in [LockProcs -> {"shared", "exclusive"}]
    /\ lockPc \in [LockProcs -> {"idle", "held"} \cup Acquiring \cup LockOutcome]
    /\ lockDir \in [LockProcs -> Corpora \cup {Nothing}]
    /\ lockFd \in [LockProcs -> Nat \cup {Nothing}]
    /\ flocked \in [LockProcs -> Nat \cup {Nothing}]

(* A process past flock has the lock on the file of its descriptor, and    *)
(* the processes that have it on one file all share it.                    *)
FlockInv ==
    /\ \A p \in LockProcs :
        /\ lockPc[p] \in WithDir => lockDir[p] \in Corpora
        /\ lockPc[p] \in WithFd => lockFd[p] \in Nat
        /\ flocked[p] = IF lockPc[p] \in WithFlock THEN lockFd[p] ELSE Nothing
    /\ \A p, q \in LockProcs :
        p # q /\ flocked[p] = flocked[q] /\ flocked[p] # Nothing
            => lockMode[p] = "shared" /\ lockMode[q] = "shared"

WikiInv == WikiTypes /\ FlockInv

(* A process that gives up or starts over closes everything. *)
LEMMA CloseKeepsInv ==
    ASSUME WikiInv, NEW p \in LockProcs, NEW step, Close(p, step),
           step \in {"open", "reopen"} \cup LockOutcome,
           UNCHANGED <<wikiNames, lockMode>>
    PROVE  WikiInv'
BY WikiLockAssumption
   DEF WikiInv, WikiTypes, FlockInv, Close, wikiNames, WithFlock, WithFd, WithDir, LockOutcome, Acquiring

(* A process that goes on with what it has. *)
LEMMA GotoKeepsInv ==
    ASSUME WikiInv, NEW p \in LockProcs, NEW step, LockGoto(p, step),
           UNCHANGED <<lockFd, wikiNames, lockMode>>,
           step \in {"held"} \cup Acquiring,
           step \in WithDir => lockPc[p] \in WithDir,
           step \in WithFd => lockPc[p] \in WithFd,
           step \in WithFlock <=> lockPc[p] \in WithFlock
    PROVE  WikiInv'
BY DEF WikiInv, WikiTypes, FlockInv, LockGoto, wikiNames

(* A step of acquire_with_runtime keeps the invariant. *)
LEMMA AcquireKeepsInv ==
    ASSUME WikiInv, NEW p \in LockProcs, AcquireStep(p), UNCHANGED lockMode
    PROVE  WikiInv'
<1> USE DEF LockStep, WithFlock, WithFd, WithDir, Acquiring, LockOutcome
<1>1. CASE OpenCorpus(p)
  <2>1. CASE corpus = Nothing
    BY <1>1, <2>1, CloseKeepsInv DEF OpenCorpus
  <2>2. CASE corpus # Nothing
    BY <1>1, <2>2, WikiLockAssumption DEF OpenCorpus, WikiInv, WikiTypes, FlockInv, wikiNames
  <2> QED
    BY <2>1, <2>2
<1>2. CASE CheckCorpus(p)
  BY <1>2, CloseKeepsInv, GotoKeepsInv DEF CheckCorpus
<1>3. CASE CreateLock(p)
  <2>1. CASE lockName[lockDir[p]] = Nothing /\ takes = "all"
    BY <1>3, <2>1, WikiLockAssumption
       DEF CreateLock, LockGoto, WikiInv, WikiTypes, FlockInv
  <2>2. CASE ~(lockName[lockDir[p]] = Nothing /\ takes = "all")
    BY <1>3, <2>2, GotoKeepsInv DEF CreateLock
  <2> QED
    BY <2>1, <2>2
<1>4. CASE OpenExisting(p)
  <2>1. CASE lockName[lockDir[p]] = Nothing
    BY <1>4, <2>1, CloseKeepsInv DEF OpenExisting
  <2>2. CASE lockName[lockDir[p]] # Nothing
    BY <1>4, <2>2, WikiLockAssumption
       DEF OpenExisting, LockGoto, WikiInv, WikiTypes, FlockInv, wikiNames
  <2> QED
    BY <2>1, <2>2
<1>5. CASE ClassifyRefusal(p)
  BY <1>5, CloseKeepsInv DEF ClassifyRefusal
<1>6. CASE VerifyLock(p)
  BY <1>6, CloseKeepsInv, GotoKeepsInv DEF VerifyLock
<1>7. CASE TryFlock(p)
  BY <1>7, WikiLockAssumption
     DEF TryFlock, FlockFree, WikiInv, WikiTypes, FlockInv, wikiNames
<1>8. CASE CheckAfterFlock(p)
  BY <1>8, CloseKeepsInv, GotoKeepsInv DEF CheckAfterFlock
<1>9. CASE Confirm(p)
  BY <1>9, CloseKeepsInv, GotoKeepsInv DEF Confirm
<1>10. CASE WaitForFlock(p)
  BY <1>10, CloseKeepsInv, GotoKeepsInv DEF WaitForFlock
<1>11. CASE Reopen(p)
  BY <1>11, CloseKeepsInv DEF Reopen
<1> QED
  BY <1>1, <1>2, <1>3, <1>4, <1>5, <1>6, <1>7, <1>8, <1>9, <1>10, <1>11 DEF AcquireStep

(* So does every step. *)
LEMMA WikiNextKeepsInv ==
    ASSUME WikiInv, [WikiLockNext]_wikiVars
    PROVE  WikiInv'
<1>1. ASSUME NEW p \in LockProcs, UNCHANGED lockMode, BeginLock(p) PROVE WikiInv'
  BY <1>1, GotoKeepsInv DEF BeginLock, LockStep, WithFlock, WithFd, WithDir, Acquiring
<1>2. ASSUME NEW p \in LockProcs, UNCHANGED lockMode, ReleaseLock(p) PROVE WikiInv'
  BY <1>2, CloseKeepsInv DEF ReleaseLock, LockOutcome
<1>3. ASSUME NEW p \in LockProcs, UNCHANGED lockMode, LockExpires(p) PROVE WikiInv'
  BY <1>3 DEF LockExpires, WikiInv, WikiTypes, FlockInv, wikiNames
<1>4. ASSUME NEW p \in LockProcs, UNCHANGED lockMode, FlockFails(p) PROVE WikiInv'
  BY <1>4, CloseKeepsInv DEF FlockFails, LockOutcome
<1>5. ASSUME NEW p \in LockProcs, UNCHANGED lockMode, DieLocking(p) PROVE WikiInv'
  BY <1>5, CloseKeepsInv DEF DieLocking, LockOutcome
<1>6. ASSUME UNCHANGED lockMode, RebindLock PROVE WikiInv'
  BY <1>6, WikiLockAssumption DEF RebindLock, WikiInv, WikiTypes, FlockInv
<1>7. CASE UNCHANGED wikiVars
  BY <1>7 DEF wikiVars, wikiNames, WikiInv, WikiTypes, FlockInv
<1> QED
  BY <1>1, <1>2, <1>3, <1>4, <1>5, <1>6, <1>7, AcquireKeepsInv DEF WikiLockNext

-----------------------------------------------------------------------------
(* Two current holders of one directory have the flock of one file: so a   *)
(* writer among them is alone.                                             *)
LEMMA WikiExclusion == WikiInv => Wiki!Exclusive(WikiCurrent, WikiHolding)
<1> SUFFICES ASSUME WikiInv, NEW d \in Corpora
             PROVE  WikiAllowed(Wiki!ModesAt(WikiCurrent, WikiHolding, d))
  BY DEF Wiki!Exclusive
<1> DEFINE Here == {q \in WikiCurrent : WikiHolding[q].place = d}
<1>1. ASSUME NEW p \in Here, NEW q \in Here, WikiHolding[p].mode = "exclusive"
      PROVE  q = p
  <2>1. /\ p \in LockProcs /\ lockPc[p] = "held" /\ lockName[lockDir[p]] = lockFd[p]
        /\ q \in LockProcs /\ lockPc[q] = "held" /\ lockName[lockDir[q]] = lockFd[q]
    BY DEF WikiCurrent, NameCurrent
  <2>2. WikiHolding[p] = [mode |-> lockMode[p], place |-> lockDir[p]]
        /\ WikiHolding[q] = [mode |-> lockMode[q], place |-> lockDir[q]]
    BY <2>1 DEF WikiHolding
  <2>3. lockMode[p] = "exclusive" /\ lockDir[p] = lockDir[q]
    BY <1>1, <2>2
  <2>4. flocked[p] = flocked[q] /\ flocked[p] # Nothing
    BY <2>1, <2>3, WikiLockAssumption DEF WikiInv, FlockInv, WithFlock, WithFd
  <2> QED
    BY <2>1, <2>3, <2>4 DEF WikiInv, FlockInv
<1>2. DOMAIN Wiki!ModesAt(WikiCurrent, WikiHolding, d) = Here
  BY DEF Wiki!ModesAt
<1>3. \A p \in Here : Wiki!ModesAt(WikiCurrent, WikiHolding, d)[p] = WikiHolding[p].mode
  BY DEF Wiki!ModesAt
<1> QED
  BY <1>1, <1>2, <1>3 DEF WikiAllowed

(* A step after which everybody holds what he held is a rebinding. *)
LEMMA WikiSameHolders ==
    ASSUME WikiInv', WikiHolding' = WikiHolding
    PROVE  Wiki!Rebind
<1>1. Wiki!Exclusive(WikiCurrent, WikiHolding)'
  BY WikiExclusion, PTL
<1>2. WikiCurrent' \in SUBSET Wiki!Holders
  <2>1. \A p \in LockProcs : lockPc'[p] = "held" => WikiHolding'[p] # Nothing
    BY WikiLockAssumption DEF WikiHolding, WikiInv, WikiTypes, FlockInv, WithDir, WithFd, WithFlock
  <2> QED
    BY <2>1 DEF WikiCurrent, Wiki!Holders
<1> QED
  BY <1>1, <1>2 DEF Wiki!Rebind, Wiki!Exclusive

(* A process that gives the lock up. *)
LEMMA WikiReleased ==
    ASSUME WikiInv, NEW p \in LockProcs, NEW step, lockPc[p] = "held", Close(p, step),
           step \in LockOutcome, UNCHANGED <<wikiNames, lockMode>>
    PROVE  Wiki!Release(p)
<1>1. WikiHolding[p] # Nothing
  BY WikiLockAssumption DEF WikiHolding, WikiInv, WikiTypes, FlockInv, WithDir, WithFd, WithFlock
<1>2. WikiHolding' = [WikiHolding EXCEPT ![p] = Nothing]
  BY DEF WikiHolding, WikiInv, WikiTypes, Close, LockOutcome
<1>3. WikiCurrent' = WikiCurrent \ {p}
  BY DEF WikiCurrent, NameCurrent, WikiInv, WikiTypes, Close, LockOutcome, wikiNames
<1> QED
  BY <1>1, <1>2, <1>3 DEF Wiki!Release

(* Confirm grants the lock on the file that the name denotes. *)
LEMMA WikiGranted ==
    ASSUME WikiInv, WikiInv', NEW p \in LockProcs, Confirm(p), UNCHANGED lockMode, lockPc'[p] = "held"
    PROVE  Wiki!Grant(p, lockMode[p], lockDir[p])
<1>1. lockPc[p] = "confirm" /\ NameCurrent(p) /\ LockGoto(p, "held") /\ UNCHANGED <<lockFd, wikiNames>>
  BY DEF Confirm, LockStep, Close, WikiInv, WikiTypes
<1>2. WikiHolding[p] = Nothing
  BY <1>1 DEF WikiHolding
<1>3. WikiHolding' = [WikiHolding EXCEPT ![p] = [mode |-> lockMode[p], place |-> lockDir[p]]]
  BY <1>1 DEF WikiHolding, LockGoto, WikiInv, WikiTypes
<1>4. WikiCurrent' = WikiCurrent \cup {p}
  BY <1>1 DEF WikiCurrent, NameCurrent, LockGoto, WikiInv, WikiTypes, wikiNames
<1>5. Wiki!Exclusive(WikiCurrent, WikiHolding)'
  BY WikiExclusion, PTL
<1> QED
  BY <1>2, <1>3, <1>4, <1>5 DEF Wiki!Grant, Wiki!Exclusive

(* Every other step of a process that does not hold the lock leaves all    *)
(* holders alone.                                                          *)
LEMMA WikiNotHolding ==
    ASSUME WikiInv, NEW p \in LockProcs, lockPc[p] # "held", lockPc'[p] # "held",
           UNCHANGED lockMode, AcquireStep(p) \/ BeginLock(p) \/ FlockFails(p) \/ DieLocking(p)
    PROVE  WikiHolding' = WikiHolding
<1>1. \A q \in LockProcs \ {p} : lockPc'[q] = lockPc[q] /\ lockDir'[q] = lockDir[q]
  BY DEF AcquireStep, OpenCorpus, CheckCorpus, CreateLock, OpenExisting, ClassifyRefusal, VerifyLock,
         TryFlock, CheckAfterFlock, Confirm, WaitForFlock, Reopen, BeginLock, FlockFails, DieLocking,
         Close, LockGoto, WikiInv, WikiTypes
<1> QED
  BY <1>1 DEF WikiHolding

(* Every step is one of the abstract lock, or leaves it alone. *)
LEMMA WikiStepImplements ==
    ASSUME WikiInv, WikiInv', [WikiLockNext]_wikiVars
    PROVE  [Wiki!LockNext]_(Wiki!lockVars)
<1> USE DEF Wiki!LockNext
<1>1. ASSUME NEW p \in LockProcs, UNCHANGED lockMode, AcquireStep(p) PROVE Wiki!LockNext
  <2>1. lockPc[p] # "held"
    BY <1>1 DEF AcquireStep, LockStep, OpenCorpus, CheckCorpus, CreateLock, OpenExisting,
                ClassifyRefusal, VerifyLock, TryFlock, CheckAfterFlock, Confirm, WaitForFlock, Reopen
  <2>2. CASE lockPc'[p] = "held"
    <3>1. Confirm(p)
      BY <1>1, <2>2 DEF AcquireStep, LockStep, OpenCorpus, CheckCorpus, CreateLock, OpenExisting,
                ClassifyRefusal, VerifyLock, TryFlock, CheckAfterFlock, WaitForFlock, Reopen,
                Close, LockGoto, WikiInv, WikiTypes
    <3>2. lockMode[p] \in {"shared", "exclusive"} /\ lockDir[p] \in Corpora
      BY <3>1 DEF Confirm, LockStep, WikiInv, WikiTypes, FlockInv, WithDir, WithFd, WithFlock
    <3> QED
      BY <1>1, <2>2, <3>1, <3>2, WikiGranted
  <2>3. CASE lockPc'[p] # "held"
    BY <1>1, <2>1, <2>3, WikiNotHolding, WikiSameHolders
  <2> QED
    BY <2>2, <2>3
<1>2. ASSUME NEW p \in LockProcs, UNCHANGED lockMode, BeginLock(p) \/ FlockFails(p)
      PROVE  Wiki!LockNext
  <2>1. lockPc[p] # "held" /\ lockPc'[p] # "held"
    BY <1>2 DEF BeginLock, FlockFails, LockStep, LockGoto, Close, WikiInv, WikiTypes
  <2> QED
    BY <1>2, <2>1, WikiNotHolding, WikiSameHolders
<1>3. ASSUME NEW p \in LockProcs, UNCHANGED lockMode, ReleaseLock(p) PROVE Wiki!LockNext
  BY <1>3, WikiReleased DEF ReleaseLock, LockStep, LockOutcome
<1>4. ASSUME NEW p \in LockProcs, UNCHANGED lockMode, DieLocking(p) PROVE Wiki!LockNext
  <2>1. CASE lockPc[p] = "held"
    BY <1>4, <2>1, WikiReleased DEF DieLocking, LockOutcome
  <2>2. CASE lockPc[p] # "held"
    <3>1. lockPc'[p] # "held"
      BY <1>4 DEF DieLocking, Close, WikiInv, WikiTypes
    <3> QED
      BY <1>4, <2>2, <3>1, WikiNotHolding, WikiSameHolders
  <2> QED
    BY <2>1, <2>2
<1>5. ASSUME NEW p \in LockProcs, UNCHANGED lockMode, LockExpires(p) PROVE Wiki!LockNext
  <2>1. WikiHolding' = WikiHolding
    BY <1>5 DEF LockExpires, WikiHolding
  <2> QED
    BY <2>1, WikiSameHolders
<1>6. ASSUME UNCHANGED lockMode, RebindLock PROVE Wiki!LockNext
  <2>1. WikiHolding' = WikiHolding
    BY <1>6 DEF RebindLock, WikiHolding
  <2> QED
    BY <2>1, WikiSameHolders
<1>7. CASE UNCHANGED wikiVars
  <2>1. WikiHolding' = WikiHolding
    BY <1>7 DEF wikiVars, WikiHolding
  <2> QED
    BY <2>1, WikiSameHolders
<1> QED
  BY <1>1, <1>2, <1>3, <1>4, <1>5, <1>6, <1>7 DEF WikiLockNext

(* The wiki lock is a readers-writer lock on the file that .write.lock     *)
(* denotes: for any processes, directories and troubles, a guard of        *)
(* acquire_with_runtime is on that file when it is given, and a writer     *)
(* that holds it is alone among its holders.                               *)
THEOREM WikiLockRefines == WikiLockSpec => WikiLockImplements
<1>1. WikiLockInit => WikiInv
  BY WikiLockAssumption
     DEF WikiLockInit, WikiInv, WikiTypes, FlockInv, WithFlock, WithFd, WithDir
<1>2. WikiInv /\ [WikiLockNext]_wikiVars => WikiInv'
  BY WikiNextKeepsInv
<1>3. WikiLockInit => Wiki!LockInit
  BY DEF WikiLockInit, Wiki!LockInit, WikiHolding, WikiCurrent
<1>4. WikiInv /\ WikiInv' /\ [WikiLockNext]_wikiVars => [Wiki!LockNext]_(Wiki!lockVars)
  BY WikiStepImplements
<1> QED
  BY <1>1, <1>2, <1>3, <1>4, PTL DEF WikiLockSpec, WikiLockImplements, Wiki!LockSpec

-----------------------------------------------------------------------------
(* The model-construction slots.                                           *)

(* Steps at which a process has the directory pinned, the file of slot 0   *)
(* and of slot 1 open, and the flock of a slot.                            *)
WithSlot == {"check", "confirm"} \cup Leased
WithFd1 == WithSlot \cup {"opened 1", "try 0", "try 1", "poll"}
WithFd0 == WithFd1 \cup {"opened 0", "slot 1"}
WithPin == WithFd0 \cup {"slot 0"}

SlotEnd == {"idle", "loaded", "busy", "rebound", "unsafe", "unprovisionable", "dead"}

AllDirs == 1 .. MaxSlotDirs

SlotTypes ==
    /\ slotDirs \in 0 .. MaxSlotDirs
    /\ slotPath \in AllDirs \cup {NoFile}
    /\ slotName \in [AllDirs -> [Slots -> Nat \cup {NoFile}]]
    /\ slotFiles \in Nat
    /\ slotPc \in [Loaders -> Polling \cup Leased \cup SlotEnd]
    /\ slotDir \in [Loaders -> (AllDirs) \cup {NoFile}]
    /\ slotFds \in [Loaders -> [Slots -> Nat \cup {NoFile}]]
    /\ slotHeld \in [Loaders -> Slots \cup {NoFile}]

(* What a process has at which step: past flock it has one of the slots. *)
SlotSteps ==
    \A p \in Loaders :
        /\ slotPc[p] \in WithPin => slotDir[p] \in AllDirs
        /\ slotPc[p] \in WithFd0 => slotFds[p][0] \in Nat
        /\ slotPc[p] \in WithFd1 => slotFds[p][1] \in Nat
        /\ slotPc[p] \in WithSlot <=> slotHeld[p] \in Slots

(* No two processes have the flock of the same file. *)
FlocksDiffer ==
    \A p, q \in Loaders :
        p # q /\ slotHeld[p] # NoFile /\ slotHeld[q] # NoFile
            => slotFds[p][slotHeld[p]] # slotFds[q][slotHeld[q]]

ConstructionInv == SlotTypes /\ SlotSteps /\ FlocksDiffer

(* NoFile is neither a file, nor a slot, nor a directory. *)
LEMMA NoFileElsewhere == NoFile \notin Nat /\ NoFile \notin Slots /\ NoFile \notin AllDirs
BY ConstructionAssumption DEF Slots, AllDirs

(* The end of a poll or an error drops everything. *)
LEMMA DropKeepsInv ==
    ASSUME ConstructionInv, NEW p \in Loaders, NEW step, Drop(p, step),
           step \in {"pin"} \cup SlotEnd, UNCHANGED slotNames
    PROVE  ConstructionInv'
<1>1. NoSlots \in [Slots -> Nat \cup {NoFile}]
  BY DEF NoSlots
<1>2. SlotTypes'
  BY <1>1 DEF ConstructionInv, SlotTypes, Drop, slotNames, Polling
<1>3. /\ slotPc'[p] = step /\ slotHeld'[p] = NoFile
      /\ \A q \in Loaders \ {p} :
            /\ slotPc'[q] = slotPc[q] /\ slotDir'[q] = slotDir[q]
            /\ slotFds'[q] = slotFds[q] /\ slotHeld'[q] = slotHeld[q]
  BY DEF ConstructionInv, SlotTypes, Drop
<1>4. step \notin WithPin /\ step \notin WithFd0 /\ step \notin WithFd1 /\ step \notin WithSlot
  BY DEF WithPin, WithFd0, WithFd1, WithSlot, Leased, SlotEnd
<1>5. SlotSteps'
  BY <1>3, <1>4, NoFileElsewhere DEF ConstructionInv, SlotSteps
<1>6. FlocksDiffer'
  BY <1>3 DEF ConstructionInv, FlocksDiffer
<1> QED
  BY <1>2, <1>5, <1>6 DEF ConstructionInv

(* A process goes on with what it has. *)
LEMMA MoveKeepsInv ==
    ASSUME ConstructionInv, NEW p \in Loaders, NEW step,
           slotPc' = [slotPc EXCEPT ![p] = step],
           UNCHANGED <<slotDir, slotFds, slotHeld>>, SlotTypes',
           step \in WithPin => slotPc[p] \in WithPin,
           step \in WithFd0 => slotPc[p] \in WithFd0,
           step \in WithFd1 => slotPc[p] \in WithFd1,
           step \in WithSlot <=> slotPc[p] \in WithSlot
    PROVE  ConstructionInv'
<1>1. slotPc'[p] = step /\ \A q \in Loaders \ {p} : slotPc'[q] = slotPc[q]
  BY DEF ConstructionInv, SlotTypes
<1>2. SlotSteps'
  BY <1>1 DEF ConstructionInv, SlotSteps
<1>3. FlocksDiffer'
  BY DEF ConstructionInv, FlocksDiffer
<1> QED
  BY <1>2, <1>3 DEF ConstructionInv

(* The same, when no name changes either. *)
LEMMA MoveAlone ==
    ASSUME ConstructionInv, NEW p \in Loaders, NEW step, Move(p, step), UNCHANGED slotNames,
           step \in Polling \cup Leased,
           step \in WithPin => slotPc[p] \in WithPin,
           step \in WithFd0 => slotPc[p] \in WithFd0,
           step \in WithFd1 => slotPc[p] \in WithFd1,
           step \in WithSlot <=> slotPc[p] \in WithSlot
    PROVE  ConstructionInv'
<1>1. SlotTypes'
  BY DEF ConstructionInv, SlotTypes, Move, slotNames
<1> QED
  BY <1>1, MoveKeepsInv DEF Move

(* provision_lock_directory and create_private_directory. *)
LEMMA ProvisionKeepsInv ==
    ASSUME ConstructionInv, NEW p \in Loaders, Provision(p) \/ MakeDirectory(p)
    PROVE  ConstructionInv'
<1>1. PICK step \in {"make", "pin"} : slotPc' = [slotPc EXCEPT ![p] = step]
  BY DEF Provision, MakeDirectory
<1>2. slotPc[p] \in {"start", "make"} /\ UNCHANGED <<slotDir, slotFds, slotHeld, slotName, slotFiles>>
  BY DEF Provision, MakeDirectory, At, slotNames
<1>3. slotDirs' \in 0 .. MaxSlotDirs /\ slotPath' \in AllDirs \cup {NoFile}
  BY ConstructionAssumption
     DEF Provision, MakeDirectory, slotNames, ConstructionInv, SlotTypes, AllDirs
<1>4. SlotTypes'
  BY <1>1, <1>2, <1>3 DEF ConstructionInv, SlotTypes, Polling
<1> QED
  BY <1>1, <1>2, <1>4, MoveKeepsInv DEF WithPin, WithFd0, WithFd1, WithSlot, Leased

(* PinnedDirectory::open. *)
LEMMA PinKeepsInv ==
    ASSUME ConstructionInv, NEW p \in Loaders, PinDirectory(p)
    PROVE  ConstructionInv'
<1>1. CASE slotPath = NoFile
  BY <1>1, DropKeepsInv DEF PinDirectory, SlotEnd
<1>2. CASE slotPath # NoFile
  <2>1. slotDir' = [slotDir EXCEPT ![p] = slotPath] /\ slotPc' = [slotPc EXCEPT ![p] = "slot 0"]
        /\ UNCHANGED <<slotFds, slotHeld, slotNames>> /\ slotPc[p] = "pin"
    BY <1>2 DEF PinDirectory, At
  <2>2. slotPath \in AllDirs
    BY <1>2 DEF ConstructionInv, SlotTypes
  <2>3. SlotTypes'
    BY <2>1, <2>2 DEF ConstructionInv, SlotTypes, slotNames, Polling
  <2>4. /\ slotPc'[p] = "slot 0" /\ slotDir'[p] = slotPath
        /\ \A q \in Loaders \ {p} : slotPc'[q] = slotPc[q] /\ slotDir'[q] = slotDir[q]
    BY <2>1 DEF ConstructionInv, SlotTypes
  <2>5. SlotSteps'
    BY <2>1, <2>2, <2>4
       DEF ConstructionInv, SlotSteps, WithPin, WithFd0, WithFd1, WithSlot, Leased
  <2>6. FlocksDiffer'
    BY <2>1 DEF ConstructionInv, FlocksDiffer
  <2> QED
    BY <2>3, <2>5, <2>6 DEF ConstructionInv
<1> QED
  BY <1>1, <1>2

(* open_slot. *)
LEMMA OpenSlotKeepsInv ==
    ASSUME ConstructionInv, NEW p \in Loaders, NEW s \in Slots, OpenSlot(p, s)
    PROVE  ConstructionInv'
<1>1. CASE ~DirectoryCurrent(p)
  BY <1>1, DropKeepsInv DEF OpenSlot, SlotEnd
<1>2. CASE DirectoryCurrent(p)
  <2> DEFINE file == IF slotName[slotDir[p]][s] # NoFile THEN slotName[slotDir[p]][s]
                     ELSE slotFiles + 1
             step == IF s = 0 THEN "opened 0" ELSE "opened 1"
  <2>1. /\ slotPc[p] = IF s = 0 THEN "slot 0" ELSE "slot 1"
        /\ slotName' = [slotName EXCEPT ![slotDir[p]][s] = file]
        /\ slotFiles' \in {slotFiles, file}
        /\ slotFds' = [slotFds EXCEPT ![p][s] = file]
        /\ slotPc' = [slotPc EXCEPT ![p] = step]
        /\ UNCHANGED <<slotDir, slotHeld, slotPath, slotDirs>>
    BY <1>2 DEF OpenSlot, At
  <2>2. slotPc[p] \in WithPin /\ slotPc[p] \notin WithSlot /\ (s = 1 => slotPc[p] \in WithFd0)
    <3> HIDE DEF file, step
    <3>1. slotPc[p] = IF s = 0 THEN "slot 0" ELSE "slot 1"
      BY <2>1
    <3>2. "slot 0" \in WithPin /\ "slot 0" \notin WithSlot
      BY DEF WithPin, WithSlot, Leased
    <3>3. "slot 1" \in WithPin /\ "slot 1" \notin WithSlot /\ "slot 1" \in WithFd0
      BY DEF WithPin, WithFd0, WithSlot, Leased
    <3>4. s = 1 => slotPc[p] = "slot 1"
      <4>1. 1 # 0
        OBVIOUS
      <4> QED
        BY <3>1, <4>1, Zenon
    <3>5. slotPc[p] = "slot 0" \/ slotPc[p] = "slot 1"
      BY <3>1
    <3> QED
      BY <3>2, <3>3, <3>4, <3>5
  <2>3. slotDir[p] \in AllDirs /\ slotHeld[p] = NoFile
    BY <2>2 DEF ConstructionInv, SlotTypes, SlotSteps
  <2>4. file \in Nat
    BY <2>3 DEF ConstructionInv, SlotTypes
  <2>5. step \in Polling /\ step \notin WithSlot /\ (step \in WithFd1 => s = 1)
    BY DEF Polling, WithFd1, WithSlot, Leased, Slots
  <2> HIDE DEF file, step
  <2>6. SlotTypes'
    BY <2>1, <2>3, <2>4, <2>5 DEF ConstructionInv, SlotTypes
  <2>7. /\ slotPc'[p] = step /\ slotFds'[p][s] = file
        /\ \A t \in Slots \ {s} : slotFds'[p][t] = slotFds[p][t]
        /\ \A q \in Loaders \ {p} : slotPc'[q] = slotPc[q] /\ slotFds'[q] = slotFds[q]
    BY <2>1 DEF ConstructionInv, SlotTypes
  <2>8. s = 1 => slotFds'[p][0] \in Nat
    BY <2>2, <2>7 DEF ConstructionInv, SlotSteps, Slots
  <2>9. s = 0 => slotFds'[p][0] \in Nat
    BY <2>4, <2>7
  <2>10. s \in {0, 1}
    BY DEF Slots
  <2>11. SlotSteps'
    <3>1. ASSUME NEW q \in Loaders, q # p PROVE SlotSteps!(q)'
      BY <2>1, <2>7, <3>1 DEF ConstructionInv, SlotSteps
    <3>2. SlotSteps!(p)'
      <4>1. slotDir'[p] \in AllDirs /\ slotFds'[p][0] \in Nat /\ slotHeld'[p] \notin Slots
        BY <2>1, <2>3, <2>8, <2>9, <2>10, NoFileElsewhere
      <4>2. slotPc'[p] \in WithFd1 => slotFds'[p][1] \in Nat
        BY <2>4, <2>5, <2>7
      <4>3. slotPc'[p] \notin WithSlot
        BY <2>5, <2>7
      <4> QED
        BY <4>1, <4>2, <4>3
    <3> QED
      BY <3>1, <3>2 DEF SlotSteps
  <2>12. FlocksDiffer'
    <3> SUFFICES ASSUME NEW q \in Loaders, NEW r \in Loaders, q # r,
                        slotHeld[q] # NoFile, slotHeld[r] # NoFile
                 PROVE  slotFds'[q][slotHeld[q]] # slotFds'[r][slotHeld[r]]
      BY <2>1 DEF FlocksDiffer
    <3>1. slotFds'[q] = slotFds[q] /\ slotFds'[r] = slotFds[r]
      BY <2>3, <2>7
    <3> QED
      BY <3>1 DEF ConstructionInv, FlocksDiffer
  <2> QED
    BY <2>6, <2>11, <2>12 DEF ConstructionInv
<1> QED
  BY <1>1, <1>2

(* OpenedSlot::revalidate of a slot just opened. *)
LEMMA RevalidateOpenedKeepsInv ==
    ASSUME ConstructionInv, NEW p \in Loaders, NEW s \in Slots, RevalidateOpened(p, s)
    PROVE  ConstructionInv'
<1>1. UNCHANGED slotNames
  BY DEF RevalidateOpened
<1>2. CASE Drop(p, "unsafe") \/ Drop(p, "rebound")
  BY <1>1, <1>2, DropKeepsInv DEF SlotEnd
<1>3. CASE s = 0 /\ Move(p, "slot 1")
  <2>1. slotPc[p] = "opened 0"
    BY <1>3 DEF RevalidateOpened, At
  <2> QED
    BY <1>1, <1>3, <2>1, MoveAlone DEF WithPin, WithFd0, WithFd1, WithSlot, Leased, Polling
<1>4. CASE s = 1 /\ Move(p, "try 0")
  <2>1. slotPc[p] = "opened 1"
    <3>1. 1 # 0
      OBVIOUS
    <3>2. slotPc[p] = IF s = 0 THEN "opened 0" ELSE "opened 1"
      BY DEF RevalidateOpened, At
    <3> QED
      BY <1>4, <3>1, <3>2, Zenon
  <2> QED
    BY <1>1, <1>4, <2>1, MoveAlone DEF WithPin, WithFd0, WithFd1, WithSlot, Leased, Polling
<1> QED
  BY <1>2, <1>3, <1>4 DEF RevalidateOpened, Slots

(* The nonblocking flock. *)
LEMMA TrySlotKeepsInv ==
    ASSUME ConstructionInv, NEW p \in Loaders, NEW s \in Slots, TrySlot(p, s)
    PROVE  ConstructionInv'
<1>1. slotPc[p] \in {"try 0", "try 1"} /\ UNCHANGED <<slotDir, slotFds, slotNames>>
  BY DEF TrySlot, At
<1>2. slotPc[p] \in WithPin /\ slotPc[p] \in WithFd0 /\ slotPc[p] \in WithFd1 /\ slotPc[p] \notin WithSlot
  BY <1>1 DEF WithPin, WithFd0, WithFd1, WithSlot, Leased
<1>3. CASE ~SlotFree(p, s)
  <2>1. PICK step \in {"try 1", "poll"} : slotPc' = [slotPc EXCEPT ![p] = step]
    BY <1>3 DEF TrySlot
  <2>2. UNCHANGED slotHeld
    BY <1>3 DEF TrySlot
  <2>3. SlotTypes'
    BY <1>1, <2>1, <2>2 DEF ConstructionInv, SlotTypes, slotNames, Polling
  <2>4. step \notin WithSlot
    BY DEF WithSlot, Leased
  <2> QED
    BY <1>1, <1>2, <2>1, <2>2, <2>3, <2>4, MoveKeepsInv
<1>4. CASE SlotFree(p, s)
  <2>1. slotHeld' = [slotHeld EXCEPT ![p] = s] /\ slotPc' = [slotPc EXCEPT ![p] = "check"]
    BY <1>4 DEF TrySlot
  <2>2. SlotTypes'
    BY <1>1, <2>1 DEF ConstructionInv, SlotTypes, slotNames, Polling
  <2>3. /\ slotHeld'[p] = s /\ slotPc'[p] = "check"
        /\ \A q \in Loaders \ {p} : slotHeld'[q] = slotHeld[q] /\ slotPc'[q] = slotPc[q]
    BY <2>1 DEF ConstructionInv, SlotTypes
  <2>4. "check" \in WithSlot
    BY DEF WithSlot
  <2>5. SlotSteps'
    BY <1>1, <1>2, <2>3, <2>4 DEF ConstructionInv, SlotSteps
  <2>6. FlocksDiffer'
    <3> SUFFICES ASSUME NEW q \in Loaders, NEW r \in Loaders, q # r,
                        slotHeld'[q] # NoFile, slotHeld'[r] # NoFile
                 PROVE  slotFds[q][slotHeld'[q]] # slotFds[r][slotHeld'[r]]
      BY <1>1 DEF FlocksDiffer
    <3>1. CASE q = p
      BY <1>4, <2>3, <3>1 DEF SlotFree
    <3>2. CASE r = p
      BY <1>4, <2>3, <3>2 DEF SlotFree
    <3>3. CASE q # p /\ r # p
      BY <2>3, <3>3 DEF ConstructionInv, FlocksDiffer
    <3> QED
      BY <3>1, <3>2, <3>3
  <2> QED
    BY <2>2, <2>5, <2>6 DEF ConstructionInv
<1> QED
  BY <1>3, <1>4

(* A step of acquire_with_wait keeps the invariant. *)
LEMMA PollingKeepsInv ==
    ASSUME ConstructionInv, NEW p \in Loaders, AcquireSlot(p)
    PROVE  ConstructionInv'
<1>1. CASE CheckSlot(p)
  BY <1>1, DropKeepsInv, MoveAlone
     DEF CheckSlot, At, WithPin, WithFd0, WithFd1, WithSlot, Polling, SlotEnd
<1>2. CASE ConfirmSlot(p)
  BY <1>2, DropKeepsInv, MoveAlone
     DEF ConfirmSlot, At, WithPin, WithFd0, WithFd1, WithSlot, Leased, SlotEnd
<1>3. CASE Poll(p)
  BY <1>3, DropKeepsInv DEF Poll, SlotEnd
<1> QED
  BY <1>1, <1>2, <1>3, ProvisionKeepsInv, PinKeepsInv, OpenSlotKeepsInv,
     RevalidateOpenedKeepsInv, TrySlotKeepsInv DEF AcquireSlot

(* So does every step. *)
LEMMA ConstructionNextKeepsInv ==
    ASSUME ConstructionInv, [ConstructionNext]_slotVars
    PROVE  ConstructionInv'
<1>1. ASSUME NEW p \in Loaders, BeginLoad(p) PROVE ConstructionInv'
  BY <1>1, MoveAlone DEF BeginLoad, At, WithPin, WithFd0, WithFd1, WithSlot, Leased, Polling
<1>2. ASSUME NEW p \in Loaders, Construct(p) PROVE ConstructionInv'
  BY <1>2, MoveAlone DEF Construct, At, WithPin, WithFd0, WithFd1, WithSlot, Leased
<1>3. ASSUME NEW p \in Loaders, FinishLoad(p) PROVE ConstructionInv'
  BY <1>3, DropKeepsInv DEF FinishLoad, SlotEnd
<1>4. ASSUME NEW p \in Loaders, SlotExpires(p) PROVE ConstructionInv'
  BY <1>4 DEF SlotExpires, ConstructionInv, SlotTypes, SlotSteps, FlocksDiffer, slotNames
<1>5. ASSUME NEW p \in Loaders, SlotCallFails(p) PROVE ConstructionInv'
  BY <1>5, DropKeepsInv DEF SlotCallFails, SlotEnd
<1>6. ASSUME NEW p \in Loaders, DieLoading(p) PROVE ConstructionInv'
  BY <1>6, DropKeepsInv DEF DieLoading, SlotEnd
<1>7. CASE RebindDirectory
  <2>1. PICK d \in (1 .. slotDirs) \cup {NoFile} : slotPath' = d
    BY <1>7 DEF RebindDirectory
  <2>2. d \in AllDirs \cup {NoFile}
    <3>1. MaxSlotDirs \in Nat /\ slotDirs \in 0 .. MaxSlotDirs
      BY ConstructionAssumption DEF ConstructionInv, SlotTypes
    <3> QED
      BY <3>1 DEF AllDirs
  <2> QED
    BY <1>7, <2>1, <2>2 DEF RebindDirectory, ConstructionInv, SlotTypes, SlotSteps, FlocksDiffer
<1>8. CASE RebindSlot
  <2>1. PICK d \in 1 .. slotDirs, s \in Slots, f \in (1 .. slotFiles) \cup {NoFile} :
            slotName' = [slotName EXCEPT ![d][s] = f]
    BY <1>8 DEF RebindSlot
  <2>2. d \in AllDirs
    <3>1. MaxSlotDirs \in Nat /\ slotDirs \in 0 .. MaxSlotDirs
      BY ConstructionAssumption DEF ConstructionInv, SlotTypes
    <3> QED
      BY <3>1 DEF AllDirs
  <2>3. f \in Nat \cup {NoFile}
    <3>1. slotFiles \in Nat
      BY DEF ConstructionInv, SlotTypes
    <3> QED
      BY <3>1
  <2>4. slotName' \in [AllDirs -> [Slots -> Nat \cup {NoFile}]]
    BY <2>1, <2>2, <2>3 DEF ConstructionInv, SlotTypes
  <2> QED
    BY <1>8, <2>4 DEF RebindSlot, ConstructionInv, SlotTypes, SlotSteps, FlocksDiffer
<1>9. CASE UNCHANGED slotVars
  BY <1>9 DEF slotVars, slotNames, ConstructionInv, SlotTypes, SlotSteps, FlocksDiffer
<1> QED
  BY <1>1, <1>2, <1>3, <1>4, <1>5, <1>6, <1>7, <1>8, <1>9, PollingKeepsInv DEF ConstructionNext

-----------------------------------------------------------------------------
(* Two current holders of one slot of one directory have the flock of one  *)
(* file, so they are the same process.                                     *)
LEMMA SlotExclusion == ConstructionInv => Construction!Exclusive(SlotsCurrent, SlotHolding)
<1> SUFFICES ASSUME ConstructionInv, NEW d \in 1 .. MaxSlotDirs
             PROVE  SlotsAllowed(Construction!ModesAt(SlotsCurrent, SlotHolding, d))
  BY DEF Construction!Exclusive
<1> DEFINE Here == {q \in SlotsCurrent : SlotHolding[q].place = d}
<1>1. ASSUME NEW p \in Here, NEW q \in Here, SlotHolding[p].mode = SlotHolding[q].mode
      PROVE  p = q
  <2>1. /\ p \in Loaders /\ slotPc[p] \in Leased /\ SlotCurrent(p, slotHeld[p])
        /\ q \in Loaders /\ slotPc[q] \in Leased /\ SlotCurrent(q, slotHeld[q])
    BY DEF SlotsCurrent
  <2>2. SlotHolding[p] = [mode |-> slotHeld[p], place |-> slotDir[p]]
        /\ SlotHolding[q] = [mode |-> slotHeld[q], place |-> slotDir[q]]
    BY <2>1 DEF SlotHolding
  <2>3. slotHeld[p] = slotHeld[q] /\ slotDir[p] = slotDir[q]
    BY <1>1, <2>2
  <2>4. slotFds[p][slotHeld[p]] = slotFds[q][slotHeld[q]]
    BY <2>1, <2>3 DEF SlotCurrent
  <2>5. slotHeld[p] # NoFile /\ slotHeld[q] # NoFile
    BY <2>1, NoFileElsewhere DEF ConstructionInv, SlotSteps, WithSlot
  <2> QED
    BY <2>1, <2>4, <2>5 DEF ConstructionInv, FlocksDiffer
<1>2. DOMAIN Construction!ModesAt(SlotsCurrent, SlotHolding, d) = Here
  BY DEF Construction!ModesAt
<1>3. \A p \in Here : Construction!ModesAt(SlotsCurrent, SlotHolding, d)[p] = SlotHolding[p].mode
  BY DEF Construction!ModesAt
<1> QED
  BY <1>1, <1>2, <1>3 DEF SlotsAllowed

(* What a process with a lease holds is a slot of a directory. *)
LeasesAreSlots ==
    \A p \in Loaders : slotPc[p] \in Leased =>
        /\ slotHeld[p] \in Slots /\ slotDir[p] \in AllDirs
        /\ SlotHolding[p] # NoFile

LEMMA LeaseIsSlot == ConstructionInv => LeasesAreSlots
<1> SUFFICES ASSUME ConstructionInv, NEW p \in Loaders, slotPc[p] \in Leased
             PROVE  /\ slotHeld[p] \in Slots /\ slotDir[p] \in AllDirs
                    /\ SlotHolding[p] # NoFile
  BY DEF LeasesAreSlots
<1>1. slotHeld[p] \in Slots /\ slotDir[p] \in AllDirs
  BY DEF ConstructionInv, SlotSteps, WithSlot, WithFd0, WithFd1, WithPin
<1>2. SlotHolding[p] \in [mode : {0, 1}, place : 1 .. MaxSlotDirs]
  BY <1>1 DEF SlotHolding, Slots, AllDirs
<1> QED
  BY <1>1, <1>2, ConstructionAssumption

(* A step after which everybody holds what he held is a rebinding. *)
LEMMA SlotSameHolders ==
    ASSUME ConstructionInv', SlotHolding' = SlotHolding
    PROVE  Construction!Rebind
<1>1. Construction!Exclusive(SlotsCurrent, SlotHolding)'
  BY SlotExclusion, PTL
<1>2. LeasesAreSlots'
  BY LeaseIsSlot, PTL
<1>3. SlotsCurrent' \in SUBSET Construction!Holders
  BY <1>2 DEF SlotsCurrent, Construction!Holders, LeasesAreSlots
<1> QED
  BY <1>1, <1>3 DEF Construction!Rebind, Construction!Exclusive

(* A process that drops its lease. *)
LEMMA SlotReleased ==
    ASSUME ConstructionInv, NEW p \in Loaders, NEW step, slotPc[p] \in Leased, Drop(p, step),
           step \in SlotEnd, UNCHANGED slotNames
    PROVE  Construction!Release(p)
<1>1. SlotHolding[p] # NoFile
  BY LeaseIsSlot DEF LeasesAreSlots
<1>2. SlotHolding' = [SlotHolding EXCEPT ![p] = NoFile]
  BY DEF SlotHolding, ConstructionInv, SlotTypes, Drop, SlotEnd, Leased
<1>3. SlotsCurrent' = SlotsCurrent \ {p}
  BY DEF SlotsCurrent, SlotCurrent, ConstructionInv, SlotTypes, Drop, SlotEnd, Leased, slotNames
<1> QED
  BY <1>1, <1>2, <1>3 DEF Construction!Release

(* OpenedSlot::revalidate grants the slot that the name denotes. *)
LEMMA SlotGranted ==
    ASSUME ConstructionInv, ConstructionInv', NEW p \in Loaders, ConfirmSlot(p), slotPc'[p] = "building"
    PROVE  Construction!Grant(p, slotHeld[p], slotDir[p])
<1>1. /\ slotPc[p] = "confirm" /\ SlotCurrent(p, slotHeld[p]) /\ Move(p, "building")
      /\ UNCHANGED slotNames
  BY DEF ConfirmSlot, At, Drop, ConstructionInv, SlotTypes
<1>2. SlotHolding[p] = NoFile
  BY <1>1 DEF SlotHolding, Leased
<1>3. SlotHolding' = [SlotHolding EXCEPT ![p] = [mode |-> slotHeld[p], place |-> slotDir[p]]]
  BY <1>1 DEF SlotHolding, Move, ConstructionInv, SlotTypes, Leased
<1>4. SlotsCurrent' = SlotsCurrent \cup {p}
  BY <1>1 DEF SlotsCurrent, SlotCurrent, Move, ConstructionInv, SlotTypes, Leased, slotNames
<1>5. Construction!Exclusive(SlotsCurrent, SlotHolding)'
  BY SlotExclusion, PTL
<1> QED
  BY <1>2, <1>3, <1>4, <1>5 DEF Construction!Grant, Construction!Exclusive

(* A process without a lease before and after its step leaves all holders  *)
(* alone.                                                                  *)
LEMMA SlotNotHolding ==
    ASSUME ConstructionInv, NEW p \in Loaders, slotPc[p] \notin Leased, slotPc'[p] \notin Leased,
           AcquireSlot(p) \/ BeginLoad(p) \/ SlotCallFails(p) \/ DieLoading(p)
    PROVE  SlotHolding' = SlotHolding
<1>1. \A q \in Loaders \ {p} :
        slotPc'[q] = slotPc[q] /\ slotDir'[q] = slotDir[q] /\ slotHeld'[q] = slotHeld[q]
  BY DEF AcquireSlot, Provision, MakeDirectory, PinDirectory, OpenSlot, RevalidateOpened,
         TrySlot, CheckSlot, ConfirmSlot, Poll, BeginLoad, SlotCallFails, DieLoading, Drop, Move, ConstructionInv, SlotTypes
<1> QED
  BY <1>1 DEF SlotHolding

(* Every step is one of the abstract lock, or leaves it alone. *)
LEMMA ConstructionStepImplements ==
    ASSUME ConstructionInv, ConstructionInv', [ConstructionNext]_slotVars
    PROVE  [Construction!LockNext]_(Construction!lockVars)
<1> USE DEF Construction!LockNext
<1>1. ASSUME NEW p \in Loaders, AcquireSlot(p) PROVE Construction!LockNext
  <2>1. slotPc[p] \notin Leased
    BY <1>1 DEF AcquireSlot, At, Provision, MakeDirectory, PinDirectory, OpenSlot,
                RevalidateOpened, TrySlot, CheckSlot, ConfirmSlot, Poll, Leased
  <2>2. CASE slotPc'[p] \in Leased
    <3>1. ConfirmSlot(p) /\ slotPc'[p] = "building"
      <4> USE DEF At, Drop, Move, Leased, ConstructionInv, SlotTypes
      <4>1. ~(Provision(p) \/ MakeDirectory(p) \/ PinDirectory(p))
        BY <2>2 DEF Provision, MakeDirectory, PinDirectory
      <4>2. ~\E s \in Slots : OpenSlot(p, s) \/ RevalidateOpened(p, s) \/ TrySlot(p, s)
        BY <2>2 DEF OpenSlot, RevalidateOpened, TrySlot
      <4>3. ~(CheckSlot(p) \/ Poll(p))
        BY <2>2 DEF CheckSlot, Poll
      <4>4. ConfirmSlot(p)
        BY <1>1, <4>1, <4>2, <4>3 DEF AcquireSlot
      <4> QED
        BY <2>2, <4>4 DEF ConfirmSlot
    <3>2. slotHeld[p] \in Slots /\ slotDir[p] \in AllDirs
      BY <3>1 DEF ConfirmSlot, At, ConstructionInv, SlotSteps, WithSlot, WithFd0, WithFd1, WithPin
    <3> QED
      BY <3>1, <3>2, SlotGranted DEF AllDirs
  <2>3. CASE slotPc'[p] \notin Leased
    BY <1>1, <2>1, <2>3, SlotNotHolding, SlotSameHolders
  <2> QED
    BY <2>2, <2>3
<1>2. ASSUME NEW p \in Loaders, BeginLoad(p) \/ SlotCallFails(p) PROVE Construction!LockNext
  <2>1. slotPc[p] \notin Leased /\ slotPc'[p] \notin Leased
    BY <1>2 DEF BeginLoad, SlotCallFails, At, Move, Drop, Polling, Leased, ConstructionInv, SlotTypes
  <2> QED
    BY <1>2, <2>1, SlotNotHolding, SlotSameHolders
<1>3. ASSUME NEW p \in Loaders, Construct(p) PROVE Construction!LockNext
  <2>1. SlotHolding' = SlotHolding
    BY <1>3 DEF Construct, At, Move, SlotHolding, Leased, ConstructionInv, SlotTypes
  <2> QED
    BY <2>1, SlotSameHolders
<1>4. ASSUME NEW p \in Loaders, FinishLoad(p) PROVE Construction!LockNext
  BY <1>4, SlotReleased DEF FinishLoad, At, Leased, SlotEnd
<1>5. ASSUME NEW p \in Loaders, DieLoading(p) PROVE Construction!LockNext
  <2>1. CASE slotPc[p] \in Leased
    BY <1>5, <2>1, SlotReleased DEF DieLoading, SlotEnd
  <2>2. CASE slotPc[p] \notin Leased
    <3>1. slotPc'[p] \notin Leased
      BY <1>5 DEF DieLoading, Drop, Leased, ConstructionInv, SlotTypes
    <3> QED
      BY <1>5, <2>2, <3>1, SlotNotHolding, SlotSameHolders
  <2> QED
    BY <2>1, <2>2
<1>6. ASSUME (\E p \in Loaders : SlotExpires(p)) \/ RebindDirectory \/ RebindSlot \/ UNCHANGED slotVars
      PROVE  Construction!LockNext
  <2>1. SlotHolding' = SlotHolding
    BY <1>6 DEF SlotExpires, RebindDirectory, RebindSlot, slotVars, SlotHolding
  <2> QED
    BY <2>1, SlotSameHolders
<1> QED
  BY <1>1, <1>2, <1>3, <1>4, <1>5, <1>6 DEF ConstructionNext

(* The construction slots are a two-slot lock: for any processes and       *)
(* troubles, a lease of acquire_with_wait is on the file that its slot     *)
(* name denotes when it is given, and each slot of a directory has one     *)
(* such holder.                                                            *)
THEOREM ConstructionRefines == ConstructionSpec => ConstructionImplements
<1>1. ConstructionInit => ConstructionInv
  <2> SUFFICES ASSUME ConstructionInit PROVE ConstructionInv
    OBVIOUS
  <2>1. SlotTypes
    BY ConstructionAssumption DEF ConstructionInit, SlotTypes, NoSlots, SlotEnd, AllDirs
  <2>2. SlotSteps
    BY NoFileElsewhere
       DEF ConstructionInit, SlotSteps, WithSlot, WithFd0, WithFd1, WithPin, Leased
  <2>3. FlocksDiffer
    BY DEF ConstructionInit, FlocksDiffer
  <2> QED
    BY <2>1, <2>2, <2>3 DEF ConstructionInv
<1>2. ConstructionInv /\ [ConstructionNext]_slotVars => ConstructionInv'
  BY ConstructionNextKeepsInv
<1>3. ConstructionInit => Construction!LockInit
  BY DEF ConstructionInit, Construction!LockInit, SlotHolding, SlotsCurrent, Leased
<1>4. ConstructionInv /\ ConstructionInv' /\ [ConstructionNext]_slotVars
        => [Construction!LockNext]_(Construction!lockVars)
  BY ConstructionStepImplements
<1> QED
  BY <1>1, <1>2, <1>3, <1>4, PTL DEF ConstructionSpec, ConstructionImplements, Construction!LockSpec

-----------------------------------------------------------------------------
(* The name of the service's socket. *)

(* The steps of a service other than serving and dying keep the types and  *)
(* leave the lock with whoever is inside bind_locked or                    *)
(* cleanup_owned_socket.                                                   *)
LEMMA StepKeepsTypes ==
    ASSUME SocketTypeOK, NEW s \in Services, Step(s)
    PROVE  SocketTypeOK'
<1> USE SocketAssumption DEF SocketTypeOK, Locked, Ended, Goto, Return, bounds
<1>1. CASE LockParent(s)
    BY <1>1 DEF LockParent
<1>2. CASE StatExisting(s)
    BY <1>2 DEF StatExisting
<1>3. CASE Probe(s)
    BY <1>3 DEF Probe
<1>4. CASE RemoveStale(s)
    BY <1>4 DEF RemoveStale
<1>5. CASE Bind(s)
    <2>1. CASE entry = None
        <3>1. PICK i \in FreeInodes : /\ entry' = [ino |-> i, by |-> s]
                                      /\ own' = [own EXCEPT ![s] = i]
                                      /\ used' = used \cup {i}
            BY <1>5, <2>1 DEF Bind
        <3>2. i \in Inodes
            BY DEF FreeInodes
        <3> QED
            BY <1>5, <2>1, <3>1, <3>2 DEF Bind
    <2>2. CASE entry # None
        BY <1>5, <2>2 DEF Bind
    <2> QED
        BY <2>1, <2>2
<1>6. CASE Listen(s)
    BY <1>6 DEF Listen
<1>7. CASE RecordIdentity(s)
    BY <1>7 DEF RecordIdentity
<1>8. CASE Cleanup(s)
    BY <1>8 DEF Cleanup
<1> QED
    BY <1>1, <1>2, <1>3, <1>4, <1>5, <1>6, <1>7, <1>8 DEF Step

(* The same for every step. *)
LEMMA NextKeepsTypes ==
    ASSUME SocketTypeOK, [Next]_vars
    PROVE  SocketTypeOK'
<1> USE SocketAssumption DEF SocketTypeOK, Locked, Ended
<1>1. ASSUME NEW s \in Services, Step(s) PROVE SocketTypeOK'
    BY <1>1, StepKeepsTypes
<1>2. ASSUME NEW s \in Services, StopServing(s) PROVE SocketTypeOK'
    BY <1>2 DEF StopServing, Goto, bounds
<1>3. ASSUME NEW s \in Services, Kill(s) PROVE SocketTypeOK'
    BY <1>3 DEF Kill, Goto
<1>4. CASE RemoveSocket
    BY <1>4 DEF RemoveSocket
<1>5. CASE UNCHANGED vars
    BY <1>5 DEF vars
<1> QED
    BY <1>1, <1>2, <1>3, <1>4, <1>5 DEF Next, Finished

(* Types hold, and at most one service at a time is inside the section the *)
(* lock on the parent directory protects.                                  *)
THEOREM TypeCorrect == Spec => []SocketTypeOK
<1>1. Init => SocketTypeOK
    BY SocketAssumption DEF Init, SocketTypeOK, Locked
<1>2. SocketTypeOK /\ [Next]_vars => SocketTypeOK'
    BY NextKeepsTypes
<1> QED
    BY <1>1, <1>2, PTL DEF Spec

-----------------------------------------------------------------------------
(* What a service knows of the name.  Numbers in use have been used; an    *)
(* entry with the number a service recorded at its own bind is its own;    *)
(* and what a start found stale is not, or no longer, the name of a live   *)
(* service.                                                                *)
NameInv ==
    /\ entry # None => entry.ino \in used
    /\ \A s \in Services : own[s] # None => own[s] \in used
    /\ \A s \in Services :
          (pc[s] \in Bound \cup {"stopped", "cleanup"} /\ entry # None /\ entry.ino = own[s])
            => entry.by = s
    /\ \A s \in Services :
          (pc[s] = "recheck" /\ entry # None) => pc[entry.by] \notin Bound

(* A service's steps keep NameInv when inode numbers are not used again. *)
LEMMA StepKeepsName ==
    ASSUME Reuse = FALSE, SocketTypeOK, NameInv, NEW s \in Services, Step(s)
    PROVE  NameInv'
<1> USE SocketAssumption DEF SocketTypeOK, NameInv, Locked, Bound, Goto, Return, bounds
<1>1. CASE LockParent(s)
    BY <1>1 DEF LockParent
<1>2. CASE StatExisting(s)
    BY <1>2 DEF StatExisting
<1>3. CASE Probe(s)
    BY <1>3 DEF Probe, Listening
<1>4. CASE RemoveStale(s)
    BY <1>4 DEF RemoveStale
<1>5. CASE Bind(s)
    BY <1>5 DEF Bind, FreeInodes
<1>6. CASE Listen(s)
    BY <1>6 DEF Listen
<1>7. CASE RecordIdentity(s)
    BY <1>7 DEF RecordIdentity
<1>8. CASE Cleanup(s)
    BY <1>8 DEF Cleanup
<1> QED
    BY <1>1, <1>2, <1>3, <1>4, <1>5, <1>6, <1>7, <1>8 DEF Step

(* The same for every step. *)
LEMMA NextKeepsName ==
    ASSUME Reuse = FALSE, SocketTypeOK, NameInv, [Next]_vars
    PROVE  NameInv'
<1> USE SocketAssumption DEF SocketTypeOK, NameInv, Locked, Ended, Bound
<1>1. ASSUME NEW s \in Services, Step(s) PROVE NameInv'
    BY <1>1, StepKeepsName
<1>2. ASSUME NEW s \in Services, StopServing(s) PROVE NameInv'
    BY <1>2 DEF StopServing, Goto, bounds
<1>3. ASSUME NEW s \in Services, Kill(s) PROVE NameInv'
    BY <1>3 DEF Kill, Goto
<1>4. CASE RemoveSocket
    BY <1>4 DEF RemoveSocket
<1>5. CASE UNCHANGED vars
    BY <1>5 DEF vars
<1> QED
    BY <1>1, <1>2, <1>3, <1>4, <1>5 DEF Next, Finished

(* Under the invariant a step takes no name from a live service. *)
LEMMA StepKeepsLiveName ==
    ASSUME SocketTypeOK, NameInv, [Next]_vars,
           entry # None, pc[entry.by] \in Bound, entry' # entry
    PROVE  removals' = removals + 1
<1> USE SocketAssumption DEF SocketTypeOK, NameInv, Bound
<1>1. ASSUME NEW s \in Services, Step(s) PROVE FALSE
    BY <1>1 DEF Step, LockParent, StatExisting, Probe, RemoveStale, Bind, Listen,
                RecordIdentity, Cleanup, Goto, Return
<1>2. ASSUME NEW s \in Services, StopServing(s) \/ Kill(s) PROVE FALSE
    BY <1>2 DEF StopServing, Kill
<1>3. CASE RemoveSocket
    BY <1>3 DEF RemoveSocket
<1>4. CASE UNCHANGED vars
    BY <1>4 DEF vars
<1> QED
    BY <1>1, <1>2, <1>3, <1>4 DEF Next, Finished

(* No start and no cleanup takes the name from a service that is starting  *)
(* or serving, on a file system that does not use inode numbers again.     *)
THEOREM LiveNamesKept ==
    ASSUME Reuse = FALSE
    PROVE  Spec => LiveNameKept
<1>1. Init => NameInv
    BY SocketAssumption DEF Init, NameInv, Bound
<1>2. SocketTypeOK /\ NameInv /\ [Next]_vars => NameInv'
    BY NextKeepsName
<1>3. SocketTypeOK /\ NameInv /\ [Next]_vars
        => [(entry # None /\ pc[entry.by] \in Bound /\ entry' # entry)
                => removals' = removals + 1]_vars
    BY StepKeepsLiveName
<1> QED
    BY <1>1, <1>2, <1>3, TypeCorrect, PTL DEF Spec, LiveNameKept

=============================================================================
