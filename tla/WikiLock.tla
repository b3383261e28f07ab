-------------------------------- MODULE WikiLock --------------------------------
(***************************************************************************)
(* The wiki lock: how a reader or a writer acquires .write.lock, and what  *)
(* it gets when the lock file or the corpus directory is replaced while it *)
(* tries.                                                                  *)
(*                                                                         *)
(* Source: yams-wiki/src/lock.rs.  Every system call whose answer another  *)
(* process can change before the next one is a step of its own; the calls  *)
(* of one revalidation of a directory are one step.  Other processes of    *)
(* the same user may rename, unlink, restore or replace the lock file and  *)
(* rebind the corpus path at any moment, MaxWikiTroubles times.  Files are *)
(* numbered in the order of their creation.                                *)
(***************************************************************************)
EXTENDS Naturals, FiniteSets

CONSTANTS
    LockProcs,       \* processes, each acquiring once
    LockModes,       \* the modes they may ask for, as functions of LockProcs
    Corpora,         \* directories the corpus path may name
    Nothing,
    MaxWikiFiles,    \* bound on lock files ever created
    MaxWikiTroubles  \* bound on what other processes and the system do

ASSUME WikiLockAssumption ==
    /\ IsFiniteSet(LockProcs) /\ IsFiniteSet(Corpora) /\ Corpora # {}
    /\ LockModes \subseteq [LockProcs -> {"shared", "exclusive"}]
    /\ Nothing \notin LockProcs \cup Corpora \cup Nat
    /\ Nothing \notin [mode : {"shared", "exclusive"}, place : Corpora]
    /\ MaxWikiFiles \in Nat /\ MaxWikiTroubles \in Nat

VARIABLES
    corpus,      \* the directory the corpus path names
    lockName,    \* the file .write.lock denotes in each directory
    unlinked,    \* lock files that no name denotes any more and none will
    lockFiles,   \* how many lock files have been created
    takes,       \* what the user may write: "all", "pages" or "none"
    lockMode,    \* the LockMode each process asks for
    lockPc,      \* the step of each process, at the end its outcome
    lockDir,     \* PinnedTarget.corpus_fd
    lockFd,      \* PinnedTarget.lock_fd
    flocked,     \* the file on which each process has the advisory lock
    lockLate,    \* has the deadline of each process passed?
    wikiTroubles

wikiNames == <<corpus, lockName, unlinked, lockFiles, takes>>
wikiVars == <<wikiNames, lockMode, lockPc, lockDir, lockFd, flocked, lockLate, wikiTroubles>>

WikiFiles == 1 .. MaxWikiFiles
Acquiring == {"open", "corpus", "create", "existing", "refused", "verify", "try",
              "check", "confirm", "wait", "reopen"}
LockOutcome == {"busy", "unsafe", "unisolated", "released", "dead"}

WikiLockInit ==
    /\ corpus = CHOOSE d \in Corpora : TRUE
    /\ lockName = [d \in Corpora |-> Nothing]
    /\ unlinked = {} /\ lockFiles = 0
    /\ takes \in {"all", "pages", "none"}
    /\ lockMode \in LockModes
    /\ lockPc = [p \in LockProcs |-> "idle"]
    /\ lockDir = [p \in LockProcs |-> Nothing]
    /\ lockFd = [p \in LockProcs |-> Nothing]
    /\ flocked = [p \in LockProcs |-> Nothing]
    /\ lockLate = [p \in LockProcs |-> FALSE]
    /\ wikiTroubles = 0

-----------------------------------------------------------------------------
(* The bindings that a process checks.                                     *)

(* revalidate_corpus: the path still leads to the pinned directory. *)
CorpusCurrent(p) == corpus = lockDir[p]

(* validate_lock_descriptor: an unlinked file has no hard link. *)
DescriptorSafe(p) == lockFd[p] \notin unlinked

(* verify_named_lock: the name denotes the file of the descriptor. *)
NameCurrent(p) == lockName[lockDir[p]] = lockFd[p]

(* flock(2): shared locks of one file go together, others do not. *)
FlockFree(p, f) ==
    \A q \in LockProcs \ {p} :
        flocked[q] = f => lockMode[q] = "shared" /\ lockMode[p] = "shared"

(* A process that gives up, or starts over, closes its descriptors, and    *)
(* the kernel drops the advisory lock with them.                           *)
Close(p, step) ==
    /\ lockPc' = [lockPc EXCEPT ![p] = step]
    /\ lockDir' = [lockDir EXCEPT ![p] = Nothing]
    /\ lockFd' = [lockFd EXCEPT ![p] = Nothing]
    /\ flocked' = [flocked EXCEPT ![p] = Nothing]

LockGoto(p, step) ==
    /\ lockPc' = [lockPc EXCEPT ![p] = step]
    /\ UNCHANGED <<lockDir, flocked>>

LockStep(p, step) == lockPc[p] = step /\ UNCHANGED <<lockLate, wikiTroubles>>

-----------------------------------------------------------------------------
(* acquire_with_runtime.                                                   *)

BeginLock(p) ==
    /\ LockStep(p, "idle") /\ LockGoto(p, "open")
    /\ UNCHANGED <<lockFd, wikiNames>>

(* The first half of open_target: canonicalize, open and inspect. *)
OpenCorpus(p) ==
    /\ LockStep(p, "open")
    /\ \/ corpus = Nothing /\ Close(p, "unsafe")
       \/ /\ corpus # Nothing
          /\ lockDir' = [lockDir EXCEPT ![p] = corpus]
          /\ lockPc' = [lockPc EXCEPT ![p] = "corpus"]
          /\ UNCHANGED <<lockFd, flocked>>
    /\ UNCHANGED wikiNames

CheckCorpus(p) ==
    /\ LockStep(p, "corpus")
    /\ IF CorpusCurrent(p) THEN LockGoto(p, "create") /\ UNCHANGED lockFd
                           ELSE Close(p, "reopen")
    /\ UNCHANGED wikiNames

(* open_lock_file: first an exclusive creation. *)
CreateLock(p) ==
    /\ LockStep(p, "create")
    /\ LET d == lockDir[p] IN
       \/ /\ lockName[d] = Nothing /\ takes = "all" /\ lockFiles < MaxWikiFiles
          /\ lockFiles' = lockFiles + 1
          /\ lockName' = [lockName EXCEPT ![d] = lockFiles']
          /\ lockFd' = [lockFd EXCEPT ![p] = lockFiles']
          /\ LockGoto(p, "verify")
          /\ UNCHANGED <<corpus, unlinked, takes>>
       \/ /\ lockName[d] = Nothing /\ takes # "all"
          /\ LockGoto(p, "refused") /\ UNCHANGED <<lockFd, wikiNames>>
       \/ /\ lockName[d] # Nothing
          /\ LockGoto(p, "existing") /\ UNCHANGED <<lockFd, wikiNames>>

(* Then, the name being taken, the file it denotes now. *)
OpenExisting(p) ==
    /\ LockStep(p, "existing")
    /\ LET f == lockName[lockDir[p]] IN
       \/ f = Nothing /\ Close(p, "reopen")
       \/ /\ f # Nothing
          /\ lockFd' = [lockFd EXCEPT ![p] = f]
          /\ LockGoto(p, "verify")
    /\ UNCHANGED wikiNames

(* classify_lock_open_error and corpus_takes_no_writes: a corpus that has  *)
(* no lock file and whose pages nobody may write needs none.               *)
ClassifyRefusal(p) ==
    /\ LockStep(p, "refused")
    /\ LET noWrites == lockName[lockDir[p]] = Nothing /\ takes = "none" IN
       \/ ~noWrites /\ Close(p, "unsafe")
       \/ noWrites /\ CorpusCurrent(p) /\ Close(p, "unisolated")
       \/ noWrites /\ ~CorpusCurrent(p) /\ Close(p, "reopen")
    /\ UNCHANGED wikiNames

(* The second half of open_target: the descriptor and the name. *)
VerifyLock(p) ==
    /\ LockStep(p, "verify")
    /\ \/ ~DescriptorSafe(p) /\ Close(p, "unsafe")
       \/ DescriptorSafe(p) /\ ~NameCurrent(p) /\ Close(p, "reopen")
       \/ DescriptorSafe(p) /\ NameCurrent(p) /\ LockGoto(p, "try") /\ UNCHANGED lockFd
    /\ UNCHANGED wikiNames

(* The nonblocking flock. *)
TryFlock(p) ==
    /\ LockStep(p, "try")
    /\ lockPc' = [lockPc EXCEPT ![p] = IF FlockFree(p, lockFd[p]) 
                              THEN "check" ELSE "wait"]
    /\ flocked' = IF FlockFree(p, lockFd[p])
                  THEN [flocked EXCEPT ![p] = lockFd[p]] ELSE flocked
    /\ UNCHANGED <<lockDir, lockFd, wikiNames>>

(* What a process does once it has the flock: the deadline, and the first  *)
(* half of revalidate_target.                                              *)
CheckAfterFlock(p) ==
    /\ LockStep(p, "check")
    /\ \/ lockLate[p] /\ Close(p, "busy")
       \/ ~lockLate[p] /\ ~CorpusCurrent(p) /\ Close(p, "reopen")
       \/ ~lockLate[p] /\ CorpusCurrent(p) /\ LockGoto(p, "confirm") /\ UNCHANGED lockFd
    /\ UNCHANGED wikiNames

(* A bug: the lock is trusted because flock granted it. *)
ConfirmUnread(p) ==
    /\ LockStep(p, "confirm")
    /\ IF lockLate[p] THEN Close(p, "busy") ELSE LockGoto(p, "held") /\ UNCHANGED lockFd
    /\ UNCHANGED wikiNames

(* The second half: the descriptor, the name, and the deadline again. *)
Confirm(p) ==
    /\ LockStep(p, "confirm")
    /\ \/ ~DescriptorSafe(p) /\ Close(p, "unsafe")
       \/ DescriptorSafe(p) /\ ~NameCurrent(p) /\ Close(p, "reopen")
       \/ DescriptorSafe(p) /\ NameCurrent(p) /\ lockLate[p] /\ Close(p, "busy")
       \/ /\ DescriptorSafe(p) /\ NameCurrent(p) /\ ~lockLate[p]
          /\ LockGoto(p, "held") /\ UNCHANGED lockFd
    /\ UNCHANGED wikiNames

(* A bug: only a rebound name makes the waiter look at its deadline. *)
WaitForFlockForever(p) ==
    /\ LockStep(p, "wait")
    /\ IF CorpusCurrent(p) /\ DescriptorSafe(p) /\ NameCurrent(p)
       THEN LockGoto(p, "try") /\ UNCHANGED lockFd
       ELSE Close(p, IF lockLate[p] THEN "busy" ELSE "open")
    /\ UNCHANGED wikiNames

(* The lock is held by somebody else: wait_to_retry, then revalidate_target *)
(* decides between the same descriptor and a new one.                      *)
WaitForFlock(p) ==
    /\ LockStep(p, "wait")
    /\ \/ lockLate[p] /\ Close(p, "busy")
       \/ /\ ~lockLate[p] /\ CorpusCurrent(p) /\ ~DescriptorSafe(p)
          /\ Close(p, "unsafe")
       \/ /\ ~lockLate[p]
          /\ \/ ~CorpusCurrent(p)
             \/ DescriptorSafe(p) /\ ~NameCurrent(p)
          /\ Close(p, "open")
       \/ /\ ~lockLate[p] /\ CorpusCurrent(p) /\ DescriptorSafe(p) /\ NameCurrent(p)
          /\ LockGoto(p, "try") /\ UNCHANGED lockFd
    /\ UNCHANGED wikiNames

(* A binding has changed: wait_to_retry, then open_target again. *)
Reopen(p) ==
    /\ LockStep(p, "reopen")
    /\ Close(p, IF lockLate[p] THEN "busy" ELSE "open")
    /\ UNCHANGED wikiNames

(* Drop of the LockGuard.  The lock file stays. *)
ReleaseLock(p) ==
    /\ LockStep(p, "held") /\ Close(p, "released")
    /\ UNCHANGED wikiNames

AcquireStep(p) ==
    \/ OpenCorpus(p) \/ CheckCorpus(p) \/ CreateLock(p) \/ OpenExisting(p)
    \/ ClassifyRefusal(p) \/ VerifyLock(p) \/ TryFlock(p) \/ CheckAfterFlock(p)
    \/ Confirm(p) \/ WaitForFlock(p) \/ Reopen(p)

(* The deadline passes.  Only these steps look at the time, so it may as   *)
(* well pass there.                                                        *)
LockExpires(p) ==
    /\ lockPc[p] \in {"try", "check", "confirm", "wait", "reopen"} /\ ~lockLate[p]
    /\ lockLate' = [lockLate EXCEPT ![p] = TRUE]
    /\ UNCHANGED <<wikiNames, lockPc, lockDir, lockFd, flocked, wikiTroubles>>

-----------------------------------------------------------------------------
(* The rest of the system.                                                 *)

Trouble ==
    /\ wikiTroubles < MaxWikiTroubles /\ wikiTroubles' = wikiTroubles + 1
    /\ UNCHANGED lockLate

(* flock fails otherwise: interrupted after the deadline, or for good. *)
FlockFails(p) ==
    /\ lockPc[p] = "try" /\ Trouble
    /\ Close(p, IF lockLate[p] THEN "busy" ELSE "unsafe")
    /\ UNCHANGED wikiNames

DieLocking(p) ==
    /\ lockPc[p] \in Acquiring \cup {"held"} /\ Trouble
    /\ Close(p, "dead")
    /\ UNCHANGED wikiNames

(* Another process renames the lock file away or puts one back, unlinks    *)
(* it, or rebinds the corpus path.                                         *)
RebindLock ==
    /\ Trouble
    /\ \/ \E d \in Corpora, f \in (1 .. lockFiles) \cup {Nothing} :
            /\ f # lockName[d]
            /\ f # Nothing => f \notin unlinked /\ \A e \in Corpora : lockName[e] # f
            /\ lockName' = [lockName EXCEPT ![d] = f]
            /\ UNCHANGED <<corpus, unlinked>>
       \/ \E d \in Corpora :
            /\ lockName[d] # Nothing
            /\ lockName' = [lockName EXCEPT ![d] = Nothing]
            /\ unlinked' = unlinked \cup {lockName[d]}
            /\ UNCHANGED corpus
       \/ /\ corpus' \in (Corpora \cup {Nothing}) \ {corpus}
          /\ UNCHANGED <<lockName, unlinked>>
    /\ UNCHANGED <<lockFiles, takes, lockPc, lockDir, lockFd, flocked>>

WikiLockNext ==
    /\ UNCHANGED lockMode
    /\ \/ \E p \in LockProcs :
            BeginLock(p) \/ AcquireStep(p) \/ ReleaseLock(p) \/ LockExpires(p)
            \/ FlockFails(p) \/ DieLocking(p)
       \/ RebindLock

WikiLockSpec == WikiLockInit /\ [][WikiLockNext]_wikiVars

(* A process that acquires runs on, and time passes.  Nobody is obliged to *)
(* release the lock.                                                       *)
WikiLockFair ==
    \A p \in LockProcs : WF_wikiVars(UNCHANGED lockMode /\ AcquireStep(p))
                       /\ WF_wikiVars(UNCHANGED lockMode /\ LockExpires(p))

-----------------------------------------------------------------------------
WikiHolding ==
    [p \in LockProcs |-> IF lockPc[p] = "held"
                         THEN [mode |-> lockMode[p], place |-> lockDir[p]] ELSE Nothing]

WikiCurrent == {p \in LockProcs : lockPc[p] = "held" /\ NameCurrent(p)}

WikiAllowed(modes) ==
    \A p \in DOMAIN modes : modes[p] = "exclusive" => DOMAIN modes = {p}

Wiki == INSTANCE NamedLock WITH
    Procs <- LockProcs, Places <- Corpora, Modes <- {"shared", "exclusive"},
    NotHeld <- Nothing, Allowed <- WikiAllowed,
    holding <- WikiHolding, current <- WikiCurrent

(* The wiki lock is a readers-writer lock on the file that .write.lock     *)
(* denotes: acquire_with_runtime returns a guard only on that file, and    *)
(* among the holders of that file a writer is alone, however the name is   *)
(* replaced while processes wait, retry and time out.                      *)
WikiLockImplements == Wiki!LockSpec

(* acquire_lock_with_timeout ends within its deadline, even if the holder  *)
(* never releases and the names keep changing: a process acquires once, so *)
(* in the end nobody is acquiring.                                         *)
WikiLockEnds == <>[](\A p \in LockProcs : lockPc[p] \notin Acquiring)
=============================================================================
