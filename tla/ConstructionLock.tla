---------------------------- MODULE ConstructionLock ----------------------------
(***************************************************************************)
(* The two model-construction slots: how a process that wants to load the  *)
(* embedding model provisions the lock directory, polls the two slot       *)
(* files, and holds one of them while it builds.                           *)
(*                                                                         *)
(* Sources: yams-embed/src/construction_lock.rs, and                       *)
(* with_construction_lease of jina.rs.  The lock directory is the last of  *)
(* MissingLevels directories that provisioning may have to create.  Other  *)
(* processes may move the directory or a slot file away, unlink a slot     *)
(* file, or put another one in place, MaxSlotTroubles times.               *)
(***************************************************************************)
EXTENDS Naturals, FiniteSets

CONSTANTS
    Loaders,        \* processes, each loading once
    NoFile,
    MissingLevels,  \* directories of the lock path absent at the start
    MaxSlotDirs, MaxSlotFiles,  \* bounds on those ever created
    MaxSlotTroubles \* bound on what other processes and the system do

ASSUME ConstructionAssumption ==
    /\ IsFiniteSet(Loaders)
    /\ NoFile \notin Nat /\ MissingLevels \in Nat \ {0}
    /\ NoFile \notin [mode : {0, 1}, place : 1 .. MaxSlotDirs]
    /\ MaxSlotDirs \in Nat /\ MaxSlotFiles \in Nat /\ MaxSlotTroubles \in Nat

VARIABLES
    levels,      \* how many directories of the lock path exist
    slotPath,    \* the directory the lock path names, once all exist
    slotName,    \* the file each slot name denotes in each directory
    slotGone,    \* slot files that have been unlinked
    slotDirs, slotFiles,   \* how many of each have been created
    slotPc,      \* the step of each process, at the end its outcome
    slotLevel,   \* the directory provisioning has descended to
    slotDir,     \* PinnedDirectory.fd
    slotFds,     \* the files of open_slots
    slotHeld,    \* the slot whose flock a process has
    slotLate,    \* has wait.timeout elapsed?
    slotTroubles

slotNames == <<levels, slotPath, slotName, slotGone, slotDirs, slotFiles>>
slotVars == <<slotNames, slotPc, slotLevel, slotDir, slotFds, slotHeld, slotLate, slotTroubles>>

Slots == {0, 1}
NoSlots == [s \in Slots |-> NoFile]

(* The steps of acquire_with_wait, and those with a slot in hand. *)
Polling == {"start", "make", "pin", "slot 0", "opened 0", "slot 1", "opened 1",
            "try 0", "try 1", "poll", "check", "confirm"}
Leased == {"building", "built"}

ConstructionInit ==
    /\ levels = 0 /\ slotPath = NoFile
    /\ slotName = [d \in 1 .. MaxSlotDirs |-> NoSlots]
    /\ slotGone = {} /\ slotDirs = 0 /\ slotFiles = 0
    /\ slotPc = [p \in Loaders |-> "idle"]
    /\ slotLevel = [p \in Loaders |-> 0]
    /\ slotDir = [p \in Loaders |-> NoFile]
    /\ slotFds = [p \in Loaders |-> NoSlots]
    /\ slotHeld = [p \in Loaders |-> NoFile]
    /\ slotLate = [p \in Loaders |-> FALSE]
    /\ slotTroubles = 0

-----------------------------------------------------------------------------
(* PinnedDirectory::revalidate *)
DirectoryCurrent(p) == slotPath = slotDir[p]

(* validate_lock_stat of the descriptor: exactly one hard link. *)
SlotSafe(p, s) == slotFds[p][s] \notin slotGone

(* verify_named_lock *)
SlotCurrent(p, s) == slotName[slotDir[p]][s] = slotFds[p][s]

(* The nonblocking exclusive flock of a slot file succeeds. *)
SlotFree(p, s) ==
    \A q \in Loaders \ {p} : slotHeld[q] # NoFile => slotFds[q][slotHeld[q]] # slotFds[p][s]

(* An error or the end of a poll drops every descriptor, and with them the *)
(* flock.                                                                  *)
Drop(p, step) ==
    /\ slotPc' = [slotPc EXCEPT ![p] = step]
    /\ slotDir' = [slotDir EXCEPT ![p] = NoFile]
    /\ slotFds' = [slotFds EXCEPT ![p] = NoSlots]
    /\ slotHeld' = [slotHeld EXCEPT ![p] = NoFile]
    /\ UNCHANGED slotLevel

Move(p, step) ==
    /\ slotPc' = [slotPc EXCEPT ![p] = step]
    /\ UNCHANGED <<slotDir, slotFds, slotHeld, slotLevel>>

At(p, step) == slotPc[p] = step /\ UNCHANGED <<slotLate, slotTroubles>>

-----------------------------------------------------------------------------
(* provision_lock_directory: find the deepest existing directory. *)
Provision(p) ==
    /\ At(p, "start")
    /\ slotPc' = [slotPc EXCEPT ![p] = IF levels = MissingLevels THEN "pin" ELSE "make"]
    /\ slotLevel' = [slotLevel EXCEPT ![p] = levels]
    /\ UNCHANGED <<slotDir, slotFds, slotHeld, slotNames>>

(* create_private_directory, one level down: a directory that another      *)
(* process has made meanwhile is as good as one's own.                     *)
MakeDirectory(p) ==
    /\ At(p, "make")
    /\ LET level == slotLevel[p] + 1 IN
       /\ \/ levels >= level /\ UNCHANGED slotNames
          \/ /\ levels = slotLevel[p] /\ level < MissingLevels
             /\ levels' = level
             /\ UNCHANGED <<slotPath, slotName, slotGone, slotDirs, slotFiles>>
          \/ /\ levels = slotLevel[p] /\ level = MissingLevels /\ slotDirs < MaxSlotDirs
             /\ levels' = level /\ slotDirs' = slotDirs + 1 /\ slotPath' = slotDirs'
             /\ UNCHANGED <<slotName, slotGone, slotFiles>>
       /\ slotLevel' = [slotLevel EXCEPT ![p] = level]
       /\ slotPc' = [slotPc EXCEPT ![p] = IF level = MissingLevels THEN "pin" ELSE "make"]
    /\ UNCHANGED <<slotDir, slotFds, slotHeld>>

(* PinnedDirectory::open, at every poll.  It creates nothing. *)
PinDirectory(p) ==
    /\ At(p, "pin")
    /\ \/ slotPath = NoFile /\ Drop(p, "unsafe")
       \/ /\ slotPath # NoFile
          /\ slotDir' = [slotDir EXCEPT ![p] = slotPath]
          /\ slotPc' = [slotPc EXCEPT ![p] = "slot 0"]
          /\ UNCHANGED <<slotFds, slotHeld, slotLevel>>
    /\ UNCHANGED slotNames

(* open_slot: create the slot file, or open the one there is... *)
OpenSlot(p, s) ==
    /\ At(p, IF s = 0 THEN "slot 0" ELSE "slot 1")
    /\ LET d == slotDir[p]
           exists == slotName[d][s] # NoFile
           file == IF exists THEN slotName[d][s] ELSE slotFiles + 1
       IN
       \/ ~DirectoryCurrent(p) /\ Drop(p, "rebound") /\ UNCHANGED slotNames
       \/ /\ DirectoryCurrent(p)
          /\ file <= MaxSlotFiles
          /\ slotName' = [slotName EXCEPT ![d][s] = file]
          /\ slotFiles' = IF exists THEN slotFiles ELSE file
          /\ slotFds' = [slotFds EXCEPT ![p][s] = file]
          /\ slotPc' = [slotPc EXCEPT ![p] = IF s = 0 THEN "opened 0" ELSE "opened 1"]
          /\ UNCHANGED <<slotDir, slotHeld, slotLevel, levels, slotPath, slotGone, slotDirs>>

(* ... and OpenedSlot::revalidate of what was opened. *)
RevalidateOpened(p, s) ==
    /\ At(p, IF s = 0 THEN "opened 0" ELSE "opened 1")
    /\ \/ ~SlotSafe(p, s) /\ Drop(p, "unsafe")
       \/ SlotSafe(p, s) /\ ~SlotCurrent(p, s) /\ Drop(p, "rebound")
       \/ /\ SlotSafe(p, s) /\ SlotCurrent(p, s)
          /\ Move(p, IF s = 0 THEN "slot 1" ELSE "try 0")
    /\ UNCHANGED slotNames

(* One turn of the loop over the two slots. *)
TrySlot(p, s) ==
    /\ At(p, IF s = 0 THEN "try 0" ELSE "try 1")
    /\ \/ /\ SlotFree(p, s)
          /\ slotHeld' = [slotHeld EXCEPT ![p] = s]
          /\ slotPc' = [slotPc EXCEPT ![p] = "check"]
       \/ /\ ~SlotFree(p, s)
          /\ slotPc' = [slotPc EXCEPT ![p] = IF s = 0 THEN "try 1" ELSE "poll"]
          /\ UNCHANGED slotHeld
    /\ UNCHANGED <<slotDir, slotFds, slotLevel, slotNames>>

(* With the flock in hand: the deadline and the directory... *)
CheckSlot(p) ==
    /\ At(p, "check")
    /\ \/ slotLate[p] /\ Drop(p, "busy")
       \/ ~slotLate[p] /\ ~DirectoryCurrent(p) /\ Drop(p, "rebound")
       \/ ~slotLate[p] /\ DirectoryCurrent(p) /\ Move(p, "confirm")
    /\ UNCHANGED slotNames

(* A bug: the slot file is not looked at again once it is locked. *)
ConfirmSlotUnread(p) ==
    /\ At(p, "confirm") /\ Move(p, "building")
    /\ UNCHANGED slotNames

(* ... then OpenedSlot::revalidate. *)
ConfirmSlot(p) ==
    /\ At(p, "confirm")
    /\ LET s == slotHeld[p] IN
       \/ ~SlotSafe(p, s) /\ Drop(p, "unsafe")
       \/ SlotSafe(p, s) /\ ~SlotCurrent(p, s) /\ Drop(p, "rebound")
       \/ SlotSafe(p, s) /\ SlotCurrent(p, s) /\ Move(p, "building")
    /\ UNCHANGED slotNames

(* A bug: the wait is bounded only by the holders. *)
PollForever(p) == At(p, "poll") /\ Drop(p, "pin") /\ UNCHANGED slotNames

(* Both slots are taken: give up after the timeout, or sleep and poll. *)
Poll(p) ==
    /\ At(p, "poll")
    /\ Drop(p, IF slotLate[p] THEN "busy" ELSE "pin")
    /\ UNCHANGED slotNames

AcquireSlot(p) ==
    \/ Provision(p) \/ MakeDirectory(p) \/ PinDirectory(p)
    \/ \E s \in Slots : OpenSlot(p, s) \/ RevalidateOpened(p, s) \/ TrySlot(p, s)
    \/ CheckSlot(p) \/ ConfirmSlot(p) \/ Poll(p)

(* with_construction_lease: build, then revalidate the lease before the    *)
(* result counts, and drop it either way.                                  *)
BeginLoad(p) == At(p, "idle") /\ Move(p, "start") /\ UNCHANGED slotNames
Construct(p) == At(p, "building") /\ Move(p, "built") /\ UNCHANGED slotNames

FinishLoad(p) ==
    /\ At(p, "built")
    /\ LET s == slotHeld[p] IN
       \/ ~DirectoryCurrent(p) /\ Drop(p, "rebound")
       \/ DirectoryCurrent(p) /\ ~SlotSafe(p, s) /\ Drop(p, "unsafe")
       \/ /\ DirectoryCurrent(p) /\ SlotSafe(p, s)
          /\ Drop(p, IF SlotCurrent(p, s) THEN "loaded" ELSE "rebound")
    /\ UNCHANGED slotNames

(* The timeout passes.  Only these steps look at the time, so it may as    *)
(* well pass there.                                                        *)
SlotExpires(p) ==
    /\ slotPc[p] \in {"check", "poll"} /\ ~slotLate[p]
    /\ slotLate' = [slotLate EXCEPT ![p] = TRUE]
    /\ UNCHANGED <<slotNames, slotPc, slotLevel, slotDir, slotFds, slotHeld, slotTroubles>>

-----------------------------------------------------------------------------
SlotTrouble ==
    /\ slotTroubles < MaxSlotTroubles /\ slotTroubles' = slotTroubles + 1
    /\ UNCHANGED slotLate

(* A directory cannot be made, a file not be opened, or flock fails. *)
SlotCallFails(p) ==
    /\ slotPc[p] \in Polling \ {"poll", "check", "confirm"}
    /\ SlotTrouble
    /\ Drop(p, IF slotPc[p] \in {"start", "make"} THEN "unprovisionable" ELSE "unsafe")
    /\ UNCHANGED slotNames

DieLoading(p) ==
    /\ slotPc[p] \in (Polling \cup Leased) \ {"start"} /\ SlotTrouble
    /\ Drop(p, "dead")
    /\ UNCHANGED slotNames

(* The lock directory is moved away, or an earlier one is put back. *)
RebindDirectory ==
    /\ slotDirs > 0 /\ SlotTrouble
    /\ \E d \in (1 .. slotDirs) \cup {NoFile} :
         /\ d # slotPath /\ slotPath' = d
         /\ levels' = IF d = NoFile THEN MissingLevels - 1 ELSE MissingLevels
    /\ UNCHANGED <<slotName, slotGone, slotDirs, slotFiles>>
    /\ UNCHANGED <<slotPc, slotLevel, slotDir, slotFds, slotHeld>>

(* A slot file is moved away, or put back, or unlinked. *)
RebindSlot ==
    /\ SlotTrouble
    /\ \E d \in 1 .. slotDirs, s \in Slots, f \in (1 .. slotFiles) \cup {NoFile} :
         /\ f # slotName[d][s]
         /\ f # NoFile => /\ f \notin slotGone
                          /\ \A e \in 1 .. slotDirs, t \in Slots : slotName[e][t] # f
         /\ slotName' = [slotName EXCEPT ![d][s] = f]
         /\ \/ UNCHANGED slotGone
            \/ f = NoFile /\ slotGone' = slotGone \cup {slotName[d][s]}
    /\ UNCHANGED <<levels, slotPath, slotDirs, slotFiles>>
    /\ UNCHANGED <<slotPc, slotLevel, slotDir, slotFds, slotHeld>>

ConstructionNext ==
    \/ \E p \in Loaders :
        BeginLoad(p) \/ AcquireSlot(p) \/ Construct(p) \/ FinishLoad(p)
        \/ SlotExpires(p) \/ SlotCallFails(p) \/ DieLoading(p)
    \/ RebindDirectory
    \/ RebindSlot

ConstructionSpec == ConstructionInit /\ [][ConstructionNext]_slotVars

(* A process that polls runs on, and time passes: one that keeps coming    *)
(* back to the clock finds the timeout over in the end.  A construction    *)
(* may take for ever, as a download on a bad line does.                    *)
ConstructionFair ==
    \A p \in Loaders : WF_slotVars(AcquireSlot(p)) /\ SF_slotVars(SlotExpires(p))

-----------------------------------------------------------------------------
SlotHolding ==
    [p \in Loaders |-> IF slotPc[p] \in Leased
                       THEN [mode |-> slotHeld[p], place |-> slotDir[p]] ELSE NoFile]

SlotsCurrent == {p \in Loaders : slotPc[p] \in Leased /\ SlotCurrent(p, slotHeld[p])}

(* Each slot has one holder: so no more than two build at a time. *)
SlotsAllowed(modes) == \A p, q \in DOMAIN modes : modes[p] = modes[q] => p = q

Construction == INSTANCE NamedLock WITH
    Procs <- Loaders, Places <- 1 .. MaxSlotDirs, Modes <- Slots,
    NotHeld <- NoFile, Allowed <- SlotsAllowed,
    holding <- SlotHolding, current <- SlotsCurrent

(* The construction slots are a two-slot lock: acquire_with_wait returns a *)
(* lease only on the file that its slot name denotes in the pinned         *)
(* directory, and a slot of a directory has one such holder, so at most    *)
(* two processes build under the slots of a directory, whoever provisions  *)
(* the directory and whatever is moved away while others poll.             *)
ConstructionImplements == Construction!LockSpec

(* acquire_with_wait ends by its timeout even if both slots stay held: a   *)
(* process acquires once, so in the end nobody polls.                      *)
ConstructionEnds == <>[](\A p \in Loaders : slotPc[p] \notin Polling)
=============================================================================
