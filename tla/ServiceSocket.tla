----------------------------- MODULE ServiceSocket -----------------------------
(***************************************************************************)
(* The name of the service's socket: services that start, serve and stop   *)
(* while others start, one directory entry they compete for, and the lock  *)
(* on its directory under which they change it.                            *)
(*                                                                         *)
(* Sources: yams-service/src/socket.rs (bind_locked and                    *)
(* cleanup_owned_socket with what they call) and main.rs.  The entry is    *)
(* its inode number and, as the kernel knows it, the listener bound to it. *)
(* Ancestors and permissions are taken to be safe: a start that finds them *)
(* otherwise is refused before it touches the entry.  A stat and the       *)
(* unlink that trusts it are one step.                                     *)
(***************************************************************************)
EXTENDS Naturals, FiniteSets

CONSTANTS
    Services,     \* service processes; each starts once
    Inodes,       \* inode numbers of the file system
    None,
    Reuse,        \* does the file system use the number of a deleted file again?
    MaxRemovals,  \* bound on deletions of the socket by others
    MaxKills      \* bound on killed services

ASSUME SocketAssumption ==
    /\ None \notin Services /\ None \notin Inodes
    /\ None \notin [ino : Inodes, by : Services]
    /\ Reuse \in BOOLEAN /\ MaxRemovals \in Nat /\ MaxKills \in Nat

VARIABLES
    entry,     \* the entry at the socket's path: an inode number and whose it is
    lock,      \* the holder of the lock on the parent directory
    pc,        \* the step of each service
    own,       \* the inode number a service has seen or recorded
    used,      \* history: inode numbers used so far
    removals, kills

bounds == <<removals, kills>>
vars == <<entry, lock, pc, own, used, removals, kills>>

(* A service whose socket exists in the kernel, and one that listens. *)
Bound == {"bound", "listening", "serving"}
Listening == {"listening", "serving"}

(* Steps that hold the lock. *)
Locked == {"locked", "probe", "recheck", "bind", "bound", "listening", "cleanup"}
Ended == {"ended", "refused", "dead"}

(* A file exists while a name or an open socket refers to it; with its     *)
(* last reference its number becomes free.                                 *)
FreeInodes ==
    Inodes \ (IF Reuse
              THEN (IF entry = None THEN {} ELSE {entry.ino})
                    \cup {own[s] : s \in {t \in Services : pc[t] \in Bound}}
              ELSE used)

Init ==
    /\ entry = None /\ lock = None
    /\ pc = [s \in Services |-> "start"]
    /\ own = [s \in Services |-> None]
    /\ used = {} /\ removals = 0 /\ kills = 0

Goto(s, p) == pc' = [pc EXCEPT ![s] = p]

(* LockedParent is dropped on every return. *)
Return(s, p) == Goto(s, p) /\ lock' = None

-----------------------------------------------------------------------------
(* A mutant: the lock does not exclude. *)
LockParentShared(s) ==
    /\ pc[s] \in {"start", "stopped"}
    /\ lock' = s
    /\ Goto(s, IF pc[s] = "start" THEN "locked" ELSE "cleanup")
    /\ UNCHANGED <<entry, own, used, bounds>>

(* lock_parent and lock_prepared_default_parent, for a start and for the   *)
(* cleanup; flock waits.                                                   *)
LockParent(s) ==
    /\ pc[s] \in {"start", "stopped"}
    /\ lock = None
    /\ lock' = s
    /\ Goto(s, IF pc[s] = "start" THEN "locked" ELSE "cleanup")
    /\ UNCHANGED <<entry, own, used, bounds>>

(* prepare_existing: what is there? *)
StatExisting(s) ==
    /\ pc[s] = "locked"
    /\ IF entry = None
       THEN Goto(s, "bind") /\ UNCHANGED own
       ELSE Goto(s, "probe") /\ own' = [own EXCEPT ![s] = entry.ino]
    /\ UNCHANGED <<entry, lock, used, bounds>>

(* A mutant: wait for the live service instead of refusing. *)
ProbeUntilGone(s) ==
    /\ pc[s] = "probe"
    /\ ~(entry # None /\ pc[entry.by] \in Listening)
    /\ Goto(s, "recheck")
    /\ UNCHANGED <<entry, lock, own, used, bounds>>

(* A connection tells a live socket from a stale one. *)
Probe(s) ==
    /\ pc[s] = "probe"
    /\ IF entry # None /\ pc[entry.by] \in Listening
       THEN Return(s, "refused")
       ELSE Goto(s, "recheck") /\ UNCHANGED lock
    /\ UNCHANGED <<entry, own, used, bounds>>

(* The stale socket is removed if it is still the one that was seen. *)
RemoveStale(s) ==
    /\ pc[s] = "recheck"
    /\ IF entry = None \/ entry.ino = own[s]
       THEN entry' = None /\ Goto(s, "bind") /\ UNCHANGED lock
       ELSE Return(s, "refused") /\ UNCHANGED entry
    /\ UNCHANGED <<own, used, bounds>>

(* UnixListener::bind is bind(2), which makes the entry, and listen(2).    *)
Bind(s) ==
    /\ pc[s] = "bind"
    /\ IF entry = None
       THEN /\ \E i \in FreeInodes :
                    /\ entry' = [ino |-> i, by |-> s]
                    /\ own' = [own EXCEPT ![s] = i]
                    /\ used' = used \cup {i}
            /\ Goto(s, "bound") /\ UNCHANGED lock
       ELSE Return(s, "refused") /\ UNCHANGED <<entry, own, used>>
    /\ UNCHANGED bounds

Listen(s) ==
    /\ pc[s] = "bound"
    /\ Goto(s, "listening")
    /\ UNCHANGED <<entry, lock, own, used, bounds>>

(* stat, chmod and stat again: the identity is recorded, or the entry is   *)
(* gone and the start fails.                                               *)
RecordIdentity(s) ==
    /\ pc[s] = "listening"
    /\ Return(s, IF entry = None THEN "refused" ELSE "serving")
    /\ UNCHANGED <<entry, own, used, bounds>>

(* serve_until returns and drops the listener. *)
StopServing(s) ==
    /\ pc[s] = "serving"
    /\ Goto(s, "stopped")
    /\ UNCHANGED <<entry, lock, own, used, bounds>>

(* A mutant: remove what is there. *)
CleanupAny(s) ==
    /\ pc[s] = "cleanup"
    /\ entry' = None
    /\ Return(s, "ended")
    /\ UNCHANGED <<own, used, bounds>>

(* cleanup_owned_socket and remove_if_identity. *)
Cleanup(s) ==
    /\ pc[s] = "cleanup"
    /\ entry' = IF entry # None /\ entry.ino = own[s] THEN None ELSE entry
    /\ Return(s, "ended")
    /\ UNCHANGED <<own, used, bounds>>

(* The kernel closes a dead process's socket and lock; its entry stays. *)
Kill(s) ==
    /\ pc[s] \notin Ended \cup {"start"} /\ kills < MaxKills
    /\ kills' = kills + 1
    /\ Goto(s, "dead")
    /\ lock' = IF lock = s THEN None ELSE lock
    /\ UNCHANGED <<entry, own, used, removals>>

(* The user or a cleaner of temporary files deletes the socket. *)
RemoveSocket ==
    /\ entry # None /\ removals < MaxRemovals
    /\ removals' = removals + 1
    /\ entry' = None
    /\ UNCHANGED <<lock, pc, own, used, kills>>

Step(s) ==
    \/ LockParent(s) \/ StatExisting(s) \/ Probe(s) \/ RemoveStale(s) \/ Bind(s)
    \/ Listen(s) \/ RecordIdentity(s) \/ Cleanup(s)

Finished == (\A s \in Services : pc[s] \in Ended) /\ UNCHANGED vars

Next ==
    \/ \E s \in Services : Step(s) \/ StopServing(s) \/ Kill(s)
    \/ RemoveSocket
    \/ Finished

Spec == Init /\ [][Next]_vars

(* A process that has begun to start or to clean up is scheduled; whether  *)
(* and how long it serves is its users' affair.                            *)
FairSpec == Spec /\ \A s \in Services : WF_vars(Step(s))

-----------------------------------------------------------------------------
(* Properties.                                                             *)

(* The state has its shape, and the lock's holder is inside the section it *)
(* protects: the steps of bind_locked and cleanup_owned_socket exclude     *)
(* each other.                                                             *)
SocketTypeOK ==
    /\ entry \in [ino : Inodes, by : Services] \cup {None}
    /\ pc \in [Services -> {"start", "stopped", "serving"} \cup Locked \cup Ended]
    /\ own \in [Services -> Inodes \cup {None}]
    /\ lock \in Services \cup {None} /\ used \subseteq Inodes
    /\ removals \in 0 .. MaxRemovals /\ kills \in 0 .. MaxKills
    /\ \A s \in Services : pc[s] \in Locked <=> lock = s

(* No start and no cleanup takes the name from a service that is starting  *)
(* or serving: its entry goes only by its own cleanup, when it no longer   *)
(* serves, or by another's hand (prepare_existing and                      *)
(* cleanup_owned_socket against a concurrent bind_locked).                 *)
LiveNameKept ==
    [][(entry # None /\ pc[entry.by] \in Bound /\ entry' # entry)
        => removals' = removals + 1]_vars

(* A start ends in serving or in a refusal, and a stopped service ends:    *)
(* nobody waits for ever for the lock (LockedParent::drop).  A service     *)
(* starts once and stops once, so in the end each is serving or ended.     *)
NobodyWaitsForever == <>[](\A s \in Services : pc[s] \in {"serving"} \cup Ended)

=============================================================================
