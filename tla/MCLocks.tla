-------------------------------- MODULE MCLocks --------------------------------
(* Three protocols by which processes exclude each other: the wiki lock,   *)
(* the model construction lock and the name of the service's socket.  They *)
(* share nothing, so each is checked by itself: the value of which picks   *)
(* the one whose processes move.                                           *)
EXTENDS WikiLock, ConstructionLock, MCServiceSocket, TLC

CONSTANTS p1, p2, d1, d2

VARIABLE which

(* A writer against a reader or another writer. *)
WriterAndAny == {m \in [LockProcs -> {"shared", "exclusive"}] : m[p1] = "exclusive"}

(* The services have all ended. *)
SocketAtRest ==
    /\ entry = None /\ lock = None
    /\ pc = [s \in Services |-> "ended"] /\ own = [s \in Services |-> None]
    /\ used = {} /\ removals = 0 /\ kills = 0

LocksInit ==
    /\ which \in {"wiki", "construction", "socket"}
    /\ WikiLockInit /\ ConstructionInit
    /\ IF which = "socket" THEN Init ELSE SocketAtRest
    /\ which # "wiki" =>
        takes = "all" /\ lockMode = [p \in LockProcs |-> "exclusive"]

LocksNext ==
    /\ UNCHANGED which
    /\ \/ which = "wiki" /\ WikiLockNext /\ UNCHANGED <<slotVars, vars>>
       \/ which = "construction" /\ ConstructionNext /\ UNCHANGED <<wikiVars, vars>>
       \/ which = "socket" /\ Next /\ UNCHANGED <<wikiVars, slotVars>>

(* WikiLockFair, ConstructionFair and the fairness of FairSpec, each for   *)
(* the protocol that moves.                                                *)
LocksFair ==
    /\ \A p \in LockProcs :
        /\ WF_wikiVars(which = "wiki" /\ UNCHANGED lockMode /\ AcquireStep(p))
        /\ WF_wikiVars(which = "wiki" /\ UNCHANGED lockMode /\ LockExpires(p))
    /\ \A p \in Loaders :
        /\ WF_slotVars(which = "construction" /\ AcquireSlot(p))
        /\ SF_slotVars(which = "construction" /\ SlotExpires(p))
    /\ \A s \in Services : WF_vars(which = "socket" /\ Step(s))

LocksSpec == LocksInit /\ [][LocksNext]_<<which, wikiVars, slotVars, vars>> /\ LocksFair
=============================================================================
