------------------------------- MODULE NamedLock -------------------------------
(***************************************************************************)
(* What a lock kept in a named file promises its users, whatever happens   *)
(* to the name.  The wiki lock (WikiLock) and the model-construction slots *)
(* (ConstructionLock) both implement it.                                   *)
(*                                                                         *)
(* A lock belongs to a place, the directory that holds the file.  A        *)
(* process that is granted the lock holds, at that moment, the file that   *)
(* the name denotes; later the name may be bound to another file, and the  *)
(* holders of the old one are no longer current.  Exclusion is promised    *)
(* among the current holders of a place.                                   *)
(***************************************************************************)
CONSTANTS
    Procs, Places, Modes,
    NotHeld,
    Allowed(_)   \* may the processes of a function to Modes hold together?

VARIABLES
    holding,     \* what each process holds: [mode, place] or NotHeld
    current      \* the holders of a file that its name still denotes

lockVars == <<holding, current>>

Holders == {p \in Procs : holding[p] # NotHeld}

(* The modes in which the processes of S hold the lock of a place. *)
ModesAt(S, h, place) ==
    [p \in {q \in S : h[q].place = place} |-> h[p].mode]

Exclusive(S, h) == \A place \in Places : Allowed(ModesAt(S, h, place))

LockInit == holding = [p \in Procs |-> NotHeld] /\ current = {}

Grant(p, mode, place) ==
    /\ holding[p] = NotHeld
    /\ holding' = [holding EXCEPT ![p] = [mode |-> mode, place |-> place]]
    /\ current' = current \cup {p}
    /\ Exclusive(current', holding')

Release(p) ==
    /\ holding[p] # NotHeld
    /\ holding' = [holding EXCEPT ![p] = NotHeld]
    /\ current' = current \ {p}

(* Somebody binds a name to another file, or back to an earlier one. *)
Rebind ==
    /\ current' \in SUBSET Holders
    /\ Exclusive(current', holding)
    /\ UNCHANGED holding

LockNext ==
    \/ \E p \in Procs, mode \in Modes, place \in Places : Grant(p, mode, place)
    \/ \E p \in Procs : Release(p)
    \/ Rebind

LockSpec == LockInit /\ [][LockNext]_lockVars
=============================================================================
