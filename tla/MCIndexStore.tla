---------------------------- MODULE MCIndexStore ----------------------------
(* Small instances of IndexStore for TLC. *)
EXTENDS IndexStore, TLC

CONSTANTS j1, j2, f1, f2, c1, c2, s1, s2

Full1(j, s) == [op |-> "sync", project |-> j, mode |-> "full", scheme |-> s]
Incr(j, s) == [op |-> "sync", project |-> j, mode |-> "incremental", scheme |-> s]
Search(j, s) == [op |-> "search", project |-> j, scheme |-> s]
Stats(j) == [op |-> "stats", project |-> j]
Gc == [op |-> "gc"]

(* Two projects that share a text: its vector is one row for both. *)
SharedText == [j \in Projects |-> [f \in Paths |-> c1]]
TwoPages == [j \in Projects |-> [f \in Paths |-> IF f = f1 THEN c1 ELSE c2]]

RaceRequests ==
    {Gc, Search(j1, s1), Full1(j1, s1), Incr(j2, s1)}
PageRequests == {Incr(j1, s1), Incr(j1, s2), Full1(j1, s1), Full1(j1, s2)}
FaultRequests ==
    {Gc, Search(j1, s1), Search(j1, s2), Incr(j1, s1), Full1(j1, s1), Stats(j1)}

EditOnly == {"edit"}
RaceOps == {"edit", "rebind"}
FaultOps == {"edit", "delete_cache", "damage_cache", "rebind", "recover"}
Symmetry == Permutations(Procs)
=============================================================================
