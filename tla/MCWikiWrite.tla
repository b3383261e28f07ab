---------------------------- MODULE MCWikiWrite ----------------------------
(* Small instances of WikiWrite: which commands run and what else happens. *)
EXTENDS WikiWrite, TLC

CONSTANTS s1, s2, m1, m2

(* One page exists, one name is free. *)
OnePage == [s \in Slugs |-> IF s = s1 THEN m1 ELSE None]

Symmetry == Permutations(Procs)

CreateReq(s, m) == [op |-> "create", slug |-> s, sum |-> m]
UpdateReq(s, m, pin) == [op |-> "update", slug |-> s, sum |-> m, pinned |-> pin]
CatalogReq(check, adopt) == [op |-> "catalog", check |-> check, adopt |-> adopt]

(* Writers of the same and of different pages beside the catalog command   *)
(* in each of its modes.                                                   *)
AllRequests ==
    {CreateReq(s2, m1), UpdateReq(s1, m2, FALSE), UpdateReq(s1, m1, TRUE),
     CatalogReq(FALSE, FALSE), CatalogReq(TRUE, FALSE), CatalogReq(FALSE, TRUE),
     [op |-> "malformed"]}

(* One of each, where every system call may fail. *)
FewRequests == {CreateReq(s2, m1), UpdateReq(s1, m2, FALSE), CatalogReq(FALSE, FALSE)}

AllEdits == {"edit", "add", "delete", "index", "rebind"}
EditsAdditive == {"edit", "add"}
NoEdits == {}
=============================================================================
