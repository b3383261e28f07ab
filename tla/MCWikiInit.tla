----------------------------- MODULE MCWikiInit -----------------------------
(* Small instances of WikiInit: repositories to initialize. *)
EXTENDS WikiInit, TLC

RepoFile(text) == File(text, "repo")
RepoDir(rw) == Dir(rw, "repo")

(* No wiki yet, an AGENTS.md without the policy. *)
Fresh == AgentsMd :> RepoFile("prose")

(* A minimal wiki in a read-only directory, from before .gitignore. *)
ReadOnlyMinimal ==
    (AgentsMd :> RepoFile("policy")) @@ (AgentsDir :> RepoDir(TRUE)) @@ (Memory :> RepoDir(FALSE))
    @@ (Flat :> RepoFile("page"))

(* ... with the lock file an earlier writer left: apply makes the directory *)
(* writable for a time.  Without it apply has nothing to lock.             *)
LockedReadOnlyMinimal == ReadOnlyMinimal @@ (Lock :> RepoFile(NoText))

(* A full wiki with a second page. *)
FullWiki ==
    (AgentsMd :> RepoFile("policy")) @@ (AgentsDir :> RepoDir(TRUE)) @@ (Memory :> RepoDir(TRUE))
    @@ (Gitignore :> RepoFile("ignore")) @@ (Schema :> RepoFile("schema"))
    @@ (Index :> RepoFile("catalog2")) @@ (Pages :> RepoDir(TRUE)) @@ (Lock :> RepoFile(NoText))
    @@ (Project :> RepoFile("page")) @@ (Extra :> RepoFile("page"))

(* The first half of a full wiki. *)
Half == (AgentsDir :> RepoDir(TRUE)) @@ (Memory :> RepoDir(TRUE)) @@ (Index :> RepoFile("template"))

CaseOf(nodes, mode, agents, page) ==
    [nodes |-> nodes, mode |-> mode, agents |-> agents, page |-> page]

AllCases ==
    {CaseOf(Fresh, "minimal", "policy", "page"),
     CaseOf(Fresh, None, None, "page"),
     CaseOf(ReadOnlyMinimal, None, None, "page2"),
     CaseOf(LockedReadOnlyMinimal, None, None, "page2"),
     CaseOf(FullWiki, "full", None, "page2"),
     CaseOf(FullWiki, "minimal", None, "page"),
     CaseOf(Half, "full", None, "page")}

SomeEdits == {AgentsMd, AgentsDir, Memory, Flat, Gitignore, Pages, Extra}
=============================================================================
