-------------------------------- MODULE MCFiles --------------------------------
(* Four protocols over files that share nothing, so each is checked by     *)
(* itself: the value of which picks the one whose processes move.          *)
EXTENDS StoreOpen, ModelCache, QueryLog, MCWikiInit

VARIABLE which

StoreAtRest ==
    /\ store = "project" /\ storeDir = "absent"
    /\ db = [f \in DbFiles |-> [has |-> "empty", journal |-> "delete"]]
CacheAtRest == server = "down" /\ cacheRepo = "none"
LogAtRest == logName = NoLog /\ logSafe = {}
RepositoryAtRest == case = CaseOf(Fresh, None, None, "page")

FilesInit ==
    /\ which \in {"store", "model cache", "query log", "wiki init"}
    /\ StoreOpenInit /\ ModelCacheInit /\ QueryLogInit /\ Init
    /\ which # "store" => StoreAtRest
    /\ which # "model cache" => CacheAtRest
    /\ which # "query log" => LogAtRest
    /\ which # "wiki init" => RepositoryAtRest

FilesNext ==
    /\ UNCHANGED which
    /\ \/ which = "store" /\ StoreOpenNext /\ UNCHANGED <<cacheVars, logVars, vars>>
       \/ which = "model cache" /\ ModelCacheNext /\ UNCHANGED <<openVars, logVars, vars>>
       \/ which = "query log" /\ QueryLogNext /\ UNCHANGED <<openVars, cacheVars, vars>>
       \/ which = "wiki init" /\ Next /\ UNCHANGED <<openVars, cacheVars, logVars>>

FilesSpec == FilesInit /\ [][FilesNext]_<<which, openVars, cacheVars, logVars, vars>>
=============================================================================
