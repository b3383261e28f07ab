------------------------------- MODULE ModelCache -------------------------------
(***************************************************************************)
(* Loading the embedding model from the Hugging Face cache, with at most   *)
(* one download, while other processes download into the same cache and    *)
(* others edit it.  Two loaders may be at work: the construction slots     *)
(* admit two (ConstructionLock).                                           *)
(*                                                                         *)
(* Source: yams-embed/src/jina.rs.  An artifact in the cache is its bytes  *)
(* and a stamp; the stamp is everything EntryState records of the symlink, *)
(* its target and the blob, and changes with any of them.  The pinned      *)
(* directories share one stamp.  The bytes of an artifact are the release  *)
(* ones ("good"), others ("bad"), or in a file that the loader refuses     *)
(* (empty, too large, with another owner or a second link: "unsafe").      *)
(***************************************************************************)
EXTENDS Naturals, FiniteSets

CONSTANTS
    Builders,        \* loaders that hold a slot
    Online,          \* those that may download
    Artifacts,       \* REQUIRED_ARTIFACTS: the numbers from 1
    Absent,
    MaxCacheEdits    \* bound on edits by other processes

ASSUME ModelCacheAssumption ==
    /\ IsFiniteSet(Builders) /\ Online \subseteq Builders
    /\ Artifacts \in {1 .. n : n \in 1 .. Cardinality(Artifacts)}
    /\ MaxCacheEdits \in Nat

VARIABLES
    server,      \* what the endpoint serves: "pinned", "moved" or "down"
    cacheRepo,   \* "none", "other" (no pinned snapshot) or "pinned"
    cacheEntry,  \* the artifacts of the pinned snapshot
    cacheDirs,   \* stamp of the directories
    cacheStamp,  \* the last stamp given out
    loadPc,      \* the step of each loader, at the end its outcome
    loadNext,    \* the artifact it is at
    loadDirs,    \* the stamp of the directories it pinned
    loadPins,    \* the entries it pinned
    loadBytes,   \* the bytes in its memory
    loadAgain,   \* has it downloaded?
    together,    \* history: were the bytes in the cache all at once?
    cacheEdits

cacheVars == <<server, cacheRepo, cacheEntry, cacheDirs, cacheStamp, loadPc, loadNext,
               loadDirs, loadPins, loadBytes, loadAgain, together, cacheEdits>>
theCache == <<cacheRepo, cacheEntry, cacheDirs, cacheStamp>>
theLoad == <<loadNext, loadDirs, loadPins, loadBytes, together>>

LastArtifact == Cardinality(Artifacts)
Bytes == {"good", "bad", "unsafe"}
Empty == [a \in Artifacts |-> Absent]

ModelCacheInit ==
    /\ server \in {"pinned", "moved", "down"}
    /\ \/ cacheRepo \in {"none", "other"} /\ cacheEntry = Empty
       \/ /\ cacheRepo = "pinned"
          /\ cacheEntry \in [Artifacts -> {Absent} \cup [bytes : Bytes, stamp : {0}]]
    /\ cacheDirs = 0 /\ cacheStamp = 0
    /\ loadPc = [b \in Builders |-> "idle"]
    /\ loadNext = [b \in Builders |-> 1]
    /\ loadDirs = [b \in Builders |-> Absent]
    /\ loadPins = [b \in Builders |-> Empty]
    /\ loadBytes = [b \in Builders |-> Empty]
    /\ loadAgain = [b \in Builders |-> FALSE]
    /\ together = [b \in Builders |-> FALSE]
    /\ cacheEdits = 0

-----------------------------------------------------------------------------
(* download_can_repair: only absence is worth a download. *)
Repairable == {"missing", "no snapshot"}

(* after_download: what no download can cure is not called missing. *)
after_download(error) == IF error = "no snapshot" THEN "not served" ELSE error

(* build_offline fails: an online build downloads once, and only then.     *)
(* The error drops what was read.                                          *)
LoadError(b, error) ==
    /\ loadPc' = [loadPc EXCEPT ![b] =
                    IF loadAgain[b] THEN after_download(error)
                    ELSE IF b \in Online /\ error \in Repairable THEN "download" ELSE error]
    /\ loadNext' = [loadNext EXCEPT ![b] = 1]
    /\ loadDirs' = [loadDirs EXCEPT ![b] = Absent]
    /\ loadPins' = [loadPins EXCEPT ![b] = Empty]
    /\ loadBytes' = [loadBytes EXCEPT ![b] = Empty]
    /\ together' = [together EXCEPT ![b] = FALSE]

(* An entry that changed under a loader is refused as rebound, or as       *)
(* unsafe when the file it pinned has lost its link.                       *)
Rebound(b) == \E error \in {"rebound", "unsafe"} : LoadError(b, error)

LoadStep(b, step) == loadPc[b] = step /\ UNCHANGED <<server, cacheEdits>>
GoOn(b, step) == loadPc' = [loadPc EXCEPT ![b] = step]

(* selected_metadata agrees with this build, as its tests pin. *)
BeginBuild(b) ==
    /\ LoadStep(b, "idle") /\ GoOn(b, "resolve")
    /\ UNCHANGED <<theCache, theLoad, loadAgain>>

(* resolve_offline_snapshot_with_hooks: pin the chain of directories. *)
ResolveSnapshot(b) ==
    /\ LoadStep(b, "resolve")
    /\ \/ cacheRepo = "none" /\ LoadError(b, "missing")
       \/ cacheRepo = "other" /\ LoadError(b, "no snapshot")
       \/ /\ cacheRepo = "pinned"
          /\ loadDirs' = [loadDirs EXCEPT ![b] = cacheDirs]
          /\ GoOn(b, "open") /\ UNCHANGED <<loadNext, loadPins, loadBytes, together>>
    /\ UNCHANGED <<theCache, loadAgain>>

(* read_artifact_from_snapshot: inspect the entry and open its file... *)
OpenArtifact(b) ==
    /\ LoadStep(b, "open")
    /\ LET a == loadNext[b] IN
       \/ cacheEntry[a] = Absent /\ LoadError(b, "missing")
       \/ /\ cacheEntry[a] # Absent
          /\ loadPins' = [loadPins EXCEPT ![b][a] = cacheEntry[a]]
          /\ GoOn(b, "read") /\ UNCHANGED <<loadNext, loadDirs, loadBytes, together>>
    /\ UNCHANGED <<theCache, loadAgain>>

(* ... read it, and revalidate.  A file replaced meanwhile is read as it   *)
(* was, one rewritten in place as it is now, or in part.                   *)
ReadArtifact(b) ==
    /\ LoadStep(b, "read")
    /\ LET a == loadNext[b]
           seen == {loadPins[b][a], cacheEntry[a]} \ {Absent}
       IN \E e \in seen :
            \/ e.bytes = "unsafe" /\ LoadError(b, "unsafe")
            \/ /\ e.bytes # "unsafe" /\ cacheEntry[a] # loadPins[b][a]
               /\ Rebound(b)
            \/ /\ e.bytes # "unsafe" /\ cacheEntry[a] = loadPins[b][a]
               /\ loadBytes' = [loadBytes EXCEPT ![b][a] = e.bytes]
               /\ loadNext' = [loadNext EXCEPT ![b] = a + 1]
               /\ GoOn(b, IF a = LastArtifact THEN "recheck" ELSE "open")
               /\ together' = [together EXCEPT ![b] =
                    /\ a = LastArtifact
                    /\ \A x \in Artifacts : /\ cacheEntry[x] # Absent
                                            /\ cacheEntry[x].bytes = loadBytes'[b][x]]
               /\ UNCHANGED <<loadDirs, loadPins>>
    /\ UNCHANGED <<theCache, loadAgain>>

(* ResolvedSnapshot::revalidate: every directory and every artifact. *)
SnapshotCurrent(b) == cacheDirs = loadDirs[b] /\ cacheEntry = loadPins[b]

(* A bug: the resolution is not revalidated. *)
RecheckSkipped(b) ==
    /\ LoadStep(b, "recheck") /\ GoOn(b, "verify")
    /\ UNCHANGED <<theLoad, theCache, loadAgain>>

(* The end of the resolution. *)
Recheck(b) ==
    /\ LoadStep(b, "recheck")
    /\ IF SnapshotCurrent(b) THEN GoOn(b, "verify") /\ UNCHANGED theLoad
                             ELSE Rebound(b)
    /\ UNCHANGED <<theCache, loadAgain>>

(* verify_pinned_provenance: the digest of the bytes in memory. *)
VerifyProvenance(b) ==
    /\ LoadStep(b, "verify")
    /\ IF \A a \in Artifacts : loadBytes[b][a] = "good"
       THEN GoOn(b, "construct") /\ UNCHANGED theLoad
       ELSE LoadError(b, "mismatch")
    /\ UNCHANGED <<theCache, loadAgain>>

(* ONNX takes the bytes or refuses them; a cache that changed meanwhile    *)
(* outranks its answer.                                                    *)
ConstructModel(b) ==
    /\ LoadStep(b, "construct")
    /\ \/ SnapshotCurrent(b) /\ GoOn(b, "loaded") /\ UNCHANGED theLoad
       \/ SnapshotCurrent(b) /\ LoadError(b, "construction")
       \/ ~SnapshotCurrent(b) /\ Rebound(b)
    /\ UNCHANGED <<theCache, loadAgain>>

(* build_online_impl: hf-hub's get of one artifact after the other.  An    *)
(* entry that exists is kept, or is replaced by the same blob when another *)
(* loader was fetching it too; an endpoint that serves another commit      *)
(* fills another snapshot.                                                 *)
Download(b) ==
    /\ LoadStep(b, "download")
    /\ LET a == loadNext[b]
           touched == /\ cacheStamp' = cacheStamp + 1 /\ cacheDirs' = cacheStamp'
           advance == /\ loadNext' = [loadNext EXCEPT ![b] = IF a = LastArtifact THEN 1 ELSE a + 1]
                      /\ GoOn(b, IF a = LastArtifact THEN "resolve" ELSE "download")
                      /\ loadAgain' = [loadAgain EXCEPT ![b] = a = LastArtifact]
       IN
       \/ /\ server = "down"
          /\ GoOn(b, "download failed") /\ UNCHANGED <<loadNext, loadAgain, theCache>>
       \/ /\ server = "moved" /\ touched /\ advance
          /\ cacheRepo' = IF cacheRepo = "none" THEN "other" ELSE cacheRepo
          /\ UNCHANGED cacheEntry
       \/ /\ server = "pinned" /\ cacheEntry[a] # Absent /\ advance
          /\ UNCHANGED theCache
       \/ /\ server = "pinned" /\ touched /\ advance
          /\ \/ cacheEntry[a] = Absent
             \/ /\ cacheEntry[a] # Absent
                /\ \E c \in Builders \ {b} : loadPc[c] = "download"
          /\ cacheRepo' = "pinned"
          /\ cacheEntry' = [cacheEntry EXCEPT ![a] =
                            [bytes |-> "good", stamp |-> cacheStamp']]
    /\ UNCHANGED <<loadDirs, loadPins, loadBytes, together>>

(* Other processes: an artifact is replaced, rewritten or removed, or the  *)
(* operator deletes the snapshot.                                          *)
EditCache ==
    /\ cacheEdits < MaxCacheEdits /\ cacheEdits' = cacheEdits + 1
    /\ cacheStamp' = cacheStamp + 1
    /\ \/ \E a \in Artifacts, new \in {Absent} \cup [bytes : Bytes, stamp : {cacheStamp'}] :
            /\ cacheRepo = "pinned"
            /\ cacheEntry' = [cacheEntry EXCEPT ![a] = new]
            /\ cacheDirs' \in {cacheDirs, cacheStamp'}
            /\ new = Absent => cacheDirs' = cacheStamp'
            /\ UNCHANGED cacheRepo
       \/ /\ cacheRepo = "pinned" /\ cacheRepo' = "other"
          /\ cacheEntry' = Empty /\ cacheDirs' = cacheStamp'
    /\ UNCHANGED <<server, loadPc, loadAgain, theLoad>>

ModelCacheNext ==
    \/ \E b \in Builders :
        \/ BeginBuild(b) \/ ResolveSnapshot(b) \/ OpenArtifact(b) \/ ReadArtifact(b)
        \/ Recheck(b) \/ VerifyProvenance(b) \/ ConstructModel(b) \/ Download(b)
    \/ EditCache

ModelCacheSpec == ModelCacheInit /\ [][ModelCacheNext]_cacheVars

-----------------------------------------------------------------------------
(* A loader that ends with a model has the release bytes of every          *)
(* artifact, and they stood in the cache together at one moment: never a   *)
(* mixture of what the cache held before and after a download or an edit.  *)
LoadedIsPinned ==
    \A b \in Builders :
        loadPc[b] \in {"verify", "construct", "loaded"} =>
            /\ together[b]
            /\ loadPc[b] # "verify" => \A a \in Artifacts : loadBytes[b][a] = "good"
=============================================================================
