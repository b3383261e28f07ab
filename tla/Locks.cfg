CONSTANTS
    p1 = p1 p2 = p2 d1 = d1 d2 = d2 Nothing = Nothing
    LockProcs = {p1, p2} Corpora = {d1, d2} LockModes <- WriterAndAny
    MaxWikiFiles = 3 MaxWikiTroubles = 2
    NoFile = NoFile
    Loaders = {l1, l2, l3} MissingLevels = 2 MaxSlotDirs = 2 MaxSlotFiles = 4
    MaxSlotTroubles = 1
    v1 = v1 v2 = v2 v3 = v3 None = None
    Services = {v1, v2, v3} Inodes = {1, 2, 3} Reuse = FALSE
    MaxRemovals = 1 MaxKills = 1
SPECIFICATION LocksSpec
INVARIANTS
    SocketTypeOK
PROPERTIES
    WikiLockImplements
    WikiLockEnds
    ConstructionImplements
    ConstructionEnds
    LiveNameKept
    NobodyWaitsForever
CHECK_DEADLOCK FALSE
