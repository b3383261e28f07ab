CONSTANTS
    Openers = {o1, o2} Searchers = {o2} NoDb = NoDb MaxStoreTroubles = 2
    Builders = {b1, b2} Online = {b1, b2} Artifacts = {1, 2} Absent = Absent
    MaxCacheEdits = 1
    Loggers = {q1, q2} NoLog = NoLog MaxLogFiles = 2 MaxLogTroubles = 3
    Cases <- AllCases EditPaths <- SomeEdits
    MaxEdits = 1 MaxFaults = 2 MaxCrashes = 1 MaxTrouble = 3
SPECIFICATION FilesSpec
INVARIANTS
    StoreOpenedIsCurrent
    OpenersDoNotClash
    LoadedIsPinned
    QueryLogHonest
    FailureIsAccounted
    SuccessIsApproved
    AcceptedPlanSucceeds
PROPERTIES
    ForeignStoreUntouched
    ForeignWorkSurvives
\* Each process opens, loads, logs or initializes once.
CHECK_DEADLOCK FALSE
