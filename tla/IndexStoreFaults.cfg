CONSTANTS
    j1 = j1 j2 = j2 f1 = f1 f2 = f2 c1 = c1 c2 = c2 s1 = s1 s2 = s2
    Rejected = Rejected Unreadable = Unreadable None = None
    Contents = {c1, c2}
    FinalRace = FALSE
    MaxQuarantines = 1
    MaxTries = 2
    Procs = {p1, p2}
    Projects = {j1} Paths = {f1} Schemes = {s1}
    InitIndexed = {j1} InitFiles <- SharedText Requests <- FaultRequests EnvOps <- FaultOps
    MaxGen = 2 MaxEdits = 0 MaxFaults = 1 MaxCrashes = 1 MaxLosses = 2
SPECIFICATION FairSpec
INVARIANTS
    TypeOK
PROPERTIES
    SuccessMeansSearchable
    EveryOperationEnds
