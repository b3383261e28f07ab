CONSTANTS
    j1 = j1 j2 = j2 f1 = f1 f2 = f2 c1 = c1 c2 = c2 s1 = s1 s2 = s2
    Rejected = Rejected Unreadable = Unreadable None = None
    Contents = {c1, c2}
    FinalRace = FALSE
    MaxQuarantines = 1
    MaxTries = 2
    Procs = {p1, p2, p3}
    Projects = {j1, j2} Paths = {f1} Schemes = {s1}
    InitIndexed = {j1} InitFiles <- SharedText Requests <- RaceRequests EnvOps <- RaceOps
    MaxGen = 3 MaxEdits = 1 MaxFaults = 0 MaxCrashes = 0 MaxLosses = 1
SPECIFICATION Spec
INVARIANTS
    NoDanglingVectors
    OpenSnapshotsKeepTheirVectors
PROPERTIES
    PublishReplacesItsBase
SYMMETRY Symmetry
