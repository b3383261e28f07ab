CONSTANTS
    j1 = j1 j2 = j2 f1 = f1 f2 = f2 c1 = c1 c2 = c2 s1 = s1 s2 = s2
    Rejected = Rejected Unreadable = Unreadable None = None
    Contents = {c1, c2}
    FinalRace = FALSE
    MaxQuarantines = 1
    MaxTries = 2
    Procs = {p1, p2}
    Projects = {j1} Paths = {f1, f2} Schemes = {s1, s2}
    InitIndexed = {j1} InitFiles <- TwoPages Requests <- PageRequests EnvOps <- EditOnly
    MaxGen = 3 MaxEdits = 2 MaxFaults = 1 MaxCrashes = 0 MaxLosses = 0
SPECIFICATION Spec
INVARIANTS
    IndexIsUniform
PROPERTIES
    PublishesTheDisk
SYMMETRY Symmetry
