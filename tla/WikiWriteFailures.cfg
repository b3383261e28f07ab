\* Failing system calls, a killed process or a power cut, and an editor that
\* may act at any moment, the last window included.
SPECIFICATION FairSpec
CONSTANTS
    Procs = {p1, p2}
    s1 = s1
    s2 = s2
    m1 = m1
    m2 = m2
    Slugs = {s1, s2}
    Summaries = {m1, m2}
    Bad = Bad
    Torn = Torn
    None = None
    InitPages <- OnePage
    Requests <- FewRequests
    EditorOps <- EditsAdditive
    FinalRace = TRUE
    MaxEdits = 1
    MaxFaults = 2
    MaxCrashes = 1
INVARIANTS
    ReportIsHonest
    SuccessIsDurable
    NeverTorn
PROPERTIES
    CreateNeverOverwrites
    EveryCommandEnds
\* Every command ends and no other follows it.
CHECK_DEADLOCK FALSE
