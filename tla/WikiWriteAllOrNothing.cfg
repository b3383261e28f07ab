\* The README's claim, against one writer and one failing system call.
SPECIFICATION Spec
CONSTANTS
    Procs = {p1}
    s1 = s1
    s2 = s2
    m1 = m1
    m2 = m2
    Slugs = {s1, s2}
    Summaries = {m1, m2}
    Bad = Bad
    Torn = Torn
    None = None
    InitPages <- OnePage
    Requests <- FewRequests
    EditorOps <- NoEdits
    FinalRace = FALSE
    MaxEdits = 0
    MaxFaults = 1
    MaxCrashes = 0
INVARIANTS
    FailureChangesNothing
CHECK_DEADLOCK FALSE
