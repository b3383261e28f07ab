\* Every command beside an editor and a program that replaces the lock file,
\* both kept out of the last window; no failing system calls.
SPECIFICATION Spec
CONSTANTS
    Procs = {p1, p2}
    s1 = s1
    s2 = s2
    m1 = m1
    m2 = m2
    Slugs = {s1, s2}
    Summaries = {m1, m2}
    Bad = Bad
    Torn = Torn
    None = None
    InitPages <- OnePage
    Requests <- AllRequests
    EditorOps <- AllEdits
    FinalRace = FALSE
    MaxEdits = 2
    MaxFaults = 0
    MaxCrashes = 0
SYMMETRY Symmetry
INVARIANTS
    OneCommitter
PROPERTIES
    UpdateReplacesWhatItRead
    IndexReplacedByTruth
\* Every command ends and no other follows it.
CHECK_DEADLOCK FALSE
