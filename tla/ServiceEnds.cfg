CONSTANTS
    c1 = c1
    s1 = s1
    s2 = s2
    None = None
    Clients = {s1, s2}
    Strangers = {s1, s2}
    MaxActive = 1
    MaxPending = 1
    EnvOps = {"stop", "hang up"}
    MaxFaults = 1
SPECIFICATION FairSpec
PROPERTIES AdmissionEnds ShutdownEnds
