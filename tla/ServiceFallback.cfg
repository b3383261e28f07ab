CONSTANTS
    c1 = c1
    s1 = s1
    s2 = s2
    None = None
    Clients = {c1}
    Strangers = {}
    MaxActive = 1
    MaxPending = 1
    EnvOps = {"stop"}
    MaxFaults = 1
SPECIFICATION Spec
INVARIANTS DirectOnlyIfNeverRun
