CONSTANTS
    c1 = c1
    s1 = s1
    s2 = s2
    None = None
    Clients = {c1, s1}
    Strangers = {s1}
    MaxActive = 1
    MaxPending = 1
    EnvOps = {"stop", "idle", "kill", "error", "hang up", "refuse"}
    MaxFaults = 1
SPECIFICATION Spec
INVARIANTS SlotsAccounted NoLostWakeup RefusedNeverRan ShutdownDrains
PROPERTIES NoAdmissionAfterShutdown IdleShutdownIsIdle
