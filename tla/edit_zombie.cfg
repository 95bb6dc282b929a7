SPECIFICATION Spec
CONSTANTS
    Jobs = {j1, j2, j3}
    Procs = {p, q}
    ProcOf <- Posted
    TTL = 6
    Wait = 3
    MaxDelay = 1
    MaxMissed = 0
    MaxCuts = 1
    MaxOverruns = 0
    MaxCrashes = 0
    None = None
    j1 = j1
    j2 = j2
    j3 = j3
    p = p
    q = q
INVARIANT
    NoZombieLock
CHECK_DEADLOCK FALSE
