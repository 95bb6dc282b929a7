SPECIFICATION FairSpec
CONSTANTS
    Jobs = {j1, j2, j3}
    Procs = {p, q}
    ProcOf <- Posted
    TTL = 6
    Wait = 8
    MaxDelay = 1
    MaxMissed = 0
    MaxCuts = 1
    MaxOverruns = 1
    MaxCrashes = 1
    None = None
    j1 = j1
    j2 = j2
    j3 = j3
    p = p
    q = q
INVARIANTS
    UpstreamExclusive
PROPERTIES
    LeaseNotStolen
    SurvivorRuns
    EveryJobSettles
CHECK_DEADLOCK FALSE
