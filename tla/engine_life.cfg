SPECIFICATION FairSpec
CONSTANTS
    Tasks = {1, 2}
    Workers = {w1, w2}
    Priorities = {2}
    Limit <- OneEach
    StartPool <- TwoWorkers
    MinWorkers = 1
    NormalPriority = 2
    RetryMax = 2
    MaxCrashes = 0
    MaxRequeues = 0
    MaxDbErrors = 1
    None = None
    w1 = w1
    w2 = w2
PROPERTIES
    ResultKept
    EveryTaskSettles
CHECK_DEADLOCK FALSE
