SPECIFICATION Spec
CONSTANTS
    Tasks = {1,2}
    Workers = {w1, w2}
    Priorities = {2}
    Limit <- OneEach
    StartPool <- TwoWorkers
    MinWorkers = 2
    NormalPriority = 2
    RetryMax = 1
    MaxCrashes = 1
    MaxRequeues = 1
    MaxDbErrors = 1
    None = None
    w1 = w1
    w2 = w2
INVARIANTS
    NoLostTask
    StoreCoversQueue
    SingleRunner
CHECK_DEADLOCK FALSE
SYMMETRY WorkersAlike
CONSTRAINT AtMostTwo
