SPECIFICATION AllSpec
CONSTANTS
    Components = {"solvers", "router", "chat", "guard", "accounts", "registration"}
    Requests = {r1, r2}
    URLs = {near, far}
    Default = near
    Weight <- Weights
    Threshold = 2
    ProbeEvery = 2
    Cooldown = 1
    Addresses = {plain, rogue}
    Callers = {plain}
    Syncs = {1}
    KindsOf <- RuleKinds
    PageSize = 1
    Limit = 1
    Capacity = 1
    Refill = 0
    MaxWrong = 2
    DailyLimit = 1
    Window = 2
    Spell = 1
    Day = 1
    MaxChanges = 2
    NoRule = NoRule
    Members = {acc}
    Target = 1
    MaxRetry = 3
    MaxFails = 3
    Borrowers = {bor1, bor2}
    Emails = {mail1, mail2}
    direct = direct
    Order <- Ordered
    Engine = engine
    Reporting <- OnlyFallen
    DegradeAfter = 2
    MaxLoad = 2
    Fallen = limited
    Plain = plain
    Visitors = {v1, v2}
    Chats = {c1}
    Rounds = 2
    MaxParts = 2
    None = None
INVARIANTS
    ReliableServes
    LoadCovered
    ToolAnswerWhole
    BurstBounded
    SharedOnlyAfterOverrule
PROPERTIES
    Recovers
    SyncKeepsStanding
CHECK_DEADLOCK FALSE
