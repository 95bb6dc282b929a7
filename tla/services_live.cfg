SPECIFICATION AllFairSpec
CONSTANTS
    Components = {"buffer", "lists", "dispatch", "events", "gallery", "solver", "mutex", "action", "house"}
    Callers = {w1}
    MaxWrites = 2
    MaxFaults = 1
    Drawers = {draw}
    Talkers = {talk}
    Midnights = 0
    Posts = {post1}
    Requests = {post1, stray}
    MaxLapses = 0
    MaxDbErrors = 1
    AsksOf <- MayAsk
    Widths <- OneEach
    Streams = {stream}
    Watchers = {stream, socket}
    ProtocolOf <- Protocols
    Script <- ThreeEvents
    Keep = 2
    MaxQueue = 1
    MaxConnects = 1
    Pages = {page1}
    Visitors = {visitor}
    Images = 1
    Deaths = 1
    Shelf = 2
    Challenges = {}
    Walls = {}
    Captchas = {hard}
    Threads = 1
    PagesPer = 2
    HasProxies = TRUE
    CaptchaKinds <- SomeKinds
    MaxCrashes = 1
    Editors = {ed1, ed2}
    Contained = {}
    Funerals = 1
    Posters = {gen1}
    MaxDeploys = 1
    Static = 1
    MaxOutages = 1
    NoSniffer = NoSniffer
    Loads = {}
    Slots = {s1, s2}
    Most = 2
    Edits = {}
    Exits = 2
    Inflight = 2
    Tries = 2
    Vacant = Vacant
    Tasks = {}
    Loops = {}
    BatchSize = 2
    MaxCuts = 1
    Unset = Unset
    Observations = {}
    MaxSlips = 0
    SceneOf <- TwoScenes
    Weighty <- AllButOne
    MaxAtoms = 3
    Finished = {}
    MaxBreaks = 0
    Point <- Points
    Near = 1
    K = 1
    NoTask = NoTask
    LineUps <- SomeLineUps
    Names = {"old", "bad", "new"}
    Recorded = {"old"}
    Risky = {"bad"}
    Attempts = 3
    Gap = 1
    Polls = 1
    MaxFails = 2
    Garbage = {"img"}
    Calls = {}
    Good <- OneGood
    ProviderOf <- OneProvider
    ModelOf <- EachItsModel
    Hour = 1
    Day = 2
    Rolling = 2
    Budget = 2
    MaxClock = 3
    MaxDrops = 0
    Mishaps = 1
    Keepalive = keepalive
    Zeros = zeros
    residential = residential
    public = public
    Keys = {key}
    None = None
    Absent = Absent
    Clients = {cl1, cl2}
    MaxSize = 6
    Watermark = 1
    Urgent = 1
    Batch = 3
PROPERTIES
    StartedSettles
    EndReachesLive
    StaleEnds
    SolverGoesOn
    EntriesTraced
    DeadHolderPasses
    IdsCatchUp
    RoundsMakeUp
CHECK_DEADLOCK FALSE
