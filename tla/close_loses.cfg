SPECIFICATION AllSpec
CONSTANTS
    Components = {"buffer"}
    Callers = {w1}
    MaxWrites = 1
    MaxFaults = 0
    Drawers = {}
    Talkers = {}
    Midnights = 0
    Posts = {}
    Requests = {}
    MaxLapses = 0
    MaxDbErrors = 0
    AsksOf <- MayAsk
    Widths <- OneEach
    Streams = {}
    Watchers = {}
    ProtocolOf <- Protocols
    Script <- ThreeEvents
    Keep = 2
    MaxQueue = 1
    MaxConnects = 0
    Pages = {}
    Visitors = {}
    Images = 0
    Deaths = 0
    Shelf = 1
    Challenges = {}
    Walls = {}
    Captchas = {hard}
    Threads = 1
    PagesPer = 2
    HasProxies = TRUE
    CaptchaKinds <- SomeKinds
    MaxCrashes = 1
    Editors = {ed1, ed2}
    Contained = {}
    Funerals = 1
    Posters = {gen1}
    MaxDeploys = 1
    Static = 1
    MaxOutages = 1
    NoSniffer = NoSniffer
    Loads = {}
    Slots = {s1, s2}
    Most = 2
    Edits = {}
    Exits = 2
    Inflight = 2
    Tries = 2
    Vacant = Vacant
    Tasks = {}
    Loops = {}
    BatchSize = 2
    MaxCuts = 1
    Unset = Unset
    Observations = {}
    MaxSlips = 0
    SceneOf <- TwoScenes
    Weighty <- AllButOne
    MaxAtoms = 3
    Finished = {}
    MaxBreaks = 0
    Point <- Points
    Near = 1
    K = 1
    NoTask = NoTask
    LineUps <- SomeLineUps
    Names = {"old", "bad", "new"}
    Recorded = {"old"}
    Risky = {"bad"}
    Attempts = 3
    Gap = 1
    Polls = 1
    MaxFails = 2
    Garbage = {}
    Calls = {}
    Good <- OneGood
    ProviderOf <- OneProvider
    ModelOf <- EachItsModel
    Hour = 1
    Day = 2
    Rolling = 2
    Budget = 2
    MaxClock = 3
    MaxDrops = 0
    Mishaps = 0
    Keepalive = keepalive
    Zeros = zeros
    residential = residential
    public = public
    Keys = {key}
    None = None
    Absent = Absent
    Clients = {cl1, cl2}
    MaxSize = 6
    Watermark = 1
    Urgent = 1
    Batch = 3
INVARIANTS
    ClosedKeepsAll
CHECK_DEADLOCK FALSE
