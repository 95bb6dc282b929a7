SPECIFICATION AllSpec
CONSTANTS
    Components = {"buffer", "proxy", "dispatch", "events", "gallery", "solver", "tokens", "mutex", "action", "download", "exits", "mail", "memory", "vector", "house", "usage", "batch", "lists"}
    Callers = {w1, w2}
    MaxWrites = 2
    MaxFaults = 1
    Drawers = {draw}
    Talkers = {talk}
    Midnights = 1
    Posts = {post1, post2}
    Requests = {post1, post2, stray}
    MaxLapses = 1
    MaxDbErrors = 1
    AsksOf <- MayAsk
    Widths <- OneEach
    Streams = {stream}
    Watchers = {stream, socket}
    ProtocolOf <- Protocols
    Script <- ThreeEvents
    Keep = 2
    MaxQueue = 1
    MaxConnects = 2
    Pages = {page1, page2}
    Visitors = {visitor}
    Images = 1
    Deaths = 0
    Shelf = 1
    Challenges = {captcha}
    Walls = {wall}
    Captchas = {captcha, wall}
    Threads = 1
    PagesPer = 2
    HasProxies = TRUE
    CaptchaKinds <- SomeKinds
    MaxCrashes = 0
    Editors = {ed1, ed2}
    Contained = {ed2}
    Funerals = 1
    Posters = {gen1, gen2}
    MaxDeploys = 1
    Static = 1
    MaxOutages = 1
    NoSniffer = NoSniffer
    Loads = {dl1, dl2, dl3}
    Slots = {s1, s2}
    Most = 2
    Edits = {ej1, ej2, ej3}
    Exits = 2
    Inflight = 2
    Tries = 2
    Vacant = Vacant
    Tasks = {bt1, bt2}
    Loops = {bl1, bl2}
    BatchSize = 2
    MaxCuts = 1
    Unset = Unset
    Observations = {1, 2}
    MaxSlips = 1
    SceneOf <- TwoScenes
    Weighty <- AllButOne
    MaxAtoms = 3
    Finished = {1, 2, 3}
    MaxBreaks = 2
    Point <- Points
    Near = 1
    K = 1
    NoTask = NoTask
    LineUps <- SomeLineUps
    Names = {"old", "bad", "new"}
    Recorded = {"old"}
    Risky = {"bad"}
    Attempts = 3
    Gap = 1
    Polls = 1
    MaxFails = 2
    Garbage = {"row", "img", "img2"}
    Calls = {talk1, talk2}
    Good <- OneGood
    ProviderOf <- OneProvider
    ModelOf <- EachItsModel
    Hour = 1
    Day = 2
    Rolling = 2
    Budget = 2
    MaxClock = 3
    MaxDrops = 1
    Mishaps = 0
    Keepalive = keepalive
    Zeros = zeros
    residential = residential
    public = public
    Keys = {key}
    None = None
    Absent = Absent
    Clients = {cl1, cl2}
    MaxSize = 6
    Watermark = 1
    Urgent = 1
    Batch = 3
INVARIANTS
    TypesOK
    ReadsSeeEarlierWrites
    RunsOncePerKey
    SeenInOrder
    NoStalePage
    RefillNoticed
    StaleExplained
    NoForeignPiece
    BusyExplained
    FailsAfterAll
    OnceUnlessTorn
    OriginalsApart
    ReportsAgree
PROPERTIES
    ImplementsOrderedLog
    NeverBack
    BatchSettles
CHECK_DEADLOCK FALSE
