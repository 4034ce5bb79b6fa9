SPECIFICATION MCSpec
CONSTANTS
    ApiKey = "set"
    Slots = {t1, t2}
    Sids = {a, b}
    Fresh = {f}
    MAX_SESSIONS = 2
    SESSION_TTL = 2
    MaxTicks = 2
    MaxRequests = 2
    MaxRefusals = 1
    EdgeConns = {k1}
    EdgeRequests <- EdgeRequestsVal
    EdgeEnvs <- EdgeEnvsVal
    EdgeToolNames = {"echo"}
    EdgeCapacity = 1
    Minute = 3
    MaxTracked = 1
    MaxKeyLen = 2
    ConnTime = 4
    EdgeClock = 4
    EdgeTotal = 3
    Callers = {t1, t2}
    Conns = {a, b}
    MAX_STORE_ENTRIES = 1
    Buffer = 2
    CallTime = 1
    Lifetime = 3
    MaxConnClock = 3
    MaxGrants = 3
    States = {a, b}
    MAX_STATE_ENTRIES = 1
    MaxAttempts = 3
    MaxFlows = 4
    MaxSettings = 3
    CacheRequests = {t1, t2}
    CacheKeys = {"k", "l"}
    Asks = {"x", "y"}
    CacheSize = 1
    TTL = 3
    MaxCacheClock = 3
    Plugins = {"p1", "p2"}
    Requests = {t1, t2}
    Latest <- LatestVal
    MaxCrashes = 1
    Uris = {"u1", "u2"}
    SubscriberIds = {"a", "b"}
    Pagers = {"g"}
    MAX_RESOURCES = 3
    MAX_SUBSCRIBED_URIS = 1
    MAX_SUBSCRIBERS_PER_URI = 1
    MaxPending = 2
    PageSize = 1
    MaxUpdates = 3
    PromptTexts <- PromptTextsVal
    ArgTexts <- ArgTextsVal
    PromptNames = {"p"}
    MAX_PROMPTS = 2
    DbPaths = {"d1", "d2"}
    MaxPromptSteps = 4
    ToolThreads = {t1, t2}
    Files = {"p", "q"}
    BadPath = "bad"
    Texts <- TextsVal
    Edits <- EditsVal
    MaxFileWords = 2
    MaxInodes = 3
    Dynamic = {"x"}
INVARIANTS SessionsKept EdgeHonest ConnectorsHonest SettingsHonest HitsHonest
INVARIANTS InstallsKept ResourcesKept PromptsHonest FilesWhole
SYMMETRY Symmetry
CHECK_DEADLOCK FALSE
