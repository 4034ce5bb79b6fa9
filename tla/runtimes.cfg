SPECIFICATION MCSpec
CONSTANTS
    Threads = {t1, t2}
    Tools = {n1, n2}
    Paths = {"json", "binary"}
    SharedSlot = FALSE
    Faults = {"source", "create", "register", "register_trap", "oversize", "payload", "error", "quote", "trap"}
    MaxRequests = 3
    PipeSize = 2
    MaxOut = 3
    MaxErr = 1
    MaxWrites = 4
    Deadline = 1
    HttpCalls = {h1}
    Urls = {"scheme", "private", "numeric", "public"}
    HttpMethods = {"GET", "POST", "TRACE"}
    Statuses = {200, 404, 503}
    MAX_RETRIES = 2
    BodySizes = {1, 3}
    MAX_RESPONSE_SIZE = 2
    Directories <- DirectoriesVal
    Excluded = {"x"}
    MaxDepths = {1, 2, 3}
    EntryLimits = {1, 2, 3, 6}
    num1 = num1
    str1 = str1
    str2 = str2
    Tokens = {num1, str2}
    KeyOf <- KeyOfVal
    StreamTasks = {t1, t2}
    Lengths = {3}
    ChunkSizes = {2}
    Capacity = 1
    MAX_STATES = 1
    Samplers = {s1, s2, s3}
    Conversations = {k1, k2}
    MAX_CONVERSATIONS = 1
    MAX_HISTORY = 4
    Turn = 2
INVARIANTS ExecutedAtMostOnce OutputKept OutboundExact ChunksWhole TurnsKept
PROPERTIES CallsEnd
CHECK_DEADLOCK FALSE
