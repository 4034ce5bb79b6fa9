SPECIFICATION MCSpec
CONSTANTS
    Kinds = {"request", "null_request", "unasked", "unknown_null", "shapeless", "huge",
             "not_utf8", "frame"}
    MaxLines = 3
    Conns = {c1, c2}
    MaxCalls = 2
    Tasks = {t1, t2}
    Transports = {"stdio", "json", "nda", "http"}
    ErrPipe = 1
    MaxSends = 3
    MaxCancels = 1
    MaxCrashes = 1
    Instances = {i1, i2}
    PluginNames = {"a", "b"}
    Codes = {"x"}
    Stores = {"file", "native", "edge"}
    Torn = Torn
    LOCK_TIMEOUT = 2
    MaxToolCalls = 2
    MaxRestarts = 1
    MaxLosses = 2
INVARIANTS LinesAnswered CallsFlushed SendsHonest StoresExact
PROPERTIES TransportsEnd
CHECK_DEADLOCK FALSE
