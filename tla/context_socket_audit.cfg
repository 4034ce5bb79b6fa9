SPECIFICATION MCSpec
CONSTANTS
    Workers = {w1, w2}
    Posts = {}
    Ndas = {}
    Batches = {}
    Streams = {}
    Sockets = {k1, k2}
    Sessions = {s1, s2}
    Ids = {i1}
    MaxRequests = 2
    MaxCancelled = 5
    Threads = {w1, w2}
    Flushers = {f1}
    AuditSessions = {s1, s2, s3}
    MaxSessions = 2
    MaxEntries = 2
    MaxRecords = 3
    MaxRemovals = 1
    MaxFlushes = 1
INVARIANTS AuditIsolated
SYMMETRY Symmetry
CHECK_DEADLOCK FALSE
