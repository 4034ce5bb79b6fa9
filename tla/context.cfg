SPECIFICATION MCSpec
CONSTANTS
    Workers = {w1, w2}
    Posts = {p1}
    Ndas = {n1}
    Batches = {b1}
    Streams = {q1}
    Sockets = {}
    Sessions = {s1, s2}
    Ids = {i1}
    MaxRequests = 2
    MaxCancelled = 5
    Threads = {w1, w2}
    Flushers = {f1}
    AuditSessions = {s1, s2, s3}
    MaxSessions = 2
    MaxEntries = 2
    MaxRecords = 3
    MaxRemovals = 1
    MaxFlushes = 1
INVARIANTS AuditRouted CancelsKept EntriesKept
PROPERTIES FlushCovers
SYMMETRY Symmetry
CHECK_DEADLOCK FALSE
