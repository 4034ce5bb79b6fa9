SPECIFICATION MCSpec
CONSTANTS
    Threads = {t1, t2}
    Scale = 2
    Burst = 3
    Rate = 1
    MaxClock = 3
    MaxOps = 3
    Peers = {p1, p2, p3}
    MAX_PEER_BUCKETS = 2
    PeerBurst = 2
    PeerRate = 1
    MaxPeerClock = 2
    MaxChecks = 6
INVARIANTS PeersApart
PROPERTIES ImplementsBudget
CHECK_DEADLOCK FALSE
