SPECIFICATION FairSpec
CONSTANTS
    Clients = {c1, c2}
    Producers = {q1}
    Stalled = {}
    Cap = 1
    MaxSubscribers = 1
    MaxChanges = 2
    MaxBeats = 1
INVARIANTS GaugeCoversOpen
PROPERTIES ChangesDelivered
CHECK_DEADLOCK FALSE
