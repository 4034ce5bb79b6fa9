SPECIFICATION FairSpec
CONSTANTS
    MaxCalls = 3
    MaxTimeouts = 0
    MaxCrashes = 0
    MaxSignals = 0
    Format = "nda"
    Merkle = TRUE
PROPERTY CallsReturn
CHECK_DEADLOCK FALSE
