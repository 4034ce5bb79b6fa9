SPECIFICATION Spec
CONSTANTS
    MaxCalls = 2
    MaxTimeouts = 1
    MaxCrashes = 0
    MaxSignals = 0
    Format = "nda"
    Merkle = TRUE
INVARIANT StaleResponseDetected
CHECK_DEADLOCK FALSE
