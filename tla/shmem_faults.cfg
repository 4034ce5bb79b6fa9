SPECIFICATION Spec
CONSTANTS
    MaxCalls = 3
    MaxTimeouts = 2
    MaxCrashes = 1
    MaxSignals = 1
    Format = "json"
    Merkle = TRUE
INVARIANTS OutputExclusive ExactUntilTimeout JsonAnswerOwnUnlessTorn
CHECK_DEADLOCK FALSE
