SPECIFICATION Spec
CONSTANTS
    Threads = {t1, t2}
    Names = {e1, n1}
    Builtin = {}
    EngineTools = {e1}
    Engines = {"up", "down"}
    MaxFrames = 1
    MaxOps = 4
INVARIANTS ListsCurrent
CHECK_DEADLOCK FALSE
