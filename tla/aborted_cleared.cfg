SPECIFICATION Spec
CONSTANTS
    Commands <- Get
    Keys = {k1, k2}
    Size = 2
    Display = {TRUE}
    Signals = {"SIGINT", "SIGTERM"}
    Mishaps = {}
INVARIANTS
    AbortedMeansCleared
CHECK_DEADLOCK FALSE
