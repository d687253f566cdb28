SPECIFICATION FairSpec
CONSTANTS
    Commands <- AllCommands
    Keys = {k1, k2}
    Size = 2
    Display = {TRUE, FALSE}
    Signals = {"SIGINT", "SIGTERM"}
    Mishaps <- AllMishaps
INVARIANTS
    TypeOK
    EchoRestored
    ReturnsClean
    FreesAreLive
    SeenIsNotUsed
    SetAsTyped
    ZeroMeansTyped
    DrainClears
PROPERTIES
    CalloutExits
CHECK_DEADLOCK FALSE
