SPECIFICATION FairSpec
CONSTANTS
    c1 = c1  c2 = c2
    Clients = {c1, c2}
    InDev = {c2}
    a1 = a1  Aliases = {a1}
    Nobody = Nobody
    NULL = NULL
    MaxTries = 2
INVARIANTS TypeOK OneHandler ZeroMeansDone
PROPERTIES ImplementsAtomic EveryCommandEnds LockComesBack
CHECK_DEADLOCK FALSE
