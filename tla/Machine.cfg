SPECIFICATION Spec
CONSTANTS
    Loads <- MCLoads
    NumTerminals = 3
    MaxNest = 1
    MaxKeys = 3
INVARIANTS BootedRight NothingLost
PROPERTY InterruptsServed
CHECK_DEADLOCK FALSE
