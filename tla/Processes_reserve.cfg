SPECIFICATION Spec
CONSTANTS
    NumPids = 3
    NumTerminals = 2
    SchedTicks = 1
    MaxNest = 2
    Windows <- ReserveWindow
PROPERTY PidLifecycle
CHECK_DEADLOCK FALSE
