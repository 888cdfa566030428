SPECIFICATION Spec
CONSTANTS
    NumPids = 4
    NumTerminals = 2
    SchedTicks = 1
    MaxNest = 3
    Windows <- SafeWindows
INVARIANTS
    TypeOK ControlKept ContextCoherent SavedContextOwn ParentWaits
    TerminalHeldByLeaf NoLostProcess ReservedOnce
PROPERTIES PidLifecycle JobsAsStacks
