SPECIFICATION FairSpec
CONSTANTS
    NumPids = 3
    NumTerminals = 3
    SchedTicks = 2
    MaxNest = 2
    Windows <- TickWindow
PROPERTIES SuspendedRuns TerminalGetsShell ShellReopens
