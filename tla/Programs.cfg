SPECIFICATION Spec
CONSTANTS
    Chars <- MCChars
    NameLen = 3
    RtcName <- MCRtc
    Images <- MCImages
    Lines <- MCLines
    Leftovers <- MCLeftovers
    Junk <- MCJunk
    ShellName <- MCShell
    NumPids = 3
    DirSize = 11
    BufSize = 3
    NumFds = 4
INVARIANTS BuffersHold StartedAsTyped OutputAsPromised
PROPERTY PromptReturns
CHECK_DEADLOCK FALSE
