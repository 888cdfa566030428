SPECIFICATION Spec
CONSTANTS
    Width = 8
    MemSize = 11
    Memories <- MCMemories
    Calls <- MCCalls
    Formats <- MCFormats
INVARIANTS MemoryRight PrintfRight
CHECK_DEADLOCK FALSE
