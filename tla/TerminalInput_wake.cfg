SPECIFICATION FairSpec
CONSTANTS
    NumTerminals = 2
    BufferSize = 1
    IndexRange = 3
    Chars = {}
    NewLine = NewLine
    Nul = Nul
    ReadSizes <- NoBytes
    Situations <- AnySituation
    MaxTyped = 2
PROPERTY EnterEndsRead
