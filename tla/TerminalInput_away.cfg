SPECIFICATION Spec
CONSTANTS
    NumTerminals = 2
    BufferSize = 3
    IndexRange = 8
    Chars = {a, b}
    NewLine = NewLine
    Nul = Nul
    ReadSizes <- TwoSizes
    Situations <- SwitchAway
    MaxTyped = 4
PROPERTY ReadReturnsLine
