SPECIFICATION Spec
CONSTANTS
    NumTerminals = 3
    BufferSize = 3
    IndexRange = 8
    Chars = {a, b}
    NewLine = NewLine
    Nul = Nul
    ReadSizes <- TwoSizes
    Situations <- NoSituation
    MaxTyped = 4
INVARIANTS TypeOK LineFits BufferHoldsLine
PROPERTY ReadReturnsLine
