SPECIFICATION FairSpec
CONSTANTS
    BlockSize = 3
    DataBlocks <- TwoBlocks
    MaxLength = 10
    ReadSizes <- Sizes
INVARIANTS
    ReadsInOrder
PROPERTIES
    LoadsWhole
CHECK_DEADLOCK FALSE
