SPECIFICATION ArraySpec
CONSTANTS
    BufferNodeSize = 2
    MaxLength = 5
    MaxNodes = 4
    MaxBytes = 8
    LengthModulus = 65536
INVARIANTS
    CountersAreExtents
    AdjustExactIff
PROPERTIES
    CopyIntact
    FifoUntilLost
    InventedExplained
CHECK_DEADLOCK FALSE
