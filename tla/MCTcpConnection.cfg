SPECIFICATION FairSpec
CONSTANTS
    MaxData = 1
    MaxFunctors = 1
    Timeout = 2
INVARIANTS
    OutIffWaitWriting
    NeverForgotten
    DanglingExplained
    DisconnectOnce
PROPERTIES
    StateOrder
    HalfCloseEnds
CHECK_DEADLOCK FALSE
