SPECIFICATION FairSpec
CONSTANTS
    Loops = {l1, l2}
    MaxHandlers = 2
    MaxCalls = 3
    MaxSends = 2
    None = none
INVARIANTS
    HandoverKeepsWatch
    MaskLagsOnlyThread
PROPERTIES
    Answered
CHECK_DEADLOCK FALSE
