SPECIFICATION Spec
CONSTANTS
    Handlers = {h1, h2, h3}
    MaxFd = 3
    ChannelsSize = 1
    ActiveSize = 3
    None = none
SYMMETRY HandlerSymmetry
INVARIANTS
    KernelPointsToLive
    WatchedOrRefused
    OverflowExplained
CHECK_DEADLOCK FALSE
