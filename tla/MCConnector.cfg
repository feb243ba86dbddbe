SPECIFICATION Spec
CONSTANTS
    MaxFunctors = 2
    MaxFd = 3
INVARIANTS
    NeverStranded
    RemovedIsQuiet
    ConnectedOnce
    StaleKeyExplained
CHECK_DEADLOCK FALSE
