SPECIFICATION Spec
CONSTANTS
    MaxData = 1
    MaxFunctors = 1
    Timeout = 1
PROPERTY
    WrittenOut
CHECK_DEADLOCK FALSE
