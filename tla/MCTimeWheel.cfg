SPECIFICATION WheelSpec
CONSTANTS
    Connections = {c1, c2}
    MaxBuckets = 4
INVARIANTS
    IndexNamesBucket
PROPERTIES
    CountdownSpec
CHECK_DEADLOCK FALSE
