SPECIFICATION Spec
CONSTANTS
    MsecPerSec = 3
    UnitsPerMsec = 2
    MaxClock = 20
    Never = never
INVARIANTS
    CallsAreDue
    NothingForgotten
    RefusedOnlyAtWholeSecond
    OtherIsWatched
CHECK_DEADLOCK FALSE
