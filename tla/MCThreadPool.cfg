SPECIFICATION FairSpec
CONSTANTS
    MaxTasks = 3
    Workers = {w1, w2}
    User = user
    None = none
INVARIANTS
    WaitedTasksDone
    EachTaskOnce
PROPERTIES
    DestructorEnds
    TasksRun
CHECK_DEADLOCK FALSE
