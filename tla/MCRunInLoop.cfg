SPECIFICATION FairSpec
CONSTANTS
    Producers = {p1}
    Runners = {r1, r2}
    MaxPosts = 2
    MaxThrows = 1
INVARIANTS
    TypeOK
    OneLoopThread
    PostOrderKept
    NothingLost
    DroppedNeverRuns
PROPERTIES
    QueueSpec
    LoopPostsRun
CHECK_DEADLOCK FALSE
