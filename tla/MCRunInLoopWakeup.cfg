SPECIFICATION FairSpec
CONSTANTS
    Producers = {p1}
    Runners = {r1}
    MaxPosts = 1
    MaxThrows = 0
PROPERTIES
    PostsRun
CHECK_DEADLOCK FALSE
