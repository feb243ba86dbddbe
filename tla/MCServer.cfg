SPECIFICATION FairSpec
CONSTANTS
    MaxLoops = 2
    MaxAcceptors = 2
    MaxFunctors = 2
    Clients = {c1}
INVARIANTS
    StopReachesAcceptor
PROPERTIES
    ClientsServed
CHECK_DEADLOCK FALSE
