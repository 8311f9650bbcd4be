SPECIFICATION FairSpec
CONSTANTS
    Router = {1, 2}
    Key = {1, 2, 3, 4, 5}
    MTU = 1
    MaxRequests = 3
    Links <- Pair
    Adjacent = FALSE
    Databases <- Apart
    Limit <- OneFault
INVARIANTS
    TimersKnown
PROPERTIES
    Converges
CHECK_DEADLOCK FALSE
