SPECIFICATION Spec
CONSTANTS
    a = a
    b = b
    c = c
    d = d
    Node = {a, b, c, d}
    None = None
    TTL_START = 2
    TTL_INCREMENT = 2
    TTL_THRESHOLD = 2
    NET_DIAMETER = 3
    RREQ_RETRIES = 1
    LOCAL_ADD_TTL = 1
    MAX_REPAIR_TTL = 1
    MAXTTL = 255
    MAX_QUEUE_LENGTH = 2
    Feedback = {FALSE}
    Topologies <- Star
    Flows <- Retried
    DataTTL = 4
    Limit <- TimersAtRest
INVARIANTS LoopFree
CHECK_DEADLOCK FALSE
