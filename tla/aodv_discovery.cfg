SPECIFICATION FairSpec
CONSTANTS
    a = a
    b = b
    c = c
    d = d
    Node = {a, b, c, d}
    None = None
    TTL_START = 2
    TTL_INCREMENT = 2
    TTL_THRESHOLD = 2
    NET_DIAMETER = 4
    RREQ_RETRIES = 2
    LOCAL_ADD_TTL = 1
    MAX_REPAIR_TTL = 1
    MAXTTL = 255
    MAX_QUEUE_LENGTH = 2
    Feedback = {FALSE}
    Topologies <- Rings
    Flows <- Twoaway
    DataTTL = 4
    Limit <- NoFault
PROPERTIES SearchEnds DataArrives
CHECK_DEADLOCK FALSE
