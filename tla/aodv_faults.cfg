SPECIFICATION Spec
CONSTANTS
    a = a
    b = b
    c = c
    d = d
    Node = {a, b, c}
    None = None
    TTL_START = 2
    TTL_INCREMENT = 2
    TTL_THRESHOLD = 2
    NET_DIAMETER = 3
    RREQ_RETRIES = 1
    LOCAL_ADD_TTL = 1
    MAX_REPAIR_TTL = 1
    MAXTTL = 255
    MAX_QUEUE_LENGTH = 1
    Feedback = {FALSE, TRUE}
    Topologies <- Lines3
    Flows <- Twice
    DataTTL = 4
    Limit <- TwoFaults
INVARIANTS TypeOK KernelFollowsTable QueuedMeansSeeking SeekingMeansNoRoute RepairMeansInvalid
PROPERTIES OwnSeqnoAdvances
CHECK_DEADLOCK FALSE
