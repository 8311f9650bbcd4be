SPECIFICATION Spec
CONSTANTS
    Router = {1, 2, 3}
    Key = {1, 2, 3}
    MTU = 3
    MaxRequests = 6
    Links <- Line
    Adjacent = TRUE
    Databases <- Together
    Limit <- TwoFaults
INVARIANTS
    TypeOK
    OwnLSACurrent
    InstancesAgree
    KeptUntilHeld
PROPERTIES
    InstancesAdvance
CHECK_DEADLOCK FALSE
