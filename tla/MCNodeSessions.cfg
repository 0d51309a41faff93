CONSTANTS
    a = a
    b = b
    none = none
    k1 = k1
    k2 = k2
    Client = {a, b}
    NoClient = none
    Key = {k1, k2}
    Request <- Requests
    MaxSend = 2
SPECIFICATION FairSpec
INVARIANTS
    AddressKept
    OneHandlerPerNode
    StoppedQuiet
PROPERTIES
    RequestsAnswered
    StoppedEnds
    VehicleSettles
CHECK_DEADLOCK FALSE
