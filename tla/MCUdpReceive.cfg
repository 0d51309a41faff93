CONSTANTS
    BATCH_SIZE = 4
    Frags <- MixedBursts
    NetCap = 5
    MaxLoss = 3
    MaxReorder = 2
    MaxError = 1
SPECIFICATION UdpSpec
INVARIANTS
    
    DeliveredAfterIntact
CHECK_DEADLOCK FALSE
