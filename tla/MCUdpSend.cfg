CONSTANTS
    PAYLOAD_SIZE = 1448
    HEADER_SIZE = 48
    BATCH_SIZE = 4
    OTW_SIZE = 4
    SizeMod = 1048576
    Samples <- SomeSamples
    SrcChannels = {1, 2, 3, 4}
    DestChannels = {1, 2}
    Ratios <- SomeRatios
SPECIFICATION Spec
INVARIANTS
    Reassembles
    RoomDecides
CHECK_DEADLOCK FALSE
