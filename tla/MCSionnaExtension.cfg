SPECIFICATION FairSpec
CONSTANTS
    NumNodes = 2
    Position = {p, q}
    NoPosition = NoPosition
    MaxInput = 6
    MaxFault = 2
INVARIANTS
    
    BypassHasTaps
    StoppedUnmarked
PROPERTIES
    StopReturns
    PositionsReach
CHECK_DEADLOCK FALSE
