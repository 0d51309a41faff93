CONSTANTS
    b1 = b1
    b2 = b2
    b3 = b3
    none = none
    Buffer = {b1, b2, b3}
    NoBuffer = none
    QUEUE_CAP = 3
    MaxAttach = 2
SPECIFICATION WorkerFairSpec
INVARIANTS
    BuffersConserved
    LossBounded
PROPERTIES
    BurstServed
    DetachReturns
    StartEnds
CHECK_DEADLOCK FALSE
