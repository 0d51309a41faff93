CONSTANTS
    b1 = b1
    b2 = b2
    b3 = b3
    b4 = b4
    b5 = b5
    none = none
    w1 = w1
    w2 = w2
    Buffer = {b1, b2, b3, b4, b5}
    NoBuffer = none
    Worker = {w1, w2}
    QUEUE_CAP = 3
SPECIFICATION TxFairSpec
INVARIANTS
    BuffersConserved
    QueueBounded
PROPERTY
    QueueServed
