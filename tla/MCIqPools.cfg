CONSTANTS
    r1 = r1
    r2 = r2
    t1 = t1
    t2 = t2
    Receiver = {r1, r2}
    Transmitter = {t1, t2}
    QUEUE_CAP = 2
    Setup <- Setups
SPECIFICATION FairSpec
INVARIANTS
    BuffersConserved
    DemandMet
PROPERTY
    BuffersReturn
CHECK_DEADLOCK FALSE
