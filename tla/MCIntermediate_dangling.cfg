CONSTANTS
    a = a
    b = b
    t1 = t1
    t2 = t2
    none = none
    slow = slow
    fast = fast
    Node = {a, b}
    Sandbox = {}
    Thread = {t1}
    NoThread = none
    Rate = {slow}
    MaxCalls = 4
SPECIFICATION Spec
INVARIANTS
    ChannelsAlive
CHECK_DEADLOCK FALSE
