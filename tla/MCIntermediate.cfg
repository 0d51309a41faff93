CONSTANTS
    a = a
    b = b
    t1 = t1
    t2 = t2
    none = none
    slow = slow
    fast = fast
    Node = {a, b}
    Sandbox = {a, b}
    Thread = {t1, t2}
    NoThread = none
    Rate = {slow, fast}
    MaxCalls = 4
SPECIFICATION Spec
SYMMETRY Perms
INVARIANTS
    SnapshotFresh
    DestinationsAttached
    SourcesAttached
    NoNullEndpoint
    LinksComplete
CHECK_DEADLOCK FALSE
PROPERTIES
    AtomicRead
