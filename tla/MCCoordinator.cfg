CONSTANTS
    a = a
    b = b
    Freq = {1, 2}
    Node = {a, b}
    Link <- SomeLinks
    Value = {0, 1}
    Setting <- SomeSettings
    Deviation = {3}
    Torn = torn
    Position = {p1, p2}
    NoLocation = nowhere
    MaxCmd = 2
    MaxInput = 5
SPECIFICATION FairSpec
INVARIANTS
    LinksAgree
    LossAsAsked

    
CHECK_DEADLOCK FALSE
