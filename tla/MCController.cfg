CONSTANTS
    n1 = n1
    n2 = n2
    Node = {n1, n2}
    Freq = {10, 11, 20}
    Tuning <- SomeTunings
    MaxRequest = 3
    MaxSwitch = 1
    SandboxMode = {FALSE}
SPECIFICATION Spec
SYMMETRY NodePerms
INVARIANTS
    TunedAttached
    AttachedWhereTuned
    SourcesServed
    DatabaseAgrees
PROPERTY
    HeartbeatKept
CHECK_DEADLOCK FALSE
