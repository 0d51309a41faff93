CONSTANTS
    b1 = b1
    b2 = b2
    b3 = b3
    none = none
    Buffer = {b1, b2}
    NoBuffer = none
    QUEUE_CAP = 2
    MaxAttach = 2
SPECIFICATION WorkerSpec
SYMMETRY BufferPerms
INVARIANT
    CallbackSafe
CHECK_DEADLOCK FALSE
