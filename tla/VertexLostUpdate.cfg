SPECIFICATION Spec
CONSTANTS
    b1 = b1
    b2 = b2
    v1 = v1
    v2 = v2
    n1 = n1
    Backend <- BothBackends
    Vertex <- OneVertex
    Annotation <- OneBit
    MaxXid = 3
    MaxTuples = 3
    MaxPushes = 1
    CallsApart = FALSE
    AnyId = FALSE
    Rollback = FALSE
CHECK_DEADLOCK FALSE
INVARIANT
    BitsetUpdatesAreKept
