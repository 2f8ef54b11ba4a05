SPECIFICATION Spec
CONSTANTS
    b1 = b1
    b2 = b2
    u = u
    v = v
    e1 = e1
    e2 = e2
    e3 = e3
    NoVertex = NoVertex
    Backend = {b1, b2}
    Vertex = {u, v}
    Edge = {e1, e2}
    Source <- AllFromU
    Target <- AllToV
    IdOf <- OneLabel
    MaxXid = 4
    OneCall = TRUE
    AnyId = FALSE
    Rollback = FALSE
CHECK_DEADLOCK FALSE
INVARIANT
    NothingLost
