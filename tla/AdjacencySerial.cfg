SPECIFICATION Spec
CONSTANTS
    b1 = b1
    b2 = b2
    u = u
    v = v
    e1 = e1
    e2 = e2
    e3 = e3
    NoVertex = NoVertex
    Backend = {b1}
    Vertex = {u, v}
    Edge = {e1, e2, e3}
    Source <- BothWaysFrom
    Target <- BothWaysTo
    IdOf <- BothWaysId
    MaxXid = 4
    OneCall = FALSE
    AnyId = FALSE
    Rollback = TRUE
CHECK_DEADLOCK FALSE
INVARIANTS
    DeletedMeansUnlinked
    DeletionAgrees
    NothingLost
