SPECIFICATION Spec
CONSTANTS
    b1 = b1
    b2 = b2
    v1 = v1
    v2 = v2
    e1 = e1
    e2 = e2
    e3 = e3
    Backend = {b1, b2}
    Vertex = {v1}
    Entry = {e1, e2}
    OwnerOf <- OneOwner
    PerBlock = 1
    MaxXid = 3
    MaxTables = 3
CHECK_DEADLOCK FALSE
SYMMETRY Interchangeable
INVARIANTS
    TypeOK
    BlocksLeadDown
    OneActive
    EachOnce
    CompactionIsSafe
