SPECIFICATION Spec
CONSTANTS
    b1 = b1
    b2 = b2
    l1 = l1
    Backend = {b1, b2}
    Label = {l1}
    MaxXid = 3
    MaxRows = 2
    MaxCid = 1
    Isolated = TRUE
    Rollback = TRUE
CHECK_DEADLOCK FALSE
SYMMETRY Interchangeable
INVARIANTS
    TypeOK
    ScansMatchMVCC
    NoTwinRows
    CommittedIsIndexed
PROPERTIES
    ScanIsStable
