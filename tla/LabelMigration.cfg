SPECIFICATION Spec
CONSTANTS
    vl1 = vl1
    vl2 = vl2
    el1 = el1
    el2 = el2
    v1 = v1
    v2 = v2
    e1 = e1
    e2 = e2
    x1 = x1
    x2 = x2
    Vertex = {v1, v2}
    Edge = {e1, e2}
    VLabel = {vl1, vl2}
    ELabel = {el1, el2}
    Home = vl1
    Schema <- TwoSchemas
    MaxCalls = 3
SYMMETRY Interchangeable
CHECK_DEADLOCK FALSE
INVARIANTS
    TypeOK
    StoresAgree
    MigrationFinishes
PROPERTIES
    KeepsGraph
