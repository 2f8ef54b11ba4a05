SPECIFICATION Spec
CONSTANTS
    Id = {1, 158, 315}
    PerPage <- VertexInline
    HeadPerPage <- VertexComputed
    Capacity <- VertexCapacity
CHECK_DEADLOCK FALSE
PROPERTY
    OthersUntouched
