SPECIFICATION Spec
CONSTANTS
    Id = {1, 2, 3, 4, 5, 7}
    PerPage = 2
    HeadPerPage = 2
    Capacity = 2
CHECK_DEADLOCK FALSE
INVARIANTS
    SlotIsFound
PROPERTIES
    OthersUntouched
