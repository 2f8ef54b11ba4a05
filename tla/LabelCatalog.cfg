SPECIFICATION Spec
CONSTANTS
    Root = Root
    NoMap = NoMap
    l1 = l1
    l2 = l2
    x1 = x1
    Name = {l1, l2}
    Annotation = {x1, l1}
    GivenMap <- NoneOrOne
    MaxLabel = 4
    MaxCalls = 4
CHECK_DEADLOCK FALSE
INVARIANTS
    TypeOK
    SchemaAgrees
PROPERTIES
    BitsKeepMeaning
    RegistrationLostOnlyBy
    TargetIsExact
