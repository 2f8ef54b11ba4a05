SPECIFICATION Spec
CONSTANTS
    b1 = b1
    b2 = b2
    n1 = n1
    n2 = n2
    Own = Own
    s1 = s1
    s2 = s2
    Slot = {s1, s2}
    public = public
    other = other
    Backend = {b1, b2}
    Name = {n1, n2}
    Namespace = {Own, public, other}
    MaxGraphs = 2
    MaxLabels = 2
    MaxXid = 4
    MaxCalls = 3
SYMMETRY Interchangeable
CHECK_DEADLOCK FALSE
INVARIANTS
    RelationsFollowGraph
    CopiesWereWritten
