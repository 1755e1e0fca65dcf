\* A delete that expects no revision races the create of its row.
SPECIFICATION Spec
CONSTANTS
    alice = alice
    bob = bob
    i1 = i1
    i2 = i2
    a = a
    b = b
    p1 = p1
    p2 = p2
    p3 = p3
    None = None
    Malformed = Malformed
    Owners = {alice}
    Ids = {i1}
    Contents = {a}
    Requests = {p1, p2}
    Ops = {"create", "delete"}
    Legacy <- NoLegacy
    MaxRev = 3
    MaxFaults = 0
INVARIANT
    NoConflictWithoutExpectation
CHECK_DEADLOCK FALSE
