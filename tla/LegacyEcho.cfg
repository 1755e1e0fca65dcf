\* Two clients edit a row that predates the revisions.
SPECIFICATION Spec
CONSTANTS
    alice = alice
    bob = bob
    i1 = i1
    i2 = i2
    a = a
    b = b
    p1 = p1
    p2 = p2
    p3 = p3
    None = None
    Malformed = Malformed
    Owners = {alice}
    Ids = {i1}
    Contents = {a, b}
    Requests = {p1, p2}
    Ops = {"update"}
    Legacy <- OneLegacy
    MaxRev = 3
    MaxFaults = 0
PROPERTY
    MismatchIsConflict
CHECK_DEADLOCK FALSE
