\* One owner, one id, three requests in each others way.
SPECIFICATION OSpec
CONSTANTS
    alice = alice
    bob = bob
    i1 = i1
    i2 = i2
    a = a
    b = b
    p1 = p1
    p2 = p2
    p3 = p3
    None = None
    Malformed = Malformed
    Owners = {alice}
    Ids = {i1}
    Contents = {a}
    Requests = {p1, p2, p3}
    Ops = {"create", "update", "delete"}
    Legacy <- NoLegacy
    MaxRev = 4
    MaxFaults = 0
SYMMETRY RequestSymmetry
INVARIANTS
    RefusalsAreDue
\* MaxRev bounds the writes, and this instance has no other operation.
CHECK_DEADLOCK FALSE
