\* A sign-out while somebody else refreshes.
SPECIFICATION Spec
CONSTANTS
    t1 = t1
    t2 = t2
    t3 = t3
    t4 = t4
    u1 = u1
    u2 = u2
    p1 = p1
    p2 = p2
    p3 = p3
    None = None
    Unknown = Unknown
    Tokens = {t1, t2, t3}
    Users = {u1}
    Requests = {p1, p2}
    Ops <- AllOps
    TTL = 1
    MaxTime = 0
    MaxFaults = 0
    SharedBlocksCommit = TRUE
SYMMETRY RequestSymmetry
INVARIANT
    SignOutRevokes
