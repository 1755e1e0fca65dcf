\* SQLite locking, every operation, one failure, tokens that expire at once or at
\* the next instant, access tokens that live one instant longer.
SPECIFICATION SFairSpec
CONSTANTS
    t1 = t1
    t2 = t2
    t3 = t3
    u1 = u1
    p1 = p1
    p2 = p2
    None = None
    Unknown = Unknown
    Tokens = {t1, t2, t3}
    Users = {u1}
    Requests = {p1, p2}
    Ops <- AllOps
    TTL = 0
    MaxTime = 1
    MaxFaults = 1
    AccessTTL = 1
    SharedBlocksCommit = TRUE
INVARIANTS
    TypeOK
    RepliedTokenIsStored
    ExpiryChains
    AccessEndsWithSession
PROPERTIES
    ImplementsStore
    GoneIsGone
    Answered
