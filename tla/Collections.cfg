\* Two owners, one id, collections and an inbox with two requests, one failure or
\* crash.
SPECIFICATION FairSpec
CONSTANTS
    alice = alice
    bob = bob
    i1 = i1
    i2 = i2
    b1 = b1
    b2 = b2
    p1 = p1
    p2 = p2
    m1 = m1
    m2 = m2
    None = None
    Malformed = Malformed
    Owners = {alice, bob}
    Ids = {i1}
    RawLists <- SomeLists
    Requests = {p1}
    Readers = {m1, m2}
    Ops <- AllOps
    Legacy <- NoLegacy
    MaxRev = 2
    MaxFaults = 1
INVARIANTS
    MembershipsNormalized
    InboxFollowsOwner
    ShownReadIsRead
    AnsweredIsRecorded
PROPERTY
    CreationRecorded
