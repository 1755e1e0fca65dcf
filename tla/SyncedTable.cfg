\* Two owners contend for two ids with two requests of all operations, one of
\* which may fail.
SPECIFICATION HSpec
CONSTANTS
    alice = alice
    bob = bob
    i1 = i1
    i2 = i2
    a = a
    b = b
    p1 = p1
    p2 = p2
    p3 = p3
    Owners = {alice, bob}
    Ids = {i1, i2}
    Contents = {a, b}
    Requests = {p1, p2}
    Ops <- AllOps
    Legacy <- NoLegacy
    MaxRev = 3
    MaxFaults = 1
    None = None
    Malformed = Malformed
SYMMETRY Symmetry
INVARIANTS
    TypeOK
    FeedsMatchRows
    RepliesAreVersions
    KeysIdentifyRows
    TableIsNewest
    NextPullConverges
    DeltaIsSnapshot
PROPERTIES
    ImplementsFeed
    NoLostUpdate
    RowsOnlyAdvance
