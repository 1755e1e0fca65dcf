\* One device of alice's among other clients; two ids, one row from before the
\* revisions.
SPECIFICATION DSpec
CONSTANTS
    alice = alice
    bob = bob
    i1 = i1
    i2 = i2
    a = a
    b = b
    d1 = d1
    d2 = d2
    None = None
    Owners = {alice, bob}
    Ids = {i1, i2}
    Contents = {a}
    Legacy <- OneLegacy
    MaxRev = 3
    Devices = {d1}
    Account <- OfAlice
    MaxEdits = 2
    MaxPulls = 2
INVARIANTS
    TypeOK
    RevisionsIdentifyVersions
    DeltaComplete
    OnePullBehind
    AppliedOnce
    AppliedToWhatWasSeen
