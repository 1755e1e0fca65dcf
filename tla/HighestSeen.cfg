\* A device that takes "the highest revision they have already seen" at its
\* word, among other clients of the same account.
SPECIFICATION SeenSpec
CONSTANTS
    alice = alice
    bob = bob
    i1 = i1
    i2 = i2
    a = a
    b = b
    d1 = d1
    d2 = d2
    None = None
    Owners = {alice}
    Ids = {i1, i2}
    Contents = {a}
    Legacy = {}
    MaxRev = 3
    Devices = {d1}
    Account <- OfAlice
    MaxEdits = 2
    MaxPulls = 2
INVARIANT
    PassedRowsAreHeld
