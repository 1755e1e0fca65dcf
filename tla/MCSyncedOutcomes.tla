--------------------------- MODULE MCSyncedOutcomes --------------------------
\* Small instances of SyncedOutcomes.
EXTENDS SyncedOutcomes, TLC

CONSTANTS alice, bob, i1, i2, a, b, p1, p2, p3

AllOps == {"create", "update", "delete", "get", "list"}

NoLegacy == {}

OneLegacy ==
    {[id |-> i1, owner |-> alice, content |-> a, rev |-> 0, deleted |-> FALSE]}

RequestSymmetry == Permutations(Requests)
=============================================================================
