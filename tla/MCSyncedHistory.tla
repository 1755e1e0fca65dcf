--------------------------- MODULE MCSyncedHistory ---------------------------
\* Small instances of SyncedHistory.
EXTENDS SyncedHistory, TLC

CONSTANTS alice, bob, i1, i2, a, b, p1, p2, p3

AllOps == {"create", "update", "delete", "get", "list"}

NoLegacy == {}

\* No row is there before the requests: owners, ids and contents are alike.
Symmetry ==
    Permutations(Requests) \cup Permutations(Owners) \cup Permutations(Ids)
        \cup Permutations(Contents)
=============================================================================
