---------------------------- MODULE MCSyncedTable ----------------------------
\* Small instances of SyncedTable.
EXTENDS SyncedTable, TLC

CONSTANTS alice, bob, i1, i2, a, b, p1, p2, p3

AllOps == {"create", "update", "delete", "get", "list"}

NoLegacy == {}

\* A database of before the synchronisation columns: one row, revision 0.
OneLegacy ==
    {[id |-> i1, owner |-> alice, content |-> a, rev |-> 0, deleted |-> FALSE]}

RequestSymmetry == Permutations(Requests)
=============================================================================
