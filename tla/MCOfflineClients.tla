-------------------------- MODULE MCOfflineClients --------------------------
\* Small instances of OfflineClients.
EXTENDS OfflineClients, TLC

CONSTANTS alice, bob, i1, i2, a, b, d1, d2

\* A database of before the synchronisation columns: one row, revision 0.
OneLegacy ==
    {[id |-> i1, owner |-> alice, content |-> a, rev |-> 0, deleted |-> FALSE]}

\* Every device is the same person's.
OfAlice(d) == alice
=============================================================================
