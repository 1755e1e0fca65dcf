---------------------------- MODULE MCCollections ----------------------------
\* Small instances of Collections.
EXTENDS Collections

CONSTANTS alice, bob, i1, i2, b1, b2, p1, p2, m1, m2

AllOps == {"create", "update", "delete", "get", "list"}

NoLegacy == {}

\* A membership list with blanks, padding, a duplicate, and an order.
Item(i, padded) == [id |-> i, padded |-> padded]

SomeLists ==
    {<<Item(b1, TRUE), Item(None, FALSE), Item(b2, FALSE), Item(b1, FALSE)>>}
=============================================================================
