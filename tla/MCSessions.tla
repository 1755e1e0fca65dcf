----------------------------- MODULE MCSessions -----------------------------
\* Small instances of Sessions.
EXTENDS Sessions, TLC, FiniteSets

CONSTANTS t1, t2, t3, u1, p1, p2

AllOps == {"refresh", "signout", "signin"}

RequestSymmetry == Permutations(Requests) \cup Permutations(Tokens)
=============================================================================
