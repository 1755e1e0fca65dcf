---- MODULE MCRefreshRotation ----
\* Small instances of RefreshRotation.
EXTENDS RefreshRotation, TLC, FiniteSets
CONSTANTS t1, t2, t3, t4, u1, u2, p1, p2, p3

AllOps == {"refresh", "signout", "signin"}

TokenSymmetry == Permutations(Tokens)

RequestSymmetry == Permutations(Requests) \cup Permutations(Tokens)
====
