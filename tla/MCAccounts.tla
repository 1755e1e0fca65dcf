------------------------------ MODULE MCAccounts ------------------------------
\* Small instances of AccountsOutcomes.
EXTENDS AccountsOutcomes, TLC

CONSTANTS alice, bob, w1, w2, w3, long, p1, p2, p3

\* The names and requests are alike, and so are the passwords that can be
\* hashed and changed.
AccountSymmetry ==
    Permutations(Names) \cup Permutations(Requests)
        \cup Permutations(Passwords \ (TooLong \cup Spaces))
=============================================================================
