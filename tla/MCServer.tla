------------------------------ MODULE MCServer ------------------------------
\* Small instances of Server.
EXTENDS Server

CONSTANTS s1, s2, u1, u2, f, g, n1, n2

\* A new file, one from before the synchronisation columns, and an older one
\* without collections.
Schemas ==
    LET Bare(ts) == {<<t, "id">> : t \in ts}
        All == {Tables[i] : i \in 1..6}
    IN  {{}, Bare(All), Bare(All \ {"collections"})}

HostOf(u) == IF u = u1 THEN s1 ELSE s2
=============================================================================
