------------------------------ MODULE TokenStore ------------------------------
(***************************************************************************)
(* What the refresh-token repository promises: opaque tokens that are      *)
(* stored, exchanged once for a successor, or withdrawn, each at one       *)
(* instant.  RefreshHistory shows that the SQL transaction behind Rotate,  *)
(* run by many requests over a locking database, implements it.            *)
(***************************************************************************)
CONSTANTS
    Tokens,     \* values of NewID; none is generated twice
    Users,
    Times       \* expiry times

Stored == [token : Tokens, user : Users, expires : Times]

VARIABLES
    active,     \* the table: what can still be exchanged
    issued,     \* everything the table ever held
    rotations   \* [from, to] for every exchange

vars == <<active, issued, rotations>>

Fresh(t) == \A s \in issued : s.token # t

Init == active = {} /\ issued = {} /\ rotations = {}

Issue(s) ==
    /\ Fresh(s.token)
    /\ active' = active \cup {s}
    /\ issued' = issued \cup {s}
    /\ UNCHANGED rotations

\* The old token is consumed and its successor stored in one step.
Rotate(old, new) ==
    /\ old \in active
    /\ Fresh(new.token)
    /\ new.user = old.user
    /\ active' = (active \ {old}) \cup {new}
    /\ issued' = issued \cup {new}
    /\ rotations' = rotations \cup {[from |-> old, to |-> new]}

\* Deletes the token if present; a no-op otherwise.
Revoke(t) ==
    /\ active' = {s \in active : s.token # t}
    /\ UNCHANGED <<issued, rotations>>

Next ==
    \/ \E s \in Stored : Issue(s)
    \/ \E old \in active, new \in Stored : Rotate(old, new)
    \/ \E t \in Tokens : Revoke(t)

Spec == Init /\ [][Next]_vars

-----------------------------------------------------------------------------
\* Stored tokens have the table's columns; only what was issued is active.
TypeOK ==
    /\ issued \subseteq Stored
    /\ active \subseteq issued
    /\ rotations \subseteq [from : Stored, to : Stored]

(***************************************************************************)
(* Refresh tokens are single-use: a token is exchanged at most once and    *)
(* born at most once, an exchange stays within one account, and neither a  *)
(* spent token nor a second token of the same value is ever active.        *)
(***************************************************************************)
SingleUse ==
    /\ \A r, s \in rotations : r.from = s.from \/ r.to = s.to => r = s
    /\ \A r \in rotations : r.from \notin active /\ r.from.user = r.to.user
    /\ \A r \in rotations : r.from \in issued /\ r.to \in issued
    /\ \A s, t \in issued : s.token = t.token => s = t

\* A token that left the table, spent or revoked, never comes back.
GoneIsGone == [][(issued \ active) \cap active' = {}]_vars
=============================================================================
