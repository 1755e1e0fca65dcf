--------------------------- MODULE RefreshHistory ---------------------------
(***************************************************************************)
(* RefreshRotation with the exchanges that committed, as a history         *)
(* variable: the table forgets a token when it is exchanged, and what      *)
(* single use means is about the tokens it forgot.                         *)
(***************************************************************************)
EXTENDS RefreshRotation

VARIABLE rotations

hvars == <<vars, rotations>>

\* What the request that commits in this step exchanges.
Exchanged ==
    {[from |-> tx[p].from, to |-> Successor(p)] :
        p \in {q \in Requests : pc[q] = "commit" /\ pc'[q] = "sign"}}

HInit == Init /\ rotations = {}

HNext == Next /\ rotations' = rotations \cup Exchanged

HSpec == HInit /\ [][HNext]_hvars

Store == INSTANCE TokenStore WITH active <- tokens

-----------------------------------------------------------------------------
(***************************************************************************)
(* The transaction behind Rotate is atomic: many requests' lookups,        *)
(* deletes, inserts and commits amount to a sequence of issues, exchanges  *)
(* and withdrawals, each at one instant.                                   *)
(***************************************************************************)
ImplementsStore == Store!Spec

(***************************************************************************)
(* "Refresh tokens are single-use": of any number of refreshes presenting  *)
(* one token, at most one is answered with a successor, and that one stays *)
(* in the account.                                                         *)
(***************************************************************************)
SingleUse == Store!SingleUse

(***************************************************************************)
(* A token that left the table, exchanged or signed out, never comes back, *)
(* whatever fails and rolls back in between.                               *)
(***************************************************************************)
GoneIsGone == Store!GoneIsGone

(***************************************************************************)
(* A session is never revived: the successor expires at most one lifetime  *)
(* after its predecessor did, since Rotate looks at the clock after it     *)
(* computed the new expiry, while it holds the row.                        *)
(***************************************************************************)
ExpiryChains ==
    \A r \in rotations : r.to.expires <= r.from.expires + TTL
=============================================================================
