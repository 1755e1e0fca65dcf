------------------------------ MODULE Sessions ------------------------------
(***************************************************************************)
(* The access tokens that go with the refresh tokens.  They are signed     *)
(* (JWTIssuer) and not stored: the middleware accepts one because its      *)
(* signature is right and its time has not come, whatever happened to the  *)
(* session meanwhile.  The history variables remember which access tokens  *)
(* clients were given and when each refresh token left the table.          *)
(***************************************************************************)
EXTENDS RefreshHistory

CONSTANT AccessTTL   \* lifetime of an access token

ASSUME AccessTTLAssumption == AccessTTL \in Nat

VARIABLES
    granted,    \* access tokens in answers, with the refresh token beside them
    ended       \* refresh tokens that left the table, and when

svars == <<hvars, granted, ended>>

-----------------------------------------------------------------------------
\* Mutant: the claims have no exp, or nobody looks at it.
AcceptsForever(g) == TRUE

\* authenticate: Parse checks the signature and now < exp, and nothing else.
Accepts(g) == now < g.expires

\* The request that is given a token pair in this step.
Given == {p \in Requests : reply'[p].token # None /\ reply[p].token = None}

\* Refresh signs after Rotate has committed; issueTokens signs first, when it
\* also computes the expiry of the refresh token that Issue then stores.
SignedAt(p) == IF req[p].op = "refresh" THEN now ELSE tx[p].expires - TTL

SInit == HInit /\ granted = {} /\ ended = {}

SNext ==
    /\ HNext
    /\ granted' = granted \cup
          {[token |-> reply'[p].token, expires |-> SignedAt(p) + AccessTTL] :
              p \in Given}
    /\ ended' = ended \cup {[token |-> s.token, at |-> now] : s \in tokens \ tokens'}

SSpec == SInit /\ [][SNext]_svars

SFairSpec == SSpec /\ Fairness

-----------------------------------------------------------------------------
(***************************************************************************)
(* How long a session outlives its end: an access token that the           *)
(* middleware accepts belongs to a session whose refresh token is in the   *)
(* table, or left it, by sign-out or exchange, less than one access-token  *)
(* lifetime ago, even when requests were slow between reading the clock,   *)
(* signing, storing and answering.                                         *)
(***************************************************************************)
AccessEndsWithSession ==
    \A g \in granted : Accepts(g) =>
        \/ \E s \in tokens : s.token = g.token
        \/ \E e \in ended : e.token = g.token /\ now < e.at + AccessTTL
=============================================================================
