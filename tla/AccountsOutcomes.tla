--------------------------- MODULE AccountsOutcomes ---------------------------
(***************************************************************************)
(* Accounts with, for each request under way, the answers it could have    *)
(* been given by an implementation that did all its work at one instant,   *)
(* one answer per instant since it arrived.                                *)
(***************************************************************************)
EXTENDS Accounts

VARIABLE moments

ovars == <<vars, moments>>

\* The answer of an atomic implementation to a complete request.
AtomicAnswer(r) ==
    CASE r.op = "register" -> IF r.name \in Known THEN "conflict" ELSE "ok"
      [] r.op \in {"signin", "change"} ->
            IF Holds(r.name, r.password) THEN "ok" ELSE "invalid_credentials"
      [] r.op = "none" -> "none"

OInit == Init /\ moments = [p \in Requests |-> {}]

ONext ==
    /\ Next
    /\ moments' = [p \in Requests |->
          IF pc'[p] = "idle" THEN {}
          ELSE moments[p] \cup {AtomicAnswer(req'[p])}]

OSpec == OInit /\ [][ONext]_ovars

-----------------------------------------------------------------------------
(***************************************************************************)
(* A request that is two statements, with the hashing of bcrypt between    *)
(* them, is answered as at one instant of its life: credentials that are   *)
(* accepted were right then, those refused were wrong, a name reported as  *)
(* taken was taken.                                                        *)
(***************************************************************************)
AnswersAreDue ==
    \A p \in Requests :
        /\ reply[p] \in {"ok", "conflict", "invalid_credentials"}
        /\ ~Incomplete(req[p])
        => reply[p] \in moments[p]

(***************************************************************************)
(* An account keeps its name, and its password only ever becomes what a    *)
(* change request of that account asks for, one that knew the password     *)
(* the account had at some instant since the request arrived.  (Not the    *)
(* one it has now: of two changes that verified the same password both go  *)
(* through, and the later one wins.)                                       *)
(***************************************************************************)
PasswordsChangeByProof ==
    [][\A u \in users : u \in users' \/
          \E p \in Requests :
              /\ pc[p] = "UpdatePassword"
              /\ req[p].name = u.name
              /\ [name |-> u.name, password |-> req[p].new] \in users'
              /\ "ok" \in moments[p]]_ovars
=============================================================================
