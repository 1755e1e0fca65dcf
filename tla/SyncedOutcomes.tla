---------------------------- MODULE SyncedOutcomes ----------------------------
(***************************************************************************)
(* SyncedTable with, for each request under way, the answers it could have *)
(* been given by an implementation that did all its work at one instant,   *)
(* one answer per instant since it arrived.  A request that is several     *)
(* statements is as good as an atomic one when the answer it gives is one  *)
(* of these.                                                               *)
(***************************************************************************)
EXTENDS SyncedTable

VARIABLE moments

ovars == <<vars, moments>>

\* The answer of an atomic implementation: one that looks at the table once.
AtomicAnswer(r) ==
    CASE r.op = "none" -> "none"
      [] r.op # "none" /\ Rejected(r) -> "bad_request"
      [] r.op = "create" /\ ~Rejected(r) ->
            IF \E x \in rows : x.id = r.id THEN "conflict" ELSE "ok"
      [] r.op = "list" /\ ~Rejected(r) -> "ok"
      [] r.op \in {"get", "update", "delete"} /\ ~Rejected(r) ->
            LET owned == {x \in rows : x.id = r.id /\ x.owner = r.owner /\ ~x.deleted}
                fits == {x \in owned : ExpectedRev(r.header) \in {0, x.rev}}
            IN  IF owned = {} THEN "not_found"
                ELSE IF fits = {} THEN "conflict" ELSE "ok"

OInit == Init /\ moments = [p \in Requests |-> {}]

ONext ==
    /\ Next
    /\ moments' = [p \in Requests |->
          IF pc'[p] = "idle" THEN {}
          ELSE moments[p] \cup {AtomicAnswer(req'[p])}]

OSpec == OInit /\ [][ONext]_ovars

-----------------------------------------------------------------------------
(***************************************************************************)
(* GetOwned, the guarded statement and writeMiss look at the table at      *)
(* three different moments.  Still, a refusal is one that was due at some  *)
(* instant while the request was under way.  The conflict of a delete is   *)
(* excepted: see NoConflictWithoutExpectation.                             *)
(***************************************************************************)
RefusalsAreDue ==
    \A p \in Requests :
        /\ reply[p].status \in {"conflict", "not_found"}
        /\ ~(req[p].op = "delete" /\ reply[p].status = "conflict")
        => reply[p].status \in moments[p]
=============================================================================
