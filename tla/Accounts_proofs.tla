---------------------------- MODULE Accounts_proofs ----------------------------
(***************************************************************************)
(* Proofs about accounts, for any number of names, passwords and requests. *)
(***************************************************************************)
EXTENDS AccountsOutcomes, TLAPS

USE ConstantsAssumption

\* A change that is about to write verified a password that was right at one
\* of its moments, asks for one that can be hashed, and is complete; so is a
\* registration that is about to insert.
Verified ==
    \A p \in Requests :
        /\ pc[p] = "Create" =>
              req[p].name \in Names /\ req[p].password \in Passwords \ TooLong
        /\ pc[p] = "UpdatePassword" =>
              req[p].name \in Names /\ req[p].new \in Passwords \ TooLong
        /\ pc[p] \in {"PasswordHash", "UpdatePassword"} =>
              req[p].op = "change" /\ ~Incomplete(req[p])
        /\ pc[p] = "UpdatePassword" => "ok" \in moments[p]
        /\ pc[p] = "idle" <=> req[p] = NoRequest

Slots == DOMAIN req = Requests /\ DOMAIN moments = Requests

AInv == TypeOK /\ OneAccountPerName /\ Verified /\ Slots

-----------------------------------------------------------------------------
LEMMA RequestTypes ==
    ASSUME NEW r \in ClientRequests
    PROVE  /\ r.op \in {"register", "signin", "change"}
           /\ r.op = "change" => r.name \in Known
           /\ ~Incomplete(r) => r.name \in Names /\ r.password \in Passwords
           /\ ~Incomplete(r) /\ r.op = "change" => r.new \in Passwords
           /\ r # NoRequest
  BY DEF ClientRequests, Incomplete, NoRequest

\* Requests name accounts of the table, and those stay as long as names do.
LEMMA RequestsStay ==
    ASSUME Known \subseteq Known'
    PROVE  ClientRequests \subseteq ClientRequests'
  BY DEF ClientRequests

\* The table changes in two ways, and keeps all its names.
LEMMA TableStep ==
    ASSUME AInv, [ONext]_ovars
    PROVE  \/ users' = users
           \/ \E p \in Requests :
                /\ pc[p] = "Create" /\ req[p].name \notin Known
                /\ users' = users \cup
                     {[name |-> req[p].name, password |-> req[p].password]}
           \/ \E p \in Requests :
                /\ pc[p] = "UpdatePassword"
                /\ users' = {u \in users : u.name # req[p].name}
                     \cup {[name |-> req[p].name, password |-> req[p].new]}
  BY DEF ONext, Next, Serve, Receive, Create, FindByUsername, IssueTokens,
         PasswordHash, UpdatePassword, Respond, Fault, Crash, ovars, vars, stored

LEMMA NamesStay ==
    ASSUME AInv, [ONext]_ovars
    PROVE  /\ users' \subseteq [name : Names, password : Passwords \ TooLong]
           /\ Known \subseteq Known'
           /\ OneAccountPerName'
<1>1. CASE users' = users
  BY <1>1 DEF AInv, TypeOK, Known, OneAccountPerName
<1>2. ASSUME NEW p \in Requests, pc[p] = "Create", req[p].name \notin Known,
             users' = users \cup
                {[name |-> req[p].name, password |-> req[p].password]}
      PROVE  /\ users' \subseteq [name : Names, password : Passwords \ TooLong]
             /\ Known \subseteq Known'
             /\ OneAccountPerName'
  <2>1. req[p].name \in Names /\ req[p].password \in Passwords \ TooLong
    BY <1>2 DEF AInv, Verified
  <2>. QED
    BY <1>2, <2>1 DEF AInv, TypeOK, Known, OneAccountPerName
<1>3. ASSUME NEW p \in Requests, pc[p] = "UpdatePassword",
             users' = {u \in users : u.name # req[p].name}
                \cup {[name |-> req[p].name, password |-> req[p].new]}
      PROVE  /\ users' \subseteq [name : Names, password : Passwords \ TooLong]
             /\ Known \subseteq Known'
             /\ OneAccountPerName'
  <2> DEFINE new == [name |-> req[p].name, password |-> req[p].new]
  <2>1. new \in [name : Names, password : Passwords \ TooLong] /\ new.name = req[p].name
    BY <1>3 DEF AInv, Verified
  <2>2. users' = {u \in users : u.name # req[p].name} \cup {new}
    BY <1>3
  <2> HIDE DEF new
  <2>3. Known \subseteq Known'
    BY <2>1, <2>2 DEF Known
  <2>. QED
    BY <2>1, <2>2, <2>3 DEF AInv, TypeOK, OneAccountPerName
<1>. QED
  BY <1>1, <1>2, <1>3, TableStep

-----------------------------------------------------------------------------
\* One request moves on to a call or to its answer; nothing else happens.
LEMMA MoveStep ==
    ASSUME AInv, [ONext]_ovars, NEW p \in Requests, NEW call \in Calls \ {"idle"},
           pc' = [pc EXCEPT ![p] = call], pc[p] # "idle", req' = req,
           reply' \in [Requests -> Statuses], sessions' \subseteq Known',
           faults' \in 0..MaxFaults, moments' = [q \in Requests |->
              IF pc'[q] = "idle" THEN {}
              ELSE moments[q] \cup {AtomicAnswer(req'[q])}],
           call \notin {"Create", "PasswordHash"},
           call = "issueTokens" => req[p].name \in Known',
           call = "UpdatePassword" =>
              /\ pc[p] = "PasswordHash" /\ req[p].new \notin TooLong
              /\ Holds(req[p].name, req[p].password)
    PROVE  AInv'
<1>1. /\ pc' \in [Requests -> Calls] /\ pc'[p] = call
      /\ \A q \in Requests \ {p} : pc'[q] = pc[q]
  BY DEF AInv, TypeOK
<1>2. ClientRequests \subseteq ClientRequests' /\ Known \subseteq Known'
  BY NamesStay, RequestsStay
<1>3. \A q \in Requests : req[q] \in ClientRequests \cup {NoRequest}
  BY DEF AInv, TypeOK
<1>4. TypeOK'
  <2>1. \A q \in Requests : req'[q] \in ClientRequests' \cup {NoRequest}
    BY <1>2, <1>3
  <2>2. \A q \in Requests :
           pc'[q] \in {"issueTokens", "PasswordHash", "UpdatePassword"}
              => req'[q].name \in Known'
    BY <1>1, <1>2 DEF AInv, TypeOK
  <2>. QED
    BY <1>1, <2>1, <2>2, NamesStay DEF TypeOK
<1>5. Verified'
  <2>1. \A q \in Requests :
           pc'[q] = "Create" =>
              req'[q].name \in Names /\ req'[q].password \in Passwords \ TooLong
    BY <1>1 DEF AInv, Verified
  <2>2. ASSUME call = "UpdatePassword"
        PROVE  /\ req[p].name \in Names /\ req[p].new \in Passwords \ TooLong
               /\ req[p].op = "change" /\ ~Incomplete(req[p])
               /\ "ok" \in moments'[p]
    <3>1. req[p].op = "change" /\ ~Incomplete(req[p]) /\ req[p] \in ClientRequests
      BY <1>3, <2>2 DEF AInv, Verified, NoRequest
    <3>2. AtomicAnswer(req[p]) = "ok"
      BY <2>2, <3>1 DEF AtomicAnswer
    <3>. QED
      BY <1>1, <2>2, <3>1, <3>2, RequestTypes
  <2>3. \A q \in Requests \ {p} : pc'[q] = "UpdatePassword" => "ok" \in moments'[q]
    BY <1>1 DEF AInv, Verified
  <2>. QED
    BY <1>1, <2>1, <2>2, <2>3 DEF AInv, Verified, Incomplete
<1>. QED
  BY <1>4, <1>5, NamesStay DEF AInv, Slots

(***************************************************************************)
(* A password becomes only what a change of that account asks for that     *)
(* knew the password of one of its moments.                                *)
(***************************************************************************)
LEMMA ChangeStep ==
    ASSUME AInv, [ONext]_ovars
    PROVE  \A u \in users : u \in users' \/
              \E p \in Requests :
                 /\ pc[p] = "UpdatePassword"
                 /\ req[p].name = u.name
                 /\ [name |-> u.name, password |-> req[p].new] \in users'
                 /\ "ok" \in moments[p]
  BY TableStep DEF AInv, Verified
-----------------------------------------------------------------------------
LEMMA AInvInit == OInit => AInv
  BY DEF OInit, Init, AInv, TypeOK, OneAccountPerName, Verified, Slots,
         Calls, Statuses, Known, NoRequest

\* What a request says when it arrives, and what is known of it once its
\* first call is due.
LEMMA ReceiveStep ==
    ASSUME AInv, [ONext]_ovars, NEW p \in Requests, Receive(p),
           moments' = [q \in Requests |->
              IF pc'[q] = "idle" THEN {}
              ELSE moments[q] \cup {AtomicAnswer(req'[q])}]
    PROVE  AInv'
<1>1. PICK r \in ClientRequests :
         /\ req' = [req EXCEPT ![p] = r]
         /\ \/ Incomplete(r) /\ Answer(p, Complaint(r))
            \/ /\ ~Incomplete(r)
               /\ r.op = "register" /\ r.password \in TooLong
               /\ Answer(p, "server_error")
            \/ /\ ~Incomplete(r)
               /\ ~(r.op = "register" /\ r.password \in TooLong)
               /\ \E first \in FirstCalls :
                     first[1] = r.op /\ Goto(p, first[2])
               /\ UNCHANGED reply
  BY DEF Receive
<1>2. pc[p] = "idle" /\ users' = users /\ sessions' = sessions /\ faults' = faults
  BY DEF Receive, stored
<1>3. PICK call \in {"respond", "Create", "FindByUsername", "PasswordHash"} :
         /\ pc' = [pc EXCEPT ![p] = call]
         /\ call # "respond" => ~Incomplete(r)
         /\ call = "Create" => r.op = "register" /\ r.password \notin TooLong
         /\ call = "PasswordHash" => r.op = "change"
  <2>1. CASE pc' = [pc EXCEPT ![p] = "respond"]
    BY <2>1
  <2>2. CASE /\ ~Incomplete(r)
             /\ ~(r.op = "register" /\ r.password \in TooLong)
             /\ \E first \in FirstCalls :
                   first[1] = r.op /\ Goto(p, first[2])
    <3>1. PICK first \in FirstCalls : first[1] = r.op /\ Goto(p, first[2])
      BY <2>2
    <3>2. \/ first[1] = "register" /\ first[2] = "Create"
          \/ first[1] = "signin" /\ first[2] = "FindByUsername"
          \/ first[1] = "change" /\ first[2] = "PasswordHash"
      BY DEF FirstCalls
    <3>. QED
      BY <2>2, <3>1, <3>2 DEF Goto
  <2>. QED
    BY <1>1, <2>1, <2>2 DEF Answer, Goto
<1>4. reply' \in [Requests -> Statuses]
  BY <1>1 DEF AInv, TypeOK, Answer, Complaint, Statuses
<1>5. /\ pc' \in [Requests -> Calls] /\ pc'[p] = call
      /\ \A q \in Requests \ {p} : pc'[q] = pc[q]
  BY <1>3 DEF AInv, TypeOK, Calls
<1>6. Known' = Known /\ ClientRequests' = ClientRequests
  BY <1>2 DEF Known, ClientRequests
<1>7. \A q \in Requests : IF q = p THEN req'[q] = r ELSE req'[q] = req[q]
  BY <1>1 DEF AInv, Slots
<1>8. TypeOK'
  <2>1. \A q \in Requests : req'[q] \in ClientRequests' \cup {NoRequest}
    BY <1>6, <1>7 DEF AInv, TypeOK
  <2>2. \A q \in Requests :
           pc'[q] \in {"issueTokens", "PasswordHash", "UpdatePassword"}
              => req'[q].name \in Known'
    BY <1>3, <1>5, <1>6, <1>7, RequestTypes DEF AInv, TypeOK
  <2>. QED
    BY <1>2, <1>4, <1>5, <1>6, <2>1, <2>2 DEF AInv, TypeOK
<1>9. Verified'
  <2>1. ASSUME NEW q \in Requests \ {p}
        PROVE  /\ pc'[q] = pc[q] /\ req'[q] = req[q]
               /\ ("ok" \in moments[q] /\ pc[q] # "idle") => "ok" \in moments'[q]
    BY <1>5, <1>7
  <2>2. /\ pc'[p] \notin {"idle", "UpdatePassword"} /\ req'[p] = r
        /\ pc'[p] = "Create" =>
              r.name \in Names /\ r.password \in Passwords \ TooLong
        /\ pc'[p] = "PasswordHash" => r.op = "change" /\ ~Incomplete(r)
        /\ r # NoRequest
    BY <1>3, <1>5, <1>7, RequestTypes
  <2>. QED
    BY <2>1, <2>2 DEF AInv, Verified, Incomplete
<1>. QED
  BY <1>1, <1>8, <1>9, NamesStay DEF AInv, Slots

\* Requests become idle, the table is left alone: an answer that is sent, or
\* the end of the process.
LEMMA ClearStep ==
    ASSUME AInv, [ONext]_ovars, NEW gone \in SUBSET Requests,
           pc' = [q \in Requests |-> IF q \in gone THEN "idle" ELSE pc[q]],
           req' = [q \in Requests |-> IF q \in gone THEN NoRequest ELSE req[q]],
           reply' = [q \in Requests |-> IF q \in gone THEN "none" ELSE reply[q]],
           UNCHANGED stored, faults' \in 0..MaxFaults,
           moments' = [q \in Requests |->
              IF pc'[q] = "idle" THEN {}
              ELSE moments[q] \cup {AtomicAnswer(req'[q])}]
    PROVE  AInv'
<1>1. Known' = Known /\ ClientRequests' = ClientRequests
  BY DEF Known, ClientRequests, stored
<1>2. TypeOK'
  <2>1. \A q \in Requests : req'[q] \in ClientRequests' \cup {NoRequest}
    BY <1>1 DEF AInv, TypeOK
  <2>2. \A q \in Requests :
           pc'[q] \in {"issueTokens", "PasswordHash", "UpdatePassword"}
              => req'[q].name \in Known'
    BY <1>1 DEF AInv, TypeOK
  <2>3. pc' \in [Requests -> Calls] /\ reply' \in [Requests -> Statuses]
    BY DEF AInv, TypeOK, Calls, Statuses
  <2>. QED
    BY <1>1, <2>1, <2>2, <2>3 DEF AInv, TypeOK, stored
<1>3. Verified'
  <2>1. ASSUME NEW q \in Requests
        PROVE  \/ pc'[q] = "idle" /\ req'[q] = NoRequest
               \/ /\ pc'[q] = pc[q] /\ req'[q] = req[q]
                  /\ pc[q] # "idle" => moments[q] \subseteq moments'[q]
    BY DEF AInv, Verified
  <2>. QED
    BY <2>1 DEF AInv, Verified, Incomplete
<1>. QED
  BY <1>2, <1>3, NamesStay DEF AInv, Slots

LEMMA AInvStep ==
    ASSUME AInv, [ONext]_ovars
    PROVE  AInv'
<1>. SUFFICES ASSUME ONext PROVE AInv'
  <2>1. CASE UNCHANGED ovars
    BY <2>1 DEF AInv, TypeOK, OneAccountPerName, Verified, Slots, ovars, vars,
                Known, ClientRequests
  <2>. QED
    BY <2>1
<1>1. moments' = [q \in Requests |->
         IF pc'[q] = "idle" THEN {}
         ELSE moments[q] \cup {AtomicAnswer(req'[q])}]
  BY DEF ONext
<1>2. "respond" \in Calls \ {"idle"} /\ "issueTokens" \in Calls \ {"idle"}
      /\ "UpdatePassword" \in Calls \ {"idle"}
  BY DEF Calls
<1>3. reply \in [Requests -> Statuses] /\ sessions \subseteq Known'
      /\ faults \in 0..MaxFaults
  BY NamesStay DEF AInv, TypeOK
<1>4. ASSUME NEW p \in Requests, Receive(p) PROVE AInv'
  BY <1>1, <1>4, ReceiveStep
<1>5. ASSUME NEW p \in Requests, NEW status \in Statuses, Answer(p, status),
             pc[p] # "idle", req' = req, sessions' \subseteq Known',
             faults' \in 0..MaxFaults
      PROVE  AInv'
  <2>1. reply' \in [Requests -> Statuses] /\ pc' = [pc EXCEPT ![p] = "respond"]
    BY <1>3, <1>5 DEF Answer, Goto
  <2>. QED
    BY <1>1, <1>2, <1>5, <2>1, MoveStep
<1>6. ASSUME NEW p \in Requests, Create(p) PROVE AInv'
  <2>1. CASE Answer(p, "conflict")
    BY <1>3, <1>5, <1>6, <2>1 DEF Create, Statuses
  <2>2. CASE /\ req[p].name \notin Known
             /\ users' = users \cup
                  {[name |-> req[p].name, password |-> req[p].password]}
             /\ Goto(p, "issueTokens") /\ UNCHANGED reply
    <3> DEFINE new == [name |-> req[p].name, password |-> req[p].password]
    <3>1. new \in users' /\ new.name = req[p].name
      BY <2>2
    <3> HIDE DEF new
    <3>2. req[p].name \in Known'
      BY <3>1 DEF Known
    <3>. QED
      BY <1>1, <1>2, <1>3, <1>6, <2>2, <3>2, MoveStep DEF Create, Goto
  <2>. QED
    BY <1>6, <2>1, <2>2 DEF Create
<1>7. ASSUME NEW p \in Requests, FindByUsername(p) PROVE AInv'
  <2>1. CASE Holds(req[p].name, req[p].password) /\ Goto(p, "issueTokens")
             /\ UNCHANGED reply
    <3>1. req[p].name \in Known'
      BY <1>7, <2>1, NamesStay DEF Holds, Known
    <3>. QED
      BY <1>1, <1>2, <1>3, <1>7, <2>1, <3>1, MoveStep DEF FindByUsername, Goto, stored
  <2>2. CASE Answer(p, "invalid_credentials")
    BY <1>3, <1>5, <1>7, <2>2 DEF FindByUsername, Statuses, stored
  <2>. QED
    BY <1>7, <2>1, <2>2 DEF FindByUsername
<1>8. ASSUME NEW p \in Requests, IssueTokens(p) PROVE AInv'
  <2>1. sessions' \subseteq Known'
    BY <1>3, <1>8, NamesStay DEF IssueTokens, AInv, TypeOK
  <2>. QED
    BY <1>3, <1>5, <1>8, <2>1 DEF IssueTokens, Statuses
<1>9. ASSUME NEW p \in Requests, PasswordHash(p) PROVE AInv'
  <2>1. CASE Answer(p, "invalid_credentials") \/ Answer(p, "server_error")
    BY <1>3, <1>5, <1>9, <2>1 DEF PasswordHash, Statuses, stored
  <2>2. CASE /\ Holds(req[p].name, req[p].password)
             /\ req[p].new \notin TooLong
             /\ Goto(p, "UpdatePassword") /\ UNCHANGED reply
    BY <1>1, <1>2, <1>3, <1>9, <2>2, MoveStep DEF PasswordHash, Goto, stored
  <2>. QED
    BY <1>9, <2>1, <2>2 DEF PasswordHash
<1>10. ASSUME NEW p \in Requests, UpdatePassword(p) PROVE AInv'
  BY <1>3, <1>5, <1>10 DEF UpdatePassword, Statuses
<1>11. ASSUME NEW p \in Requests, Respond(p) PROVE AInv'
  <2>1. /\ pc' = [q \in Requests |-> IF q \in {p} THEN "idle" ELSE pc[q]]
        /\ req' = [q \in Requests |-> IF q \in {p} THEN NoRequest ELSE req[q]]
        /\ reply' = [q \in Requests |-> IF q \in {p} THEN "none" ELSE reply[q]]
    BY <1>11 DEF Respond, Goto, AInv, TypeOK, Slots
  <2>. QED
    BY <1>1, <1>3, <1>11, <2>1, ClearStep DEF Respond
<1>12. ASSUME NEW p \in Requests, Fault(p) PROVE AInv'
  BY <1>3, <1>5, <1>12 DEF Fault, Statuses, stored
<1>13. CASE Crash
  <2>1. /\ pc' = [q \in Requests |-> IF q \in Requests THEN "idle" ELSE pc[q]]
        /\ req' = [q \in Requests |-> IF q \in Requests THEN NoRequest ELSE req[q]]
        /\ reply' = [q \in Requests |-> IF q \in Requests THEN "none" ELSE reply[q]]
    BY <1>13 DEF Crash
  <2>2. faults' \in 0..MaxFaults
    BY <1>3, <1>13 DEF Crash
  <2>. QED
    BY <1>1, <1>13, <2>1, <2>2, ClearStep DEF Crash
<1>. QED
  BY <1>4, <1>6, <1>7, <1>8, <1>9, <1>10, <1>11, <1>12, <1>13
  DEF ONext, Next, Serve

LEMMA AInvHolds == OSpec => []AInv
  BY AInvInit, AInvStep, PTL DEF OSpec

-----------------------------------------------------------------------------
(***************************************************************************)
(* The table has complete accounts with passwords that can be hashed, and  *)
(* the account of a request that passed its first call is in it.           *)
(***************************************************************************)
THEOREM TypeCorrect == OSpec => []TypeOK
  BY AInvHolds, PTL DEF AInv

(***************************************************************************)
(* A username has one account and one password, however many requests race *)
(* for it.                                                                 *)
(***************************************************************************)
THEOREM OneAccount == OSpec => []OneAccountPerName
  BY AInvHolds, PTL DEF AInv

(***************************************************************************)
(* No account disappears or is renamed, and its password is replaced only  *)
(* by a change request that the password of some earlier instant of its    *)
(* life was given with.                                                    *)
(***************************************************************************)
THEOREM ChangesByProof == OSpec => PasswordsChangeByProof
  BY AInvHolds, ChangeStep, PTL DEF OSpec, PasswordsChangeByProof

-----------------------------------------------------------------------------
\* What makes AnswersAreDue inductive: a request that only has its tokens left
\* to get was right at one of its moments.
Due(p) ==
    /\ pc[p] # "respond" => reply[p] = "none"
    /\ pc[p] = "Create" => req[p].op = "register"
    /\ pc[p] = "FindByUsername" => req[p].op = "signin"
    /\ pc[p] = "issueTokens" => "ok" \in moments[p]
    /\ reply[p] \in {"ok", "conflict", "invalid_credentials"} /\ ~Incomplete(req[p])
          => reply[p] \in moments[p]

LEMMA AtomicAnswers ==
    ASSUME NEW r
    PROVE  /\ r.op = "register" =>
                AtomicAnswer(r) = IF r.name \in Known THEN "conflict" ELSE "ok"
           /\ r.op \in {"signin", "change"} =>
                AtomicAnswer(r) = IF Holds(r.name, r.password)
                                  THEN "ok" ELSE "invalid_credentials"
  BY DEF AtomicAnswer

LEMMA DueStep ==
    ASSUME AInv, [ONext]_ovars, NEW q \in Requests, Due(q)
    PROVE  Due(q)'
<1>0. /\ pc \in [Requests -> Calls] /\ reply \in [Requests -> Statuses]
      /\ DOMAIN req = Requests
  BY DEF AInv, TypeOK, Slots
<1>1. ASSUME ONext, pc'[q] # "idle"
      PROVE  moments'[q] = moments[q] \cup {AtomicAnswer(req'[q])}
  BY <1>1 DEF ONext
<1>2. ASSUME ONext, pc'[q] = pc[q], req'[q] = req[q], reply'[q] = reply[q]
      PROVE  Due(q)'
  <2>1. pc[q] # "idle" => moments[q] \subseteq moments'[q]
    BY <1>1, <1>2
  <2>. QED
    BY <1>2, <2>1 DEF Due, Incomplete
<1>3. ASSUME ONext, NEW status, Answer(q, status), req'[q] = req[q],
             \/ status \notin {"ok", "conflict", "invalid_credentials"}
             \/ status = AtomicAnswer(req[q])
             \/ status \in moments[q]
      PROVE  Due(q)'
  <2>1. pc'[q] = "respond" /\ reply'[q] = status
    BY <1>0, <1>3 DEF Answer, Goto
  <2>2. moments'[q] = moments[q] \cup {AtomicAnswer(req[q])}
    BY <1>1, <1>3, <2>1
  <2>. QED
    BY <1>3, <2>1, <2>2 DEF Due, Incomplete
<1>4. ASSUME ONext, NEW call, Goto(q, call), UNCHANGED reply, pc[q] # "respond",
             call \in {"issueTokens", "UpdatePassword"}, req'[q] = req[q],
             call = "issueTokens" => AtomicAnswer(req[q]) = "ok"
      PROVE  Due(q)'
  <2>1. pc'[q] = call /\ reply'[q] = "none"
    BY <1>0, <1>4 DEF Goto, Due
  <2>2. moments'[q] = moments[q] \cup {AtomicAnswer(req[q])}
    BY <1>1, <1>4, <2>1
  <2>. QED
    BY <1>4, <2>1, <2>2 DEF Due
<1>5. ASSUME ONext, Receive(q) PROVE Due(q)'
  <2>1. PICK r \in ClientRequests :
           /\ req' = [req EXCEPT ![q] = r]
           /\ \/ Incomplete(r) /\ Answer(q, Complaint(r))
              \/ Answer(q, "server_error")
              \/ /\ \E first \in FirstCalls :
                       first[1] = r.op /\ Goto(q, first[2])
                 /\ UNCHANGED reply
    BY <1>5 DEF Receive
  <2>2. req'[q] = r /\ reply[q] = "none"
    BY <1>0, <1>5, <2>1 DEF Receive, Due
  <2>3. CASE Incomplete(r) /\ Answer(q, Complaint(r))
    BY <1>0, <2>2, <2>3 DEF Answer, Goto, Due, Incomplete
  <2>4. CASE Answer(q, "server_error")
    BY <1>0, <2>2, <2>4 DEF Answer, Goto, Due
  <2>5. ASSUME NEW first \in FirstCalls, first[1] = r.op, Goto(q, first[2]),
               UNCHANGED reply
        PROVE  Due(q)'
    <3>1. \/ first[1] = "register" /\ first[2] = "Create"
          \/ first[1] = "signin" /\ first[2] = "FindByUsername"
          \/ first[1] = "change" /\ first[2] = "PasswordHash"
      BY DEF FirstCalls
    <3>2. pc'[q] = first[2] /\ reply'[q] = "none"
      BY <1>0, <2>2, <2>5 DEF Goto
    <3>. QED
      BY <2>2, <2>5, <3>1, <3>2 DEF Due
  <2>. QED
    BY <2>1, <2>3, <2>4, <2>5
<1>6. ASSUME ONext, Create(q) PROVE Due(q)'
  <2>1. req[q].op = "register" /\ req' = req /\ pc[q] # "respond"
    BY <1>6 DEF Create, Due
  <2>2. CASE req[q].name \in Known /\ Answer(q, "conflict")
    BY <1>3, <1>6, <2>1, <2>2, AtomicAnswers
  <2>3. CASE req[q].name \notin Known /\ Goto(q, "issueTokens") /\ UNCHANGED reply
    BY <1>4, <1>6, <2>1, <2>3, AtomicAnswers
  <2>. QED
    BY <1>6, <2>2, <2>3 DEF Create
<1>7. ASSUME ONext, FindByUsername(q) PROVE Due(q)'
  <2>1. req[q].op = "signin" /\ req' = req /\ pc[q] # "respond"
    BY <1>7 DEF FindByUsername, Due
  <2>2. CASE /\ Holds(req[q].name, req[q].password)
             /\ Goto(q, "issueTokens") /\ UNCHANGED reply
    BY <1>4, <1>7, <2>1, <2>2, AtomicAnswers
  <2>3. CASE /\ ~Holds(req[q].name, req[q].password)
             /\ Answer(q, "invalid_credentials")
    BY <1>3, <1>7, <2>1, <2>3, AtomicAnswers
  <2>. QED
    BY <1>7, <2>2, <2>3 DEF FindByUsername
<1>8. ASSUME ONext, IssueTokens(q) \/ UpdatePassword(q) PROVE Due(q)'
  <2>1. Answer(q, "ok") /\ req' = req /\ "ok" \in moments[q]
    BY <1>8 DEF IssueTokens, UpdatePassword, Due, AInv, Verified
  <2>. QED
    BY <1>3, <1>8, <2>1
<1>9. ASSUME ONext, PasswordHash(q) PROVE Due(q)'
  <2>1. req[q].op = "change" /\ req' = req /\ pc[q] # "respond"
    BY <1>9 DEF PasswordHash, AInv, Verified
  <2>2. CASE /\ ~Holds(req[q].name, req[q].password)
             /\ Answer(q, "invalid_credentials")
    BY <1>3, <1>9, <2>1, <2>2, AtomicAnswers
  <2>3. CASE Answer(q, "server_error")
    BY <1>3, <1>9, <2>1, <2>3
  <2>4. CASE Goto(q, "UpdatePassword") /\ UNCHANGED reply
    BY <1>4, <1>9, <2>1, <2>4
  <2>. QED
    BY <1>9, <2>2, <2>3, <2>4 DEF PasswordHash
<1>10. ASSUME ONext, Respond(q) \/ Crash PROVE Due(q)'
  <2>1. pc'[q] = "idle" /\ reply'[q] = "none"
    BY <1>0, <1>10 DEF Respond, Crash, Goto
  <2>. QED
    BY <2>1 DEF Due
<1>11. ASSUME ONext, Fault(q) PROVE Due(q)'
  BY <1>3, <1>11 DEF Fault
<1>12. ASSUME NEW p \in Requests, p # q, Receive(p) \/ Serve(p) \/ Fault(p)
       PROVE  pc'[q] = pc[q] /\ req'[q] = req[q] /\ reply'[q] = reply[q]
  BY <1>0, <1>12
  DEF Receive, Serve, Create, FindByUsername, IssueTokens, PasswordHash,
      UpdatePassword, Respond, Fault, Answer, Goto
<1>13. CASE UNCHANGED ovars
  BY <1>13 DEF ovars, vars, Due, Incomplete
<1>. QED
  BY <1>2, <1>5, <1>6, <1>7, <1>8, <1>9, <1>10, <1>11, <1>12, <1>13
  DEF ONext, Next, Serve

(***************************************************************************)
(* Every answer is one that an implementation that looks at the table once *)
(* could have given while the request was under way.                       *)
(***************************************************************************)
THEOREM AnswersCorrect == OSpec => []AnswersAreDue
<1>1. OInit => \A p \in Requests : Due(p)
  BY DEF OInit, Init, Due, NoRequest
<1>2. AInv /\ (\A p \in Requests : Due(p)) /\ [ONext]_ovars
        => (\A p \in Requests : Due(p))'
  BY DueStep
<1>3. (\A p \in Requests : Due(p)) => AnswersAreDue
  BY DEF Due, AnswersAreDue
<1>. QED
  BY <1>1, <1>2, <1>3, AInvHolds, PTL DEF OSpec
=============================================================================
