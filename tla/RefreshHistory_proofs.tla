------------------------ MODULE RefreshHistory_proofs ------------------------
(***************************************************************************)
(* Proofs about refresh tokens and the sessions they carry.  The rotation, *)
(* as a locked transaction of several statements, implements TokenStore,   *)
(* whether or not the engine makes commits wait for readers, and so tokens *)
(* are single-use; what a client is answered is stored; a session lasts    *)
(* no longer than its tokens.                                              *)
(***************************************************************************)
EXTENDS Sessions, Integers, TLAPS

USE ConstantsAssumption

\* Between NewID and the moment the token it made is stored.
Minted(p) == pc[p] \in {"lookup", "consume", "check", "commit", "issue"}

\* Within Rotate, after its SELECT.
Looked(p) == pc[p] = "consume" \/ Writing(p)

\* What makes TypeOK and the refinement inductive.  The RESERVED lock has one
\* holder, and from its DELETE to its commit the row it read stays in the
\* table; tokens under way are fresh, and differ from one another.
IInv ==
    /\ TypeOK
    /\ \A s, t \in issued : s.token = t.token => s = t
    /\ \A p \in Requests :
          /\ Minted(p) => /\ tx[p].new \in Tokens
                          /\ \A s \in issued : s.token # tx[p].new
          /\ Looked(p) => /\ tx[p].from \in issued
                          /\ tx[p].from.token = req[p].token
          /\ Writing(p) => tx[p].from \in tokens
          /\ pc[p] = "issue" => req[p].user \in Users
          /\ pc[p] = "sign" => tx[p].new \in Tokens
    /\ \A p, q \in Requests : Minted(p) /\ p # q => tx[p].new # tx[q].new
    /\ \A p, q \in Requests : Writing(p) /\ Writing(q) => p = q

-----------------------------------------------------------------------------
LEMMA NoTxType == NoTx \in [from : {NoRow}, new : {None}, expires : Times]
  BY DEF NoTx, Times

\* A request that answers without touching the table.
LEMMA AnswerStep ==
    ASSUME IInv, NEW p \in Requests, NEW status \in Statuses,
           NEW token \in Tokens \cup {None}, Answer(p, status, token),
           UNCHANGED <<db, known, now>>, faults' \in 0..MaxFaults,
           req' \in [Requests -> [op : Ops \cup {"none"},
                                  token : Tokens \cup {None, Unknown},
                                  user : Users \cup {None}]],
           \A q \in Requests \ {p} : req'[q] = req[q]
    PROVE  IInv'
<1>1. /\ pc' \in [Requests -> Steps] /\ pc'[p] = "respond" /\ tx'[p] = NoTx
      /\ \A q \in Requests \ {p} : pc'[q] = pc[q] /\ tx'[q] = tx[q]
  BY DEF IInv, TypeOK, Answer, Goto, Steps
<1>2. TypeOK'
  <2>1. tx' \in [Requests -> [from : issued \cup {NoRow},
                              new : Tokens \cup {None}, expires : Times]]
    BY NoTxType DEF IInv, TypeOK, Answer
  <2>2. reply' \in [Requests -> [status : Statuses, token : Tokens \cup {None}]]
    BY DEF IInv, TypeOK, Answer
  <2>. QED
    BY <1>1, <2>1, <2>2 DEF IInv, TypeOK, db
<1>3. ~Minted(p)' /\ ~Looked(p)' /\ ~Writing(p)' /\ NoTx.new = None
  BY <1>1 DEF Minted, Looked, Writing, NoTx
<1>4. \A q \in Requests \ {p} :
        /\ Minted(q)' <=> Minted(q)
        /\ Looked(q)' <=> Looked(q)
        /\ Writing(q)' <=> Writing(q)
  BY <1>1 DEF Minted, Looked, Writing
<1>5. issued' = issued /\ tokens' = tokens
  BY DEF db
<1>. QED
  BY <1>1, <1>2, <1>3, <1>4, <1>5 DEF IInv

\* A request whose answer is a failure.
LEMMA FailStep ==
    ASSUME IInv, NEW p \in Requests, Fail(p), UNCHANGED <<db, known, req, now>>,
           faults' \in 0..MaxFaults
    PROVE  IInv'
<1>1. PICK status \in Statuses : Answer(p, status, None)
  BY DEF Fail, Statuses
<1>. QED
  BY <1>1, AnswerStep DEF IInv, TypeOK

\* A request that goes on within its transaction, with or without a new lock.
LEMMA MoveStep ==
    ASSUME IInv, NEW p \in Requests, NEW step \in {"consume", "check", "commit"},
           Goto(p, step), pc[p] \in {"lookup", "consume", "check"},
           UNCHANGED <<db, known, req, reply, now, faults>>,
           \A q \in Requests \ {p} : tx'[q] = tx[q],
           tx' \in [Requests -> [from : issued \cup {NoRow},
                                 new : Tokens \cup {None}, expires : Times]],
           tx'[p].new = tx[p].new,
           tx'[p].from \in issued, tx'[p].from.token = req[p].token,
           step # "consume" => tx'[p].from \in tokens /\ CanWrite(p)
    PROVE  IInv'
<1>1. /\ pc' \in [Requests -> Steps] /\ pc'[p] = step
      /\ \A q \in Requests \ {p} : pc'[q] = pc[q]
  BY DEF IInv, TypeOK, Goto, Steps
<1>2. \A q \in Requests \ {p} :
        /\ Minted(q)' <=> Minted(q)
        /\ Looked(q)' <=> Looked(q)
        /\ Writing(q)' <=> Writing(q)
  BY <1>1 DEF Minted, Looked, Writing
<1>3. Minted(p) /\ Minted(p)' /\ pc'[p] \notin {"issue", "sign"}
  BY <1>1 DEF Minted
<1>4. Writing(p)' <=> step # "consume"
  BY <1>1 DEF Writing
<1>5. issued' = issued /\ tokens' = tokens /\ req' = req
  BY DEF db
<1>6. TypeOK'
  BY <1>1, <1>5 DEF IInv, TypeOK
<1>7. \A q, r \in Requests : Writing(q)' /\ Writing(r)' => q = r
  BY <1>2, <1>4 DEF IInv, CanWrite
<1>8. \A q, r \in Requests : Minted(q)' /\ q # r => tx'[q].new # tx'[r].new
  BY <1>2, <1>3 DEF IInv
<1>. QED
  BY <1>1, <1>2, <1>3, <1>4, <1>5, <1>6, <1>7, <1>8 DEF IInv

\* A table step: rows that nobody is writing to go, one fresh row may come.
LEMMA RowsOfToken ==
    ASSUME IInv, NEW s \in tokens
    PROVE  Row(s.token) = {s}
  BY DEF IInv, TypeOK, Row

-----------------------------------------------------------------------------
LEMMA IInvStep ==
    ASSUME IInv, [Next]_vars
    PROVE  IInv'
<1>1. ASSUME NEW p \in Requests, Receive(p) PROVE IInv'
  <2>1. PICK r \in ClientRequests :
          /\ req' = [req EXCEPT ![p] = r]
          /\ \/ \E status \in {"bad_request", "ok"} : Answer(p, status, None)
             \/ /\ r.op = "signout"
                /\ Goto(p, "revoke") /\ UNCHANGED <<tx, reply>>
             \/ /\ r.op = "signin" \/ (r.op = "refresh" /\ r.token # None)
                /\ \E t \in FreshTokens :
                      tx' = [tx EXCEPT ![p] =
                                [from |-> NoRow, new |-> t, expires |-> now + TTL]]
                /\ Goto(p, IF r.op = "refresh" THEN "lookup" ELSE "issue")
                /\ UNCHANGED reply
    BY <1>1 DEF Receive
  <2>2. /\ issued' = issued /\ tokens' = tokens /\ known' = known
        /\ now' = now /\ faults' = faults /\ pc[p] = "idle"
    BY <1>1 DEF Receive, db
  <2>3. r \in [op : Ops \cup {"none"}, token : Tokens \cup {None, Unknown},
               user : Users \cup {None}]
        /\ (r.op = "signin" => r.user \in Users)
    BY DEF ClientRequests, IInv, TypeOK
  <2>4. /\ req' \in [Requests -> [op : Ops \cup {"none"},
                                  token : Tokens \cup {None, Unknown},
                                  user : Users \cup {None}]]
        /\ req'[p] = r /\ \A q \in Requests \ {p} : req'[q] = req[q]
    BY <2>1, <2>3 DEF IInv, TypeOK
  <2>5. ASSUME NEW status \in {"bad_request", "ok"}, Answer(p, status, None)
        PROVE  IInv'
    <3>1. status \in Statuses /\ None \in Tokens \cup {None}
          /\ UNCHANGED <<db, known, now>> /\ faults' \in 0..MaxFaults
      BY <2>2 DEF db, Statuses, IInv, TypeOK
    <3>. QED
      BY <2>4, <2>5, <3>1, AnswerStep
  <2>6. CASE Goto(p, "revoke") /\ UNCHANGED <<tx, reply>>
    <3>1. /\ pc' \in [Requests -> Steps] /\ pc'[p] = "revoke"
          /\ \A q \in Requests \ {p} : pc'[q] = pc[q]
      BY <2>6 DEF IInv, TypeOK, Goto, Steps
    <3>2. /\ ~Minted(p)' /\ ~Looked(p)' /\ ~Writing(p)'
          /\ \A q \in Requests \ {p} :
                /\ Minted(q)' <=> Minted(q)
                /\ Looked(q)' <=> Looked(q)
                /\ Writing(q)' <=> Writing(q)
      BY <3>1 DEF Minted, Looked, Writing
    <3>3. TypeOK'
      BY <2>2, <2>4, <2>6, <3>1 DEF IInv, TypeOK
    <3>4. \A q \in Requests :
            /\ Minted(q)' => /\ tx'[q].new \in Tokens
                             /\ \A s \in issued' : s.token # tx'[q].new
            /\ Looked(q)' => /\ tx'[q].from \in issued'
                             /\ tx'[q].from.token = req'[q].token
            /\ Writing(q)' => tx'[q].from \in tokens'
      BY <2>2, <2>4, <2>6, <3>2 DEF IInv
    <3>5. \A q \in Requests :
            /\ pc'[q] = "issue" => req'[q].user \in Users
            /\ pc'[q] = "sign" => tx'[q].new \in Tokens
      BY <2>4, <2>6, <3>1 DEF IInv
    <3>6. \A q, m \in Requests : Minted(q)' /\ q # m => tx'[q].new # tx'[m].new
      BY <2>6, <3>2 DEF IInv
    <3>7. \A q, m \in Requests : Writing(q)' /\ Writing(m)' => q = m
      BY <3>2 DEF IInv
    <3>. QED
      BY <2>2, <3>3, <3>4, <3>5, <3>6, <3>7 DEF IInv
  <2>7. ASSUME NEW t \in FreshTokens,
               r.op = "signin" \/ (r.op = "refresh" /\ r.token # None),
               tx' = [tx EXCEPT ![p] =
                        [from |-> NoRow, new |-> t, expires |-> now + TTL]],
               Goto(p, IF r.op = "refresh" THEN "lookup" ELSE "issue"),
               UNCHANGED reply
        PROVE  IInv'
    <3>1. /\ pc' \in [Requests -> Steps] /\ pc'[p] \in {"lookup", "issue"}
          /\ pc'[p] = "issue" => r.op = "signin"
          /\ \A q \in Requests \ {p} : pc'[q] = pc[q]
      BY <2>7 DEF IInv, TypeOK, Goto, Steps
    <3>2. /\ t \in Tokens /\ \A s \in issued : s.token # t
          /\ \A q \in Requests : tx[q].new # t
      BY DEF FreshTokens
    <3>3. now + TTL \in Times
      BY DEF IInv, TypeOK, Times
    <3>4. /\ tx' \in [Requests -> [from : issued \cup {NoRow},
                                   new : Tokens \cup {None}, expires : Times]]
          /\ tx'[p].new = t
          /\ \A q \in Requests \ {p} : tx'[q] = tx[q]
      BY <2>7, <3>2, <3>3 DEF IInv, TypeOK
    <3>5. TypeOK'
      BY <2>2, <2>4, <2>7, <3>1, <3>4 DEF IInv, TypeOK
    <3>6. /\ ~Looked(p)' /\ ~Writing(p)'
          /\ \A q \in Requests \ {p} :
                /\ Minted(q)' <=> Minted(q)
                /\ Looked(q)' <=> Looked(q)
                /\ Writing(q)' <=> Writing(q)
      BY <3>1 DEF Minted, Looked, Writing
    <3>7. \A q \in Requests :
            /\ Minted(q)' => /\ tx'[q].new \in Tokens
                             /\ \A s \in issued' : s.token # tx'[q].new
            /\ Looked(q)' => /\ tx'[q].from \in issued'
                             /\ tx'[q].from.token = req'[q].token
            /\ Writing(q)' => tx'[q].from \in tokens'
      BY <2>2, <2>4, <3>2, <3>4, <3>6 DEF IInv
    <3>8. \A q \in Requests :
            /\ pc'[q] = "issue" => req'[q].user \in Users
            /\ pc'[q] = "sign" => tx'[q].new \in Tokens
      BY <2>3, <2>4, <3>1, <3>4 DEF IInv
    <3>9. \A q, m \in Requests : Minted(q)' /\ q # m => tx'[q].new # tx'[m].new
      BY <3>2, <3>4, <3>6 DEF IInv
    <3>10. \A q, m \in Requests : Writing(q)' /\ Writing(m)' => q = m
      BY <3>6 DEF IInv
    <3>. QED
      BY <2>2, <3>5, <3>7, <3>8, <3>9, <3>10 DEF IInv
  <2>. QED
    BY <2>1, <2>5, <2>6, <2>7
<1>2. ASSUME NEW p \in Requests, Lookup(p) PROVE IInv'
  <2>1. /\ UNCHANGED <<db, known, req, now, faults>> /\ pc[p] = "lookup"
        /\ "unrecognized" \in Statuses
    BY <1>2 DEF Lookup, Statuses
  <2>2. CASE Answer(p, "unrecognized", None)
    BY <2>1, <2>2, AnswerStep DEF IInv, TypeOK
  <2>3. ASSUME NEW s \in Row(req[p].token), tx' = [tx EXCEPT ![p].from = s],
               Goto(p, "consume"), UNCHANGED reply
        PROVE  IInv'
    <3>1. s \in issued /\ s.token = req[p].token
      BY DEF Row, IInv, TypeOK
    <3>2. /\ tx' \in [Requests -> [from : issued \cup {NoRow},
                                   new : Tokens \cup {None}, expires : Times]]
          /\ tx'[p].from = s /\ tx'[p].new = tx[p].new
          /\ \A q \in Requests \ {p} : tx'[q] = tx[q]
      BY <2>3, <3>1 DEF IInv, TypeOK
    <3>. QED
      BY <2>1, <2>3, <3>1, <3>2, MoveStep
  <2>. QED
    BY <1>2, <2>2, <2>3 DEF Lookup
<1>3. ASSUME NEW p \in Requests, Consume(p) PROVE IInv'
  <2>1. /\ UNCHANGED <<db, known, req, now, faults>> /\ pc[p] = "consume"
        /\ CanWrite(p) /\ "unrecognized" \in Statuses
    BY <1>3 DEF Consume, Statuses
  <2>2. CASE Answer(p, "unrecognized", None)
    BY <2>1, <2>2, AnswerStep DEF IInv, TypeOK
  <2>3. CASE Row(req[p].token) # {} /\ Goto(p, "check") /\ UNCHANGED <<tx, reply>>
    <3>1. tx[p].from \in issued /\ tx[p].from.token = req[p].token
      BY <2>1 DEF IInv, Looked
    <3>2. tx[p].from \in tokens
      BY <2>3, <3>1 DEF Row, IInv, TypeOK
    <3>. QED
      BY <2>1, <2>3, <3>1, <3>2, MoveStep DEF IInv, TypeOK
  <2>. QED
    BY <1>3, <2>2, <2>3 DEF Consume
<1>4. ASSUME NEW p \in Requests, Check(p) PROVE IInv'
  <2>1. /\ UNCHANGED <<db, known, req, now, faults>> /\ pc[p] = "check"
        /\ "expired" \in Statuses /\ Writing(p) /\ Looked(p)
    BY <1>4 DEF Check, Statuses, Writing, Looked
  <2>2. CASE Answer(p, "expired", None)
    BY <2>1, <2>2, AnswerStep DEF IInv, TypeOK
  <2>3. CASE Goto(p, "commit") /\ UNCHANGED <<tx, reply>>
    <3>1. CanWrite(p)
      BY <2>1 DEF IInv, CanWrite
    <3>. QED
      BY <2>1, <2>3, <3>1, MoveStep DEF IInv, TypeOK
  <2>. QED
    BY <1>4, <2>2, <2>3 DEF Check
<1>5. ASSUME NEW p \in Requests, Commit(p) PROVE IInv'
  <2>1. /\ tokens' = (tokens \ Row(req[p].token)) \cup {Successor(p)}
        /\ issued' = issued \cup {Successor(p)}
        /\ pc[p] = "commit" /\ pc' = [pc EXCEPT ![p] = "sign"]
        /\ UNCHANGED <<known, req, tx, reply, now, faults>>
    BY <1>5 DEF Commit, Goto
  <2>2. Writing(p) /\ Looked(p) /\ Minted(p)
    BY <2>1 DEF Writing, Looked, Minted
  <2>3. Successor(p) \in Stored /\ Successor(p).token = tx[p].new
    BY <2>2 DEF IInv, TypeOK, Successor, Stored
  <2>4. /\ pc' \in [Requests -> Steps] /\ pc'[p] = "sign"
        /\ \A q \in Requests \ {p} : pc'[q] = pc[q]
    BY <2>1 DEF IInv, TypeOK, Steps
  <2>5. /\ ~Looked(p)' /\ ~Writing(p)' /\ ~Minted(p)'
        /\ \A q \in Requests \ {p} :
              /\ Minted(q)' <=> Minted(q)
              /\ Looked(q)' <=> Looked(q)
              /\ Writing(q)' <=> Writing(q)
    BY <2>4 DEF Minted, Looked, Writing
  <2>6. \A q \in Requests : ~Writing(q)'
    BY <2>2, <2>5 DEF IInv
  <2>7. TypeOK'
    BY <2>1, <2>3, <2>4 DEF IInv, TypeOK
  <2>8. \A s, t \in issued' : s.token = t.token => s = t
    BY <2>1, <2>2, <2>3 DEF IInv
  <2>9. \A q \in Requests : Minted(q)' =>
           tx'[q].new \in Tokens /\ \A s \in issued' : s.token # tx'[q].new
    BY <2>1, <2>2, <2>3, <2>5 DEF IInv
  <2>10. \A q \in Requests : Looked(q)' =>
           tx'[q].from \in issued' /\ tx'[q].from.token = req'[q].token
    BY <2>1, <2>5 DEF IInv
  <2>. QED
    BY <2>1, <2>2, <2>4, <2>5, <2>6, <2>7, <2>8, <2>9, <2>10 DEF IInv
<1>6. ASSUME NEW p \in Requests, Sign(p) PROVE IInv'
  <2>1. tx[p].new \in Tokens \cup {None} /\ "ok" \in Statuses
    BY DEF IInv, TypeOK, Statuses
  <2>. QED
    BY <1>6, <2>1, AnswerStep DEF Sign, IInv, TypeOK
<1>7. ASSUME NEW p \in Requests, Issue(p) PROVE IInv'
  <2> DEFINE new == [token |-> tx[p].new, user |-> req[p].user,
                     expires |-> tx[p].expires]
  <2>1. /\ tokens' = tokens \cup {new} /\ issued' = issued \cup {new}
        /\ pc[p] = "issue" /\ Answer(p, "ok", tx[p].new)
        /\ UNCHANGED <<known, req, now, faults>>
    BY <1>7 DEF Issue
  <2>2. Minted(p)
    BY <2>1 DEF Minted
  <2>3. new \in Stored /\ new.token = tx[p].new
    BY <2>1, <2>2 DEF IInv, TypeOK, Stored
  <2> HIDE DEF new
  <2>4. /\ pc' \in [Requests -> Steps] /\ pc'[p] = "respond" /\ tx'[p] = NoTx
        /\ \A q \in Requests \ {p} : pc'[q] = pc[q] /\ tx'[q] = tx[q]
    BY <2>1 DEF IInv, TypeOK, Answer, Goto, Steps
  <2>5. /\ ~Looked(p)' /\ ~Writing(p)' /\ ~Minted(p)' /\ NoTx.new = None
        /\ \A q \in Requests \ {p} :
              /\ Minted(q)' <=> Minted(q)
              /\ Looked(q)' <=> Looked(q)
              /\ Writing(q)' <=> Writing(q)
    BY <2>4 DEF Minted, Looked, Writing, NoTx
  <2>6. TypeOK'
    <3>1. tx' \in [Requests -> [from : issued' \cup {NoRow},
                                new : Tokens \cup {None}, expires : Times]]
      BY <2>1, NoTxType DEF IInv, TypeOK, Answer
    <3>2. reply' \in [Requests -> [status : Statuses, token : Tokens \cup {None}]]
      BY <2>1, <2>2 DEF IInv, TypeOK, Answer, Statuses
    <3>. QED
      BY <2>1, <2>3, <2>4, <3>1, <3>2 DEF IInv, TypeOK
  <2>7. \A s, t \in issued' : s.token = t.token => s = t
    BY <2>1, <2>2, <2>3 DEF IInv
  <2>8. \A q \in Requests : Minted(q)' =>
           tx'[q].new \in Tokens /\ \A s \in issued' : s.token # tx'[q].new
    BY <2>1, <2>2, <2>3, <2>4, <2>5 DEF IInv
  <2>9. \A q, r \in Requests : Minted(q)' /\ q # r => tx'[q].new # tx'[r].new
    BY <2>4, <2>5, <2>8 DEF IInv
  <2>. QED
    BY <2>1, <2>4, <2>5, <2>6, <2>7, <2>8, <2>9 DEF IInv
<1>8. ASSUME NEW p \in Requests, Revoke(p) PROVE IInv'
  <2>1. /\ tokens' = tokens \ Row(req[p].token) /\ issued' = issued
        /\ pc[p] = "revoke" /\ Answer(p, "ok", None) /\ CanWrite(p)
        /\ UNCHANGED <<known, req, now, faults>>
    BY <1>8 DEF Revoke
  <2>2. /\ pc' \in [Requests -> Steps] /\ pc'[p] = "respond" /\ tx'[p] = NoTx
        /\ \A q \in Requests \ {p} : pc'[q] = pc[q] /\ tx'[q] = tx[q]
    BY <2>1 DEF IInv, TypeOK, Answer, Goto, Steps
  <2>3. /\ ~Looked(p)' /\ ~Writing(p)' /\ ~Minted(p)' /\ NoTx.new = None
        /\ \A q \in Requests \ {p} :
              /\ Minted(q)' <=> Minted(q)
              /\ Looked(q)' <=> Looked(q)
              /\ Writing(q)' <=> Writing(q)
    BY <2>2 DEF Minted, Looked, Writing, NoTx
  <2>4. \A q \in Requests : ~Writing(q)'
    BY <2>1, <2>3 DEF CanWrite
  <2>5. TypeOK'
    <3>1. tx' \in [Requests -> [from : issued \cup {NoRow},
                                new : Tokens \cup {None}, expires : Times]]
      BY <2>1, NoTxType DEF IInv, TypeOK, Answer
    <3>2. reply' \in [Requests -> [status : Statuses, token : Tokens \cup {None}]]
      BY <2>1 DEF IInv, TypeOK, Answer, Statuses
    <3>. QED
      BY <2>1, <2>2, <3>1, <3>2 DEF IInv, TypeOK
  <2>. QED
    BY <2>1, <2>2, <2>3, <2>4, <2>5 DEF IInv
<1>9. ASSUME NEW p \in Requests, Busy(p) PROVE IInv'
  <2>1. Fail(p) /\ UNCHANGED <<db, known, req, now, faults>>
    BY <1>9 DEF Busy
  <2>. QED
    BY <2>1, FailStep DEF IInv, TypeOK
<1>10. ASSUME NEW p \in Requests, Respond(p) PROVE IInv'
  <2>1. /\ pc' = [pc EXCEPT ![p] = "idle"]
        /\ req' = [req EXCEPT ![p] = NoRequest]
        /\ reply' = [reply EXCEPT ![p] = NoReply]
        /\ known' \in {known, known \cup ({reply[p].token} \ {None})}
        /\ issued' = issued /\ tokens' = tokens /\ tx' = tx
        /\ now' = now /\ faults' = faults /\ pc[p] = "respond"
    BY <1>10 DEF Respond, Goto, db
  <2>2. TypeOK'
    <3>1. known' \subseteq Tokens
      BY <2>1 DEF IInv, TypeOK
    <3>2. /\ NoRequest \in [op : Ops \cup {"none"}, token : Tokens \cup {None, Unknown},
                            user : Users \cup {None}]
          /\ NoReply \in [status : Statuses, token : Tokens \cup {None}]
          /\ "idle" \in Steps
      BY DEF NoRequest, NoReply, Statuses, Steps
    <3>. QED
      BY <2>1, <3>1, <3>2 DEF IInv, TypeOK
  <2>3. /\ pc'[p] = "idle"
        /\ \A q \in Requests \ {p} : pc'[q] = pc[q] /\ req'[q] = req[q]
    BY <2>1 DEF IInv, TypeOK
  <2>4. /\ ~Looked(p)' /\ ~Writing(p)' /\ ~Minted(p)'
        /\ \A q \in Requests \ {p} :
              /\ Minted(q)' <=> Minted(q)
              /\ Looked(q)' <=> Looked(q)
              /\ Writing(q)' <=> Writing(q)
    BY <2>3 DEF Minted, Looked, Writing
  <2>. QED
    BY <2>1, <2>2, <2>3, <2>4 DEF IInv
<1>11. ASSUME NEW p \in Requests, Fault(p) PROVE IInv'
  <2>1. /\ Fail(p) /\ UNCHANGED <<db, known, req, now>>
        /\ faults' \in 0..MaxFaults
    BY <1>11 DEF Fault, IInv, TypeOK
  <2>. QED
    BY <2>1, FailStep
<1>12. CASE Crash
  <2>1. /\ pc' = [p \in Requests |-> "idle"]
        /\ req' = [p \in Requests |-> NoRequest]
        /\ tx' = [p \in Requests |-> NoTx]
        /\ reply' = [p \in Requests |-> NoReply]
        /\ issued' = issued /\ tokens' = tokens /\ known' = known /\ now' = now
        /\ faults' \in 0..MaxFaults
    BY <1>12 DEF Crash, db, IInv, TypeOK
  <2>2. /\ NoRequest \in [op : Ops \cup {"none"}, token : Tokens \cup {None, Unknown},
                          user : Users \cup {None}]
        /\ NoReply \in [status : Statuses, token : Tokens \cup {None}]
        /\ "idle" \in Steps
    BY DEF NoRequest, NoReply, Statuses, Steps
  <2>3. NoTx \in [from : issued \cup {NoRow}, new : Tokens \cup {None}, expires : Times]
    BY NoTxType
  <2>4. TypeOK'
    BY <2>1, <2>2, <2>3 DEF IInv, TypeOK
  <2>5. \A p \in Requests : ~Looked(p)' /\ ~Writing(p)' /\ ~Minted(p)'
    BY <2>1 DEF Minted, Looked, Writing
  <2>. QED
    BY <2>1, <2>4, <2>5 DEF IInv
<1>13. CASE Tick \/ UNCHANGED vars
  <2>1. /\ UNCHANGED <<tokens, issued, known, pc, req, tx, reply, faults>>
        /\ now' \in 0..MaxTime
    BY <1>13 DEF Tick, vars, db, IInv, TypeOK
  <2>. QED
    BY <2>1 DEF IInv, TypeOK, Minted, Looked, Writing
<1>. QED
  BY <1>1, <1>2, <1>3, <1>4, <1>5, <1>6, <1>7, <1>8, <1>9, <1>10, <1>11, <1>12,
     <1>13 DEF Next, Serve

LEMMA IInvHolds == HSpec => []IInv
<1>1. HInit => IInv
  <2> SUFFICES ASSUME HInit PROVE IInv
    OBVIOUS
  <2>1. /\ tokens = {} /\ issued = {} /\ known = {} /\ now = 0 /\ faults = 0
        /\ pc = [p \in Requests |-> "idle"]
        /\ req = [p \in Requests |-> NoRequest]
        /\ tx = [p \in Requests |-> NoTx]
        /\ reply = [p \in Requests |-> NoReply]
    BY DEF HInit, Init
  <2>2. TypeOK
    BY <2>1, NoTxType DEF TypeOK, NoRequest, NoReply, Statuses, Steps
  <2>. QED
    BY <2>1, <2>2 DEF IInv, Minted, Looked, Writing
<1>2. IInv /\ [HNext]_hvars => IInv'
  BY IInvStep DEF HNext, hvars
<1>. QED
  BY <1>1, <1>2, PTL DEF HSpec

\* Every reachable state is typed, and what a transaction read was stored.
THEOREM TypeCorrect == HSpec => []TypeOK
  BY IInvHolds, PTL DEF IInv

-----------------------------------------------------------------------------
\* Any step that neither commits nor issues nor revokes leaves the store alone.
LEMMA QuietStep ==
    ASSUME IInv, [HNext]_hvars,
           \A p \in Requests : ~Commit(p) /\ ~Issue(p) /\ ~Revoke(p)
    PROVE  UNCHANGED <<tokens, issued, rotations>>
<1>1. CASE UNCHANGED hvars
  BY <1>1 DEF hvars, vars
<1>2. CASE HNext
  <2>1. UNCHANGED <<tokens, issued>>
    BY <1>2 DEF HNext, Next, Serve, Receive, Lookup, Consume, Check, Sign, Busy,
                Respond, Fault, Crash, Tick, db
  <2>2. ASSUME NEW q \in Requests, pc[q] = "commit", pc'[q] = "sign"
        PROVE  FALSE
    <3>1. ASSUME NEW p \in Requests, NEW step \in Steps, Goto(p, step), step # "sign"
          PROVE  FALSE
      BY <2>2, <3>1 DEF Goto, IInv, TypeOK
    <3>2. ASSUME NEW p \in Requests, NEW status \in Statuses,
                 NEW token, Answer(p, status, token)
          PROVE  FALSE
      BY <3>1, <3>2 DEF Answer, Steps
    <3>3. ASSUME NEW p \in Requests, Fail(p) PROVE FALSE
      BY <3>2, <3>3 DEF Fail, Statuses
    <3>4. ASSUME NEW p \in Requests, Receive(p) PROVE FALSE
      BY <3>1, <3>2, <3>4 DEF Receive, Steps, Statuses
    <3>5. ASSUME NEW p \in Requests, Lookup(p) \/ Consume(p) \/ Check(p) \/ Sign(p)
          PROVE  FALSE
      BY <3>1, <3>2, <3>5 DEF Lookup, Consume, Check, Sign, Steps, Statuses
    <3>6. ASSUME NEW p \in Requests, Busy(p) \/ Respond(p) \/ Fault(p) PROVE FALSE
      BY <3>1, <3>3, <3>6 DEF Busy, Respond, Fault, Steps
    <3>7. CASE Crash \/ Tick
      BY <2>2, <3>7 DEF Crash, Tick
    <3>. QED
      BY <1>2, <3>4, <3>5, <3>6, <3>7 DEF HNext, Next, Serve
  <2>3. Exchanged = {}
    BY <2>2 DEF Exchanged
  <2>. QED
    BY <1>2, <2>1, <2>3 DEF HNext
<1>. QED
  BY <1>1, <1>2

\* A commit exchanges the row that its transaction read.
LEMMA CommitStep ==
    ASSUME IInv, HNext, NEW p \in Requests, Commit(p)
    PROVE  /\ tx[p].from \in tokens
           /\ Successor(p) \in Stored
           /\ \A s \in issued : s.token # Successor(p).token
           /\ Successor(p).user = tx[p].from.user
           /\ tokens' = (tokens \ {tx[p].from}) \cup {Successor(p)}
           /\ issued' = issued \cup {Successor(p)}
           /\ rotations' = rotations \cup {[from |-> tx[p].from, to |-> Successor(p)]}
<1>1. /\ pc[p] = "commit" /\ pc' = [pc EXCEPT ![p] = "sign"]
      /\ tokens' = (tokens \ Row(req[p].token)) \cup {Successor(p)}
      /\ issued' = issued \cup {Successor(p)}
  BY DEF Commit, Goto
<1>2. Writing(p) /\ Looked(p) /\ Minted(p)
  BY <1>1 DEF Writing, Looked, Minted
<1>3. /\ tx[p].from \in tokens /\ tx[p].from.token = req[p].token
      /\ tx[p].new \in Tokens /\ \A s \in issued : s.token # tx[p].new
  BY <1>2 DEF IInv
<1>4. Row(req[p].token) = {tx[p].from}
  BY <1>3, RowsOfToken
<1>5. Successor(p) \in Stored
  BY <1>3 DEF IInv, TypeOK, Successor, Stored
<1>6. {q \in Requests : pc[q] = "commit" /\ pc'[q] = "sign"} = {p}
  BY <1>1 DEF IInv, TypeOK
<1>7. Exchanged = {[from |-> tx[p].from, to |-> Successor(p)]}
  BY <1>6 DEF Exchanged
<1>. QED
  BY <1>1, <1>3, <1>4, <1>5, <1>7 DEF Successor, HNext

\* Every step of a request is a step of the store, or none.
LEMMA StoreStep ==
    ASSUME IInv, [HNext]_hvars
    PROVE  [Store!Next]_Store!vars
<1>1. ASSUME NEW p \in Requests, Commit(p), HNext PROVE Store!Next
  <2>1. Store!Rotate(tx[p].from, Successor(p))
    BY <1>1, CommitStep DEF Store!Rotate, Store!Fresh
  <2>. QED
    BY <1>1, <2>1, CommitStep DEF Store!Next, Store!Stored, Stored
<1>2. ASSUME NEW p \in Requests, Issue(p), HNext PROVE Store!Next
  <2> DEFINE new == [token |-> tx[p].new, user |-> req[p].user,
                     expires |-> tx[p].expires]
  <2>1. /\ tokens' = tokens \cup {new} /\ issued' = issued \cup {new}
        /\ pc[p] = "issue" /\ Minted(p)
    BY <1>2 DEF Issue, Minted
  <2>2. new \in Stored /\ \A s \in issued : s.token # new.token
    BY <2>1 DEF IInv, TypeOK, Stored
  <2>3. pc' = [pc EXCEPT ![p] = "respond"]
    BY <1>2 DEF Issue, Answer, Goto
  <2>4. rotations' = rotations
    BY <1>2, <2>1, <2>3 DEF HNext, Exchanged, IInv, TypeOK
  <2> HIDE DEF new
  <2>5. Store!Issue(new)
    BY <2>1, <2>2, <2>4 DEF Store!Issue, Store!Fresh
  <2>. QED
    BY <2>2, <2>5 DEF Store!Next, Store!Stored, Stored
<1>3. ASSUME NEW p \in Requests, Revoke(p), HNext PROVE [Store!Next]_Store!vars
  <2>1. /\ tokens' = tokens \ Row(req[p].token) /\ issued' = issued
        /\ pc[p] = "revoke" /\ pc' = [pc EXCEPT ![p] = "respond"]
    BY <1>3 DEF Revoke, Answer, Goto
  <2>2. rotations' = rotations
    BY <1>3, <2>1 DEF HNext, Exchanged, IInv, TypeOK
  <2>3. tokens' = {s \in tokens : s.token # req[p].token}
    BY <2>1 DEF Row
  <2>4. CASE req[p].token \in Tokens
    BY <2>1, <2>2, <2>3, <2>4 DEF Store!Next, Store!Revoke
  <2>5. CASE req[p].token \notin Tokens
    <3>1. tokens' = tokens
      BY <2>3, <2>5 DEF IInv, TypeOK, Stored
    <3>. QED
      BY <2>1, <2>2, <3>1 DEF Store!vars
  <2>. QED
    BY <2>4, <2>5
<1>4. CASE \A p \in Requests : ~Commit(p) /\ ~Issue(p) /\ ~Revoke(p)
  BY <1>4, QuietStep DEF Store!vars
<1>5. CASE UNCHANGED hvars
  BY <1>5 DEF hvars, vars, Store!vars
<1>. QED
  BY <1>1, <1>2, <1>3, <1>4, <1>5

(***************************************************************************)
(* The transaction of several statements is atomic: every execution of it, *)
(* by any number of requests, is an execution of the abstract store.       *)
(***************************************************************************)
THEOREM Implementation == HSpec => ImplementsStore
<1>1. HInit => Store!Init
  BY DEF HInit, Init, Store!Init
<1>. QED
  BY <1>1, IInvHolds, StoreStep, PTL DEF HSpec, ImplementsStore, Store!Spec

-----------------------------------------------------------------------------
\* What makes single use inductive in the abstract store, of which nothing but
\* its own steps is used.
StoreInv == Store!TypeOK /\ Store!SingleUse

LEMMA StoreInvStep ==
    ASSUME StoreInv, [Store!Next]_Store!vars
    PROVE  StoreInv'
<1> USE DEF StoreInv, Store!TypeOK, Store!SingleUse
<1>1. ASSUME NEW s \in Store!Stored, Store!Issue(s) PROVE StoreInv'
  BY <1>1 DEF Store!Issue, Store!Fresh
<1>2. ASSUME NEW old \in tokens, NEW new \in Store!Stored, Store!Rotate(old, new)
      PROVE  StoreInv'
  <2> DEFINE pair == [from |-> old, to |-> new]
  <2>1. /\ old \in tokens /\ old \in issued /\ \A s \in issued : s.token # new.token
        /\ new.user = old.user
        /\ tokens' = (tokens \ {old}) \cup {new}
        /\ issued' = issued \cup {new}
        /\ rotations' = rotations \cup {pair}
    BY <1>2 DEF Store!Rotate, Store!Fresh
  <2>2. old # new /\ new \notin issued
    BY <2>1
  <2>3. Store!TypeOK'
    BY <2>1
  <2>4. \A r \in rotations : r.from # old /\ r.from # new /\ r.to # new
    BY <2>1, <2>2
  <2>5. \A r, s \in rotations' : r.from = s.from \/ r.to = s.to => r = s
    BY <2>1, <2>4
  <2>6. \A r \in rotations' : r.from \notin tokens' /\ r.from.user = r.to.user
    BY <2>1, <2>2, <2>4
  <2>7. \A r \in rotations' : r.from \in issued' /\ r.to \in issued'
    BY <2>1
  <2>8. \A s, t \in issued' : s.token = t.token => s = t
    BY <2>1
  <2>. QED
    BY <2>3, <2>5, <2>6, <2>7, <2>8
<1>3. ASSUME NEW t \in Tokens, Store!Revoke(t) PROVE StoreInv'
  BY <1>3 DEF Store!Revoke
<1>4. CASE UNCHANGED Store!vars
  BY <1>4 DEF Store!vars
<1>. QED
  BY <1>1, <1>2, <1>3, <1>4 DEF Store!Next

LEMMA StoreInvHolds == Store!Spec => []StoreInv
<1>1. Store!Init => StoreInv
  BY DEF Store!Init, StoreInv, Store!TypeOK, Store!SingleUse
<1>2. StoreInv /\ [Store!Next]_Store!vars => StoreInv'
  BY StoreInvStep
<1>. QED
  BY <1>1, <1>2, PTL DEF Store!Spec

(***************************************************************************)
(* Tokens of the abstract store are single-use: what Rotate promises,      *)
(* however it is implemented.                                              *)
(***************************************************************************)
THEOREM StoreSingleUse == Store!Spec => []Store!SingleUse
  BY StoreInvHolds, PTL DEF StoreInv

(***************************************************************************)
(* Refresh tokens are single-use, also on an engine that does not make a   *)
(* commit wait for readers: the row count of the DELETE is enough.         *)
(***************************************************************************)
THEOREM SingleUseCorrect == HSpec => []SingleUse
<1>1. HSpec => Store!Spec
  BY Implementation DEF ImplementsStore
<1>2. Store!SingleUse <=> SingleUse
  BY DEF SingleUse
<1>. QED
  BY <1>1, <1>2, StoreSingleUse, PTL

(***************************************************************************)
(* A token that left the table, exchanged or signed out, never comes back, *)
(* also when transactions roll back or the process dies in between.        *)
(***************************************************************************)
THEOREM GoneStaysGone == HSpec => GoneIsGone
<1> DEFINE Gone == (issued \ tokens) \cap tokens' = {}
<1>1. ASSUME IInv, [HNext]_hvars PROVE [Gone]_Store!vars
  <2>1. CASE UNCHANGED Store!vars
    BY <2>1
  <2>2. CASE Store!Next
    BY <1>1, <2>2 DEF Store!Next, Store!Issue, Store!Rotate, Store!Revoke,
                      Store!Fresh, IInv, TypeOK
  <2>. QED
    BY <1>1, <2>1, <2>2, StoreStep
<1>2. IInv /\ [HNext]_hvars => [Gone]_Store!vars
  BY <1>1
<1>. QED
  BY <1>2, IInvHolds, PTL DEF HSpec, GoneIsGone, Store!GoneIsGone

-----------------------------------------------------------------------------
IsStored(t) == \E s \in tokens : s.token = t

\* The tokens that only request p has: made by it, or in its answer.
Held(p) == {tx[p].new, reply[p].token} \ {None}

\* A request has a new token from NewID until it answers, and the token is in
\* the table from the commit on.
Own(p) ==
    /\ tx[p].new # None => Minted(p) \/ pc[p] = "sign"
    /\ pc[p] = "sign" => IsStored(tx[p].new)
    /\ reply[p].token # None => pc[p] = "respond" /\ IsStored(reply[p].token)
    /\ req[p].token \in known \cup {None, Unknown}

\* Nobody presents a token before the client to whom it is given knows it.
SecretInv ==
    /\ \A p \in Requests : Own(p) /\ Held(p) \cap known = {}
    /\ \A p, q \in Requests : p # q => Held(p) \cap Held(q) = {}
    /\ \A t \in known : \E s \in issued : s.token = t

\* What a step of request p may do to the secrets: make a token that nobody
\* has, give its own away, and remove from the table the token it presents.
LEMMA SecretStep ==
    ASSUME IInv, SecretInv, NEW p \in Requests,
           \A q \in Requests \ {p} :
              /\ pc'[q] = pc[q] /\ tx'[q] = tx[q]
              /\ req'[q] = req[q] /\ reply'[q] = reply[q],
           Held(p)' \subseteq Held(p) \cup FreshTokens,
           known \subseteq known',
           \A t \in known' \ known : t \in Held(p) \ Held(p)' /\ IsStored(t),
           \A s \in tokens : s.token # req[p].token => s \in tokens',
           issued \subseteq issued',
           Own(p)'
    PROVE  SecretInv'
<1>1. \A q \in Requests : Held(q) \subseteq Tokens
  BY DEF Held, IInv, TypeOK
<1>2. \A q \in Requests : Held(q) \cap FreshTokens = {}
  <2> SUFFICES ASSUME NEW q \in Requests, NEW t \in Held(q), t \in FreshTokens
               PROVE  FALSE
    OBVIOUS
  <2>1. (\A s \in issued : s.token # t) /\ t # tx[q].new
    BY DEF FreshTokens
  <2>2. t = reply[q].token /\ t # None
    BY <2>1 DEF Held
  <2>3. IsStored(t)
    BY <2>2 DEF SecretInv, Own
  <2>. QED
    BY <2>1, <2>3 DEF IsStored, IInv, TypeOK
<1>3. FreshTokens \cap known = {}
  BY DEF FreshTokens, SecretInv
<1>4. \A q \in Requests \ {p} : Held(q)' = Held(q)
  BY DEF Held
<1>5. \A q \in Requests \ {p} : \A t \in Held(q) : IsStored(t) => IsStored(t)'
  <2> SUFFICES ASSUME NEW q \in Requests \ {p}, NEW t \in Held(q), IsStored(t)
               PROVE  IsStored(t)'
    OBVIOUS
  <2>1. t # req[p].token
    BY <1>1 DEF SecretInv, Own
  <2>. QED
    BY <2>1 DEF IsStored
<1>6. ASSUME NEW q \in Requests \ {p} PROVE Own(q)'
  <2>1. /\ tx'[q] = tx[q] /\ reply'[q] = reply[q] /\ pc'[q] = pc[q]
        /\ req'[q] = req[q] /\ Own(q)
    BY DEF SecretInv
  <2>2. pc[q] = "sign" => IsStored(tx[q].new)'
    <3>1. pc[q] = "sign" => tx[q].new \in Held(q)
      BY DEF Held, IInv
    <3>. QED
      BY <1>5, <2>1, <3>1 DEF Own
  <2>3. reply[q].token # None => IsStored(reply[q].token)'
    BY <1>5, <2>1 DEF Own, Held
  <2>4. Minted(q) => Minted(q)'
    BY <2>1 DEF Minted
  <2>. QED
    BY <2>1, <2>2, <2>3, <2>4 DEF Own, IsStored
<1>7. \A q \in Requests : Held(q)' \cap known' = {}
  <2>1. Held(p)' \cap known' = {}
    BY <1>3 DEF SecretInv
  <2>2. ASSUME NEW q \in Requests \ {p} PROVE Held(q)' \cap known' = {}
    BY <1>4 DEF SecretInv
  <2>. QED
    BY <2>1, <2>2
<1>8. \A q, r \in Requests : q # r => Held(q)' \cap Held(r)' = {}
  <2>1. ASSUME NEW q \in Requests \ {p} PROVE Held(p)' \cap Held(q)' = {}
    BY <1>2, <1>4 DEF SecretInv
  <2>2. ASSUME NEW q \in Requests \ {p}, NEW r \in Requests \ {p}, q # r
        PROVE  Held(q)' \cap Held(r)' = {}
    BY <1>4, <2>2 DEF SecretInv
  <2>. QED
    BY <2>1, <2>2
<1>9. \A t \in known' : \E s \in issued' : s.token = t
  <2>1. \A t \in known' \ known : \E s \in issued : s.token = t
    BY DEF IsStored, IInv, TypeOK
  <2>. QED
    BY <2>1 DEF SecretInv
<1>. QED
  BY <1>6, <1>7, <1>8, <1>9 DEF SecretInv


\* A request that answers, with nothing or with the token it made.
LEMMA SecretAnswer ==
    ASSUME IInv, SecretInv, NEW p \in Requests, NEW status,
           NEW token \in {None, tx[p].new}, Answer(p, status, token),
           token # None => \E s \in tokens' : s.token = token,
           \A q \in Requests \ {p} : req'[q] = req[q],
           req'[p].token \in known \cup {None, Unknown},
           known' = known, issued \subseteq issued',
           \A s \in tokens : s.token # req[p].token => s \in tokens'
    PROVE  SecretInv'
<1>1. /\ pc'[p] = "respond" /\ tx'[p] = NoTx
      /\ reply'[p] = [status |-> status, token |-> token]
      /\ \A q \in Requests \ {p} :
            pc'[q] = pc[q] /\ tx'[q] = tx[q] /\ reply'[q] = reply[q]
  BY DEF IInv, TypeOK, Answer, Goto
<1>2. Held(p)' \subseteq Held(p)
  BY <1>1 DEF Held, NoTx
<1>3. Own(p)'
  BY <1>1 DEF Own, NoTx, IsStored
<1>. QED
  BY <1>1, <1>2, <1>3, SecretStep

LEMMA SecretInvStep ==
    ASSUME IInv, SecretInv, [Next]_vars
    PROVE  SecretInv'
<1>1. ASSUME NEW p \in Requests, Receive(p) PROVE SecretInv'
  <2>1. PICK r \in ClientRequests :
          /\ req' = [req EXCEPT ![p] = r]
          /\ \/ \E status \in {"bad_request", "ok"} : Answer(p, status, None)
             \/ Goto(p, "revoke") /\ UNCHANGED <<tx, reply>>
             \/ /\ \E t \in FreshTokens :
                      tx' = [tx EXCEPT ![p] =
                                [from |-> NoRow, new |-> t, expires |-> now + TTL]]
                /\ Goto(p, IF r.op = "refresh" THEN "lookup" ELSE "issue")
                /\ UNCHANGED reply
    BY <1>1 DEF Receive
  <2>2. /\ issued' = issued /\ tokens' = tokens /\ known' = known
        /\ pc[p] = "idle"
    BY <1>1 DEF Receive, db
  <2>3. /\ req'[p] = r /\ \A q \in Requests \ {p} : req'[q] = req[q]
        /\ r.token \in known \cup {None, Unknown}
    BY <2>1 DEF IInv, TypeOK, ClientRequests
  <2>4. reply[p].token = None /\ tx[p].new = None
    BY <2>2 DEF SecretInv, Own, Minted
  <2>5. ASSUME NEW status, Answer(p, status, None) PROVE SecretInv'
    BY <2>2, <2>3, <2>5, SecretAnswer
  <2>6. CASE Goto(p, "revoke") /\ UNCHANGED <<tx, reply>>
    <3>1. pc'[p] = "revoke" /\ \A q \in Requests \ {p} : pc'[q] = pc[q]
      BY <2>6 DEF IInv, TypeOK, Goto
    <3>2. Held(p)' = Held(p) /\ Own(p)'
      BY <2>2, <2>3, <2>4, <2>6, <3>1 DEF Held, Own
    <3>. QED
      BY <2>2, <2>3, <2>6, <3>1, <3>2, SecretStep
  <2>7. ASSUME NEW t \in FreshTokens,
               tx' = [tx EXCEPT ![p] =
                        [from |-> NoRow, new |-> t, expires |-> now + TTL]],
               Goto(p, IF r.op = "refresh" THEN "lookup" ELSE "issue"),
               UNCHANGED reply
        PROVE  SecretInv'
    <3>1. /\ pc'[p] \in {"lookup", "issue"} /\ tx'[p].new = t
          /\ \A q \in Requests \ {p} : pc'[q] = pc[q] /\ tx'[q] = tx[q]
      BY <2>7 DEF IInv, TypeOK, Goto
    <3>2. Held(p)' \subseteq FreshTokens /\ Own(p)'
      BY <2>2, <2>3, <2>4, <2>7, <3>1 DEF Held, Own, Minted
    <3>. QED
      BY <2>2, <2>3, <2>7, <3>1, <3>2, SecretStep
  <2>. QED
    BY <2>1, <2>5, <2>6, <2>7
\* Requests on their way through Rotate that do not answer yet.
<1>2. ASSUME NEW p \in Requests,
             pc[p] \in {"lookup", "consume", "check", "commit"},
             NEW step \in {"consume", "check", "commit", "sign"}, Goto(p, step),
             \A q \in Requests \ {p} : tx'[q] = tx[q],
             tx'[p].new = tx[p].new, UNCHANGED <<known, req, reply>>,
             issued \subseteq issued',
             \A s \in tokens : s.token # req[p].token => s \in tokens',
             step = "sign" => \E s \in tokens' : s.token = tx[p].new
      PROVE  SecretInv'
  <2>1. pc'[p] = step /\ \A q \in Requests \ {p} : pc'[q] = pc[q]
    BY <1>2 DEF IInv, TypeOK, Goto
  <2>2. reply[p].token = None /\ req[p].token \in known \cup {None, Unknown}
    BY <1>2 DEF SecretInv, Own
  <2>3. Held(p)' = Held(p)
    BY <1>2 DEF Held
  <2>4. Own(p)'
    BY <1>2, <2>1, <2>2 DEF Own, Minted, IsStored
  <2>. QED
    BY <1>2, <2>1, <2>3, <2>4, SecretStep
\* Requests that answer without a token and without touching the table.
<1>3. ASSUME NEW p \in Requests, NEW status, Answer(p, status, None),
             UNCHANGED <<db, known, req>>
      PROVE  SecretInv'
  BY <1>3, SecretAnswer DEF db, SecretInv, Own
<1>4. ASSUME NEW p \in Requests, Lookup(p) \/ Consume(p) \/ Check(p)
      PROVE  SecretInv'
  <2>1. UNCHANGED <<db, known, req>>
    BY <1>4 DEF Lookup, Consume, Check
  <2>2. CASE \E status \in Statuses : Answer(p, status, None)
    BY <1>3, <2>1, <2>2
  <2>3. CASE \E s : /\ pc[p] = "lookup" /\ tx' = [tx EXCEPT ![p].from = s]
                    /\ Goto(p, "consume") /\ UNCHANGED reply
    <3>1. /\ tx'[p].new = tx[p].new
          /\ \A q \in Requests \ {p} : tx'[q] = tx[q]
      BY <2>3 DEF IInv, TypeOK
    <3>. QED
      BY <1>2, <2>1, <2>3, <3>1 DEF db
  <2>4. CASE \E step \in {"check", "commit"} :
                /\ pc[p] \in {"consume", "check"}
                /\ Goto(p, step) /\ UNCHANGED <<tx, reply>>
    BY <1>2, <2>1, <2>4 DEF db
  <2>. QED
    BY <1>4, <2>2, <2>3, <2>4 DEF Lookup, Consume, Check, Statuses
<1>5. ASSUME NEW p \in Requests, Commit(p) PROVE SecretInv'
  <2>1. /\ tokens' = (tokens \ Row(req[p].token)) \cup {Successor(p)}
        /\ issued' = issued \cup {Successor(p)}
        /\ pc[p] = "commit" /\ Goto(p, "sign")
        /\ UNCHANGED <<known, req, tx, reply>>
    BY <1>5 DEF Commit
  <2>2. \E s \in tokens' : s.token = tx[p].new
    <3>1. Successor(p) \in tokens' /\ Successor(p).token = tx[p].new
      BY <2>1 DEF Successor
    <3>. QED
      BY <3>1
  <2>3. \A s \in tokens : s.token # req[p].token => s \in tokens'
    BY <2>1 DEF Row
  <2>. QED
    BY <1>2, <2>1, <2>2, <2>3
<1>6. ASSUME NEW p \in Requests, Sign(p) PROVE SecretInv'
  <2>1. /\ pc[p] = "sign" /\ Answer(p, "ok", tx[p].new)
        /\ UNCHANGED <<tokens, issued, known, req>>
    BY <1>6 DEF Sign, db
  <2>2. /\ \E s \in tokens' : s.token = tx[p].new
        /\ req[p].token \in known \cup {None, Unknown}
    BY <2>1 DEF SecretInv, Own, IsStored
  <2>. QED
    BY <2>1, <2>2, SecretAnswer
<1>7. ASSUME NEW p \in Requests, Issue(p) PROVE SecretInv'
  <2> DEFINE new == [token |-> tx[p].new, user |-> req[p].user,
                     expires |-> tx[p].expires]
  <2>1. /\ tokens' = tokens \cup {new} /\ issued' = issued \cup {new}
        /\ Answer(p, "ok", tx[p].new) /\ UNCHANGED <<known, req>>
    BY <1>7 DEF Issue
  <2>2. /\ \E s \in tokens' : s.token = tx[p].new
        /\ req[p].token \in known \cup {None, Unknown}
    <3>1. new \in tokens' /\ new.token = tx[p].new
      BY <2>1
    <3>. QED
      BY <3>1 DEF SecretInv, Own
  <2>. QED
    BY <2>1, <2>2, SecretAnswer
<1>8. ASSUME NEW p \in Requests, Revoke(p) PROVE SecretInv'
  <2>1. /\ \A s \in tokens : s.token # req[p].token => s \in tokens'
        /\ Answer(p, "ok", None) /\ UNCHANGED <<issued, known, req>>
        /\ req[p].token \in known \cup {None, Unknown}
    BY <1>8 DEF Revoke, Row, SecretInv, Own
  <2>. QED
    BY <2>1, SecretAnswer
<1>9. ASSUME NEW p \in Requests, Busy(p) \/ Fault(p) PROVE SecretInv'
  <2>1. UNCHANGED <<db, known, req>> /\ \E status : Answer(p, status, None)
    BY <1>9 DEF Busy, Fault, Fail
  <2>. QED
    BY <1>3, <2>1
<1>10. ASSUME NEW p \in Requests, Respond(p) PROVE SecretInv'
  <2>1. /\ pc[p] = "respond" /\ pc' = [pc EXCEPT ![p] = "idle"]
        /\ req' = [req EXCEPT ![p] = NoRequest]
        /\ reply' = [reply EXCEPT ![p] = NoReply]
        /\ known' \in {known, known \cup ({reply[p].token} \ {None})}
        /\ UNCHANGED <<tokens, issued, tx>>
    BY <1>10 DEF Respond, Goto, db
  <2>2. /\ pc'[p] = "idle" /\ req'[p] = NoRequest /\ reply'[p] = NoReply
        /\ \A q \in Requests \ {p} :
              pc'[q] = pc[q] /\ req'[q] = req[q] /\ reply'[q] = reply[q]
    BY <2>1 DEF IInv, TypeOK
  <2>3. tx[p].new = None
    BY <2>1 DEF SecretInv, Own, Minted
  <2>4. Held(p)' = {} /\ Own(p)'
    BY <2>1, <2>2, <2>3 DEF Held, Own, NoReply, NoRequest
  <2>5. \A t \in known' \ known : t \in Held(p) /\ IsStored(t)
    BY <2>1 DEF Held, SecretInv, Own
  <2>. QED
    BY <2>1, <2>2, <2>4, <2>5, SecretStep
<1>11. CASE Crash
  <2>1. /\ pc' = [p \in Requests |-> "idle"]
        /\ req' = [p \in Requests |-> NoRequest]
        /\ tx' = [p \in Requests |-> NoTx]
        /\ reply' = [p \in Requests |-> NoReply]
        /\ UNCHANGED <<tokens, issued, known>>
    BY <1>11 DEF Crash, db
  <2>2. \A p \in Requests : Held(p)' = {} /\ Own(p)'
    BY <2>1 DEF Held, Own, NoReply, NoRequest, NoTx
  <2>. QED
    BY <2>1, <2>2 DEF SecretInv
<1>12. CASE Tick \/ UNCHANGED vars
  BY <1>12 DEF Tick, vars, db, SecretInv, Own, Held, Minted, IsStored
<1>. QED
  BY <1>1, <1>4, <1>5, <1>6, <1>7, <1>8, <1>9, <1>10, <1>11, <1>12
  DEF Next, Serve

LEMMA SecretInvHolds == HSpec => []SecretInv
<1>1. HInit => SecretInv
  BY DEF HInit, Init, SecretInv, Own, Held, NoReply, NoRequest, NoTx
<1>2. IInv /\ SecretInv /\ [HNext]_hvars => SecretInv'
  BY SecretInvStep DEF HNext, hvars
<1>. QED
  BY <1>1, <1>2, IInvHolds, PTL DEF HSpec

(***************************************************************************)
(* A token on its way to the client can be used when it arrives: nobody    *)
(* else can have exchanged it or signed it out, since nobody else knows it *)
(* and no two requests are given the same one.                             *)
(***************************************************************************)
THEOREM RepliedTokenCorrect == HSpec => []RepliedTokenIsStored
<1>1. SecretInv => RepliedTokenIsStored
  BY DEF SecretInv, Own, IsStored, RepliedTokenIsStored
<1>. QED
  BY <1>1, SecretInvHolds, PTL


-----------------------------------------------------------------------------
\* The expiry of a token under way was computed from a clock that has not gone
\* back since; once the row that was read has been found in time, it is at
\* most one lifetime after the expiry of that row.
ClockInv ==
    \A p \in Requests :
        /\ tx[p].expires <= now + TTL
        /\ pc[p] = "commit" => tx[p].expires <= tx[p].from.expires + TTL

LEMMA ClockStep ==
    ASSUME IInv, ClockInv, [Next]_vars
    PROVE  ClockInv'
<1>0. /\ now \in Nat /\ NoTx.expires = 0
      /\ \A p \in Requests : tx[p].expires \in Nat
      /\ \A s \in issued \cup {NoRow} : s.expires \in Nat
      /\ \A p \in Requests : tx[p].from \in issued \cup {NoRow}
  BY DEF IInv, TypeOK, Times, Stored, NoTx, NoRow
\* A step of p, at one moment of the clock, after which p is not to commit.
<1>1. ASSUME NEW p \in Requests, now' = now,
             \A q \in Requests \ {p} : pc'[q] = pc[q] /\ tx'[q] = tx[q],
             tx'[p].expires <= now + TTL, pc'[p] # "commit"
      PROVE  ClockInv'
  BY <1>1 DEF ClockInv
<1>2. ASSUME NEW p \in Requests, NEW status, NEW token,
             Answer(p, status, token), now' = now
      PROVE  ClockInv'
  <2>1. /\ pc'[p] = "respond" /\ tx'[p] = NoTx
        /\ \A q \in Requests \ {p} : pc'[q] = pc[q] /\ tx'[q] = tx[q]
    BY <1>2 DEF IInv, TypeOK, Answer, Goto
  <2>2. tx'[p].expires <= now + TTL
    BY <1>0, <2>1
  <2>. QED
    BY <1>1, <1>2, <2>1, <2>2
<1>3. ASSUME NEW p \in Requests, NEW step, step # "commit", Goto(p, step),
             now' = now, tx' = tx
      PROVE  ClockInv'
  <2>1. pc'[p] = step /\ \A q \in Requests \ {p} : pc'[q] = pc[q]
    BY <1>3 DEF IInv, TypeOK, Goto
  <2>. QED
    BY <1>1, <1>3, <2>1 DEF ClockInv
<1>4. ASSUME NEW p \in Requests, Receive(p) PROVE ClockInv'
  <2>1. now' = now
    BY <1>4 DEF Receive
  <2>2. ASSUME NEW t, NEW step \in {"lookup", "issue"}, Goto(p, step),
               tx' = [tx EXCEPT ![p] =
                        [from |-> NoRow, new |-> t, expires |-> now + TTL]]
        PROVE  ClockInv'
    <3>1. /\ pc'[p] = step /\ tx'[p].expires = now + TTL
          /\ \A q \in Requests \ {p} : pc'[q] = pc[q] /\ tx'[q] = tx[q]
      BY <2>2 DEF IInv, TypeOK, Goto
    <3>. QED
      BY <1>0, <1>1, <2>1, <3>1
  <2>3. \/ \E status : Answer(p, status, None)
        \/ Goto(p, "revoke") /\ tx' = tx
        \/ \E t \in FreshTokens : \E step \in {"lookup", "issue"} :
              /\ Goto(p, step)
              /\ tx' = [tx EXCEPT ![p] =
                          [from |-> NoRow, new |-> t, expires |-> now + TTL]]
    BY <1>4 DEF Receive
  <2>. QED
    BY <1>2, <1>3, <2>1, <2>2, <2>3
<1>5. ASSUME NEW p \in Requests, Lookup(p) PROVE ClockInv'
  <2>1. now' = now
    BY <1>5 DEF Lookup
  <2>2. CASE \E s : tx' = [tx EXCEPT ![p].from = s] /\ Goto(p, "consume")
    <3>1. /\ pc'[p] = "consume" /\ tx'[p].expires = tx[p].expires
          /\ \A q \in Requests \ {p} : pc'[q] = pc[q] /\ tx'[q] = tx[q]
      BY <2>2 DEF IInv, TypeOK, Goto
    <3>. QED
      BY <1>1, <2>1, <3>1 DEF ClockInv
  <2>. QED
    BY <1>2, <1>5, <2>1, <2>2 DEF Lookup
<1>6. ASSUME NEW p \in Requests, Check(p) PROVE ClockInv'
  <2>1. now' = now
    BY <1>6 DEF Check
  <2>2. CASE now <= tx[p].from.expires /\ Goto(p, "commit") /\ tx' = tx
    <3>1. pc'[p] = "commit" /\ \A q \in Requests \ {p} : pc'[q] = pc[q]
      BY <2>2 DEF IInv, TypeOK, Goto
    <3>2. tx[p].expires <= tx[p].from.expires + TTL
      BY <1>0, <2>2 DEF ClockInv
    <3>. QED
      BY <2>1, <2>2, <3>1, <3>2 DEF ClockInv
  <2>. QED
    BY <1>2, <1>6, <2>1, <2>2 DEF Check
<1>7. ASSUME NEW p \in Requests,
             \/ Consume(p) \/ Commit(p) \/ Sign(p) \/ Issue(p) \/ Revoke(p)
             \/ Busy(p) \/ Respond(p) \/ Fault(p)
      PROVE  ClockInv'
  <2>1. now' = now
    BY <1>7 DEF Consume, Commit, Sign, Issue, Revoke, Busy, Respond, Fault
  <2>2. \/ \E status, token : Answer(p, status, token)
        \/ \E step : step # "commit" /\ Goto(p, step) /\ tx' = tx
    BY <1>7 DEF Consume, Commit, Sign, Issue, Revoke, Busy, Respond, Fault, Fail
  <2>. QED
    BY <1>2, <1>3, <2>1, <2>2
<1>8. CASE Crash
  <2>1. /\ tx' = [p \in Requests |-> NoTx] /\ now' = now
        /\ pc' = [p \in Requests |-> "idle"]
    BY <1>8 DEF Crash
  <2>. QED
    BY <1>0, <2>1 DEF ClockInv
<1>9. CASE Tick
  <2>1. tx' = tx /\ pc' = pc /\ now' = now + 1
    BY <1>9 DEF Tick
  <2>. QED
    BY <1>0, <2>1 DEF ClockInv
<1>10. CASE UNCHANGED vars
  BY <1>10 DEF vars, ClockInv
<1>. QED
  BY <1>4, <1>5, <1>6, <1>7, <1>8, <1>9, <1>10 DEF Next, Serve

LEMMA ClockInvHolds == HSpec => []ClockInv
<1>1. HInit => ClockInv
  BY DEF HInit, Init, ClockInv, NoTx
<1>2. IInv /\ ClockInv /\ [HNext]_hvars => ClockInv'
  BY ClockStep DEF HNext, hvars
<1>. QED
  BY <1>1, <1>2, IInvHolds, PTL DEF HSpec

(***************************************************************************)
(* No session is revived: whatever time passes between reading the clock   *)
(* for the new expiry, looking at the old one and committing, a successor  *)
(* outlives its predecessor by at most one lifetime.                       *)
(***************************************************************************)
THEOREM ExpiryCorrect == HSpec => []ExpiryChains
<1>1. HInit => ExpiryChains
  BY DEF HInit, ExpiryChains
<1>2. ASSUME IInv, ClockInv, ExpiryChains, [HNext]_hvars
      PROVE  ExpiryChains'
  <2>1. CASE HNext
    <3>1. \A r \in Exchanged : r.to.expires <= r.from.expires + TTL
      BY <1>2 DEF Exchanged, ClockInv, Successor
    <3>. QED
      BY <1>2, <2>1, <3>1 DEF HNext, ExpiryChains
  <2>2. CASE UNCHANGED hvars
    BY <1>2, <2>2 DEF hvars, ExpiryChains
  <2>. QED
    BY <1>2, <2>1, <2>2
<1>. QED
  BY <1>1, <1>2, IInvHolds, ClockInvHolds, PTL DEF HSpec


-----------------------------------------------------------------------------
\* An access token lives at most one of its lifetimes from now while the
\* refresh token beside it is in the table, or from the end of that.
GrantInv ==
    \A g \in granted :
        /\ g.expires \in Int
        /\ \/ IsStored(g.token) /\ g.expires <= now + AccessTTL
           \/ \E e \in ended : /\ e.token = g.token /\ e.at \in Nat
                               /\ g.expires <= e.at + AccessTTL

LEMMA GrantStep ==
    ASSUME IInv, IInv', SecretInv', ClockInv, GrantInv, [SNext]_svars
    PROVE  GrantInv'
<1>0. /\ now \in Nat /\ TTL \in Nat /\ AccessTTL \in Nat
      /\ \A p \in Requests : tx[p].expires \in Nat
  BY AccessTTLAssumption DEF IInv, TypeOK, Times
<1>1. CASE UNCHANGED svars
  BY <1>1 DEF svars, hvars, vars, GrantInv, IsStored
<1>2. CASE SNext
  <2>1. now' \in Nat /\ now <= now'
    BY <1>0, <1>2 DEF SNext, HNext, Next, Receive, Serve, Lookup, Consume, Check,
        Commit, Sign, Issue, Revoke, Busy, Respond, Fault, Crash, Tick
  <2>2. ASSUME NEW g \in granted
        PROVE  \/ /\ \E s \in tokens' : s.token = g.token
                  /\ g.expires <= now' + AccessTTL
               \/ \E e \in ended' : /\ e.token = g.token /\ e.at \in Nat
                                    /\ g.expires <= e.at + AccessTTL
    <3>1. ASSUME NEW s \in tokens, s.token = g.token,
                 g.expires <= now + AccessTTL, s \notin tokens'
          PROVE  \E e \in ended' : /\ e.token = g.token /\ e.at \in Nat
                                   /\ g.expires <= e.at + AccessTTL
      <4> DEFINE e == [token |-> s.token, at |-> now]
      <4>1. e \in ended'
        BY <1>2, <3>1 DEF SNext
      <4>2. e.token = g.token /\ e.at = now
        BY <3>1
      <4>. QED
        BY <1>0, <3>1, <4>1, <4>2
    <3>2. ended \subseteq ended' /\ g.expires \in Int
      BY <1>2 DEF SNext, GrantInv
    <3>3. g.expires <= now + AccessTTL => g.expires <= now' + AccessTTL
      BY <1>0, <2>1, <3>2
    <3>. QED
      BY <3>1, <3>2, <3>3 DEF GrantInv, IsStored
  <2>3. ASSUME NEW p \in Given
        PROVE  /\ SignedAt(p) + AccessTTL \in Int
               /\ \E s \in tokens' : s.token = reply'[p].token
               /\ SignedAt(p) + AccessTTL <= now' + AccessTTL
    <3>1. p \in Requests /\ reply'[p].token # None
      BY DEF Given
    <3>2. \E s \in tokens' : s.token = reply'[p].token
      BY <3>1 DEF SecretInv, Own, IsStored
    <3>3. SignedAt(p) \in Int /\ SignedAt(p) <= now
      BY <1>0, <3>1 DEF SignedAt, ClockInv
    <3>. QED
      BY <1>0, <2>1, <3>2, <3>3
  <2>4. granted' = granted \cup
          {[token |-> reply'[p].token, expires |-> SignedAt(p) + AccessTTL] :
              p \in Given}
    BY <1>2 DEF SNext
  <2>5. \A g \in granted' :
           \/ g \in granted
           \/ /\ g.expires \in Int /\ g.expires <= now' + AccessTTL
              /\ \E s \in tokens' : s.token = g.token
    BY <2>3, <2>4
  <2>6. \A g \in granted : g.expires \in Int
    BY DEF GrantInv
  <2>. QED
    BY <2>2, <2>5, <2>6 DEF GrantInv, IsStored
<1>. QED
  BY <1>1, <1>2

(***************************************************************************)
(* An access token is accepted for at most one of its lifetimes after the  *)
(* session it belongs to has ended.                                        *)
(***************************************************************************)
THEOREM AccessEnds == SSpec => []AccessEndsWithSession
<1>1. SSpec => HSpec
  <2>1. SInit => HInit
    BY DEF SInit
  <2>2. [SNext]_svars => [HNext]_hvars
    BY DEF SNext, svars
  <2>. QED
    BY <2>1, <2>2, PTL DEF SSpec, HSpec
<1>2. SInit => GrantInv
  BY DEF SInit, GrantInv
<1>3. IInv /\ IInv' /\ SecretInv' /\ ClockInv /\ GrantInv /\ [SNext]_svars => GrantInv'
  BY GrantStep
<1>4. IInv /\ GrantInv => AccessEndsWithSession
  <2> SUFFICES ASSUME IInv, GrantInv, NEW g \in granted, Accepts(g)
               PROVE  \/ \E s \in tokens : s.token = g.token
                      \/ \E e \in ended : e.token = g.token /\ now < e.at + AccessTTL
    BY DEF AccessEndsWithSession
  <2>1. now \in Nat /\ AccessTTL \in Nat /\ g.expires \in Int /\ now < g.expires
    BY AccessTTLAssumption DEF IInv, TypeOK, GrantInv, Accepts
  <2>. QED
    BY <2>1 DEF GrantInv, IsStored
<1>. QED
  BY <1>1, <1>2, <1>3, <1>4, IInvHolds, SecretInvHolds, ClockInvHolds, PTL
  DEF SSpec

=============================================================================
