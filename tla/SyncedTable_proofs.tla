-------------------------- MODULE SyncedTable_proofs --------------------------
(***************************************************************************)
(* Proofs about SyncedTable and SyncedOutcomes: for any number of owners,  *)
(* ids, contents and concurrent requests, and any bounds.                  *)
(***************************************************************************)
EXTENDS SyncedOutcomes, TLAPS

USE ConstantsAssumption DEF Writes

-----------------------------------------------------------------------------
\* What an update and a delete make of a row.
LEMMA RevisedFields ==
    ASSUME NEW x \in Row, NEW c \in Contents, NEW v \in 0..MaxRev
    PROVE  /\ Revised(x, c, v) \in Row
           /\ Revised(x, c, v).id = x.id
           /\ Revised(x, c, v).owner = x.owner
           /\ Revised(x, c, v).content = c
           /\ Revised(x, c, v).rev = v
           /\ Revised(x, c, v).deleted = x.deleted
  BY Zenon DEF Row, Revised

LEMMA BuriedFields ==
    ASSUME NEW x \in Row, NEW v \in 0..MaxRev
    PROVE  /\ Buried(x, v) \in Row
           /\ Buried(x, v).id = x.id
           /\ Buried(x, v).owner = x.owner
           /\ Buried(x, v).content = x.content
           /\ Buried(x, v).rev = v
           /\ Buried(x, v).deleted = TRUE
  BY Zenon DEF Row, Buried

\* What a request under way is known to carry.
LEMMA RequestTypes ==
    ASSUME TypeOK, NEW p \in Requests, pc[p] # "idle"
    PROVE  /\ req[p] \in ClientRequests
           /\ req[p].owner \in Owners
           /\ req[p].op \in Ops
           /\ req[p].op # "list" => req[p].id \in Ids
           /\ req[p].content # None => req[p].content \in Contents
           /\ req[p].header \in Headers
  BY DEF TypeOK, ClientRequests, Fits

LEMMA EntryOfCreate ==
    ASSUME TypeOK, NEW p \in Requests,
           pc[p] \in {"Create", "activities.Create", "notifications.Create"}
    PROVE  <<req[p].owner, req[p].id>> \in Entries
  <1>1. req[p].op = "create" /\ pc[p] # "idle"
    BY DEF TypeOK, Fits
  <1>. QED
    BY <1>1, RequestTypes DEF Entries

\* The calls that a step of the server may move a request to.
Follows(p, call) ==
    \/ call = "respond"
    \/ call = "activities.Create" /\ pc[p] = "Create"
    \/ call = "notifications.Create" /\ pc[p] = "activities.Create"
    \/ call = "Update" /\ pc[p] = "GetOwned" /\ req[p].op = "update"
    \/ call = "writeMiss" /\ pc[p] \in {"Update", "Delete"}

\* A step that moves p to a call that follows keeps every request fitting.
LEMMA StepFits ==
    ASSUME TypeOK, NEW p \in Requests, NEW call, Goto(p, call),
           Follows(p, call), req' = req, pc[p] # "idle"
    PROVE  /\ pc' \in [Requests -> Calls]
           /\ req' \in [Requests -> ClientRequests \cup {NoRequest}]
           /\ \A q \in Requests : Fits(pc'[q], req'[q])
  <1>1. pc' = [pc EXCEPT ![p] = call] /\ call \in Calls
    BY DEF Goto, Follows, Calls
  <1>2. \A q \in Requests \ {p} : pc'[q] = pc[q]
    BY <1>1 DEF TypeOK
  <1>3. pc'[p] = call
    BY <1>1 DEF TypeOK
  <1>4. Fits(call, req[p])
    BY DEF TypeOK, Fits, Follows
  <1>. QED
    BY <1>1, <1>2, <1>3, <1>4 DEF TypeOK

\* What a step that answers a request does to the requests.
LEMMA AnswerTypes ==
    ASSUME TypeOK, NEW p \in Requests, NEW status \in Statuses,
           NEW found \in SUBSET Row, Answer(p, status, found),
           req' = req, pc[p] # "idle"
    PROVE  /\ pc' \in [Requests -> Calls]
           /\ req' \in [Requests -> ClientRequests \cup {NoRequest}]
           /\ reply' \in [Requests -> [status : Statuses, rows : SUBSET Row]]
           /\ \A q \in Requests : Fits(pc'[q], req'[q])
  <1>1. Goto(p, "respond") /\ Follows(p, "respond")
    BY DEF Answer, Follows
  <1>2. reply' \in [Requests -> [status : Statuses, rows : SUBSET Row]]
    BY DEF TypeOK, Answer
  <1>. QED
    BY <1>1, <1>2, StepFits

-----------------------------------------------------------------------------
LEMMA TypeStep ==
    ASSUME TypeOK, [Next]_vars
    PROVE  TypeOK'
<1>1. ASSUME NEW p \in Requests, Receive(p) PROVE TypeOK'
  <2>1. PICK r \in ClientRequests :
          /\ req' = [req EXCEPT ![p] = r]
          /\ IF Rejected(r)
             THEN Answer(p, "bad_request", {})
             ELSE /\ \E first \in FirstCalls :
                        first[1] = r.op /\ Goto(p, first[2])
                  /\ UNCHANGED reply
    BY <1>1 DEF Receive
  <2>2. UNCHANGED <<stored, faults>>
    BY <1>1 DEF Receive
  <2>3. r # NoRequest /\ r.op \in Ops
    BY DEF ClientRequests, NoRequest
  <2>4. \A q \in Requests \ {p} : pc'[q] = pc[q] /\ req'[q] = req[q]
    BY <2>1 DEF TypeOK, Answer, Goto
  <2>5. req'[p] = r /\ req' \in [Requests -> ClientRequests \cup {NoRequest}]
    BY <2>1 DEF TypeOK
  <2>6. CASE Rejected(r)
    <3>1. /\ pc'[p] = "respond" /\ pc' \in [Requests -> Calls]
          /\ reply' \in [Requests -> [status : Statuses, rows : SUBSET Row]]
      BY <2>1, <2>6 DEF TypeOK, Answer, Goto, Calls, Statuses
    <3>2. Fits(pc'[p], req'[p])
      BY <3>1, <2>3, <2>5 DEF Fits
    <3>. QED
      BY <3>1, <3>2, <2>2, <2>4, <2>5 DEF TypeOK, stored
  <2>7. CASE ~Rejected(r)
    <3>1. PICK first \in FirstCalls : first[1] = r.op /\ Goto(p, first[2])
      BY <2>1, <2>7
    <3>2. first[2] \in Calls /\ Fits(first[2], r)
      BY <2>3, <2>7, <3>1 DEF FirstCalls, Calls, Fits, Rejected
    <3>3. pc'[p] = first[2] /\ pc' \in [Requests -> Calls]
      BY <3>1, <3>2 DEF TypeOK, Goto
    <3>. QED
      BY <2>1, <2>7, <3>2, <3>3, <2>2, <2>4, <2>5 DEF TypeOK, stored
  <2>. QED
    BY <2>6, <2>7
<1>2. ASSUME NEW p \in Requests, Create(p) PROVE TypeOK'
  <2>0. pc[p] = "Create" /\ pc[p] # "idle" /\ req' = req
        /\ activities' = activities /\ notifications' = notifications
        /\ faults' = faults
    BY <1>2 DEF Create
  <2>1. CASE /\ \E x \in rows : x.id = req[p].id
             /\ Answer(p, "conflict", {}) /\ rows' = rows
    <3>1. "conflict" \in Statuses /\ {} \in SUBSET Row
      BY DEF Statuses
    <3>. QED
      BY <2>0, <2>1, <3>1, AnswerTypes DEF TypeOK
  <2>2. ASSUME NEW v \in NextRev(req[p].owner),
               NEW new, new = [id |-> req[p].id, owner |-> req[p].owner,
                               content |-> req[p].content, rev |-> v,
                               deleted |-> FALSE],
               rows' = rows \cup {new},
               reply' = [reply EXCEPT ![p] = [status |-> "ok", rows |-> {new}]],
               Goto(p, "activities.Create")
        PROVE  TypeOK'
    <3>1. new \in Row
      <4>1. req[p].content # None /\ req[p].op = "create"
        BY <2>0 DEF TypeOK, Fits
      <4>2. v \in 0..MaxRev
        BY <2>2 DEF NextRev
      <4>. QED
        BY <2>0, <2>2, <4>1, <4>2, RequestTypes DEF Row
    <3>2. reply' \in [Requests -> [status : Statuses, rows : SUBSET Row]]
      BY <2>2, <3>1 DEF TypeOK, Statuses
    <3>3. Follows(p, "activities.Create")
      BY <2>0 DEF Follows
    <3>. QED
      BY <2>0, <2>2, <3>1, <3>2, <3>3, StepFits DEF TypeOK
  <2>. QED
    BY <1>2, <2>1, <2>2 DEF Create
<1>3. ASSUME NEW p \in Requests, RecordActivity(p) PROVE TypeOK'
  <2>1. Follows(p, "notifications.Create") /\ pc[p] # "idle"
    BY <1>3 DEF RecordActivity, Follows
  <2>2. activities' \in [Entries -> Nat]
    BY <1>3, EntryOfCreate DEF RecordActivity, TypeOK
  <2>. QED
    BY <1>3, <2>1, <2>2, StepFits DEF RecordActivity, TypeOK
<1>4. ASSUME NEW p \in Requests, RecordNotification(p) PROVE TypeOK'
  <2>1. Follows(p, "respond") /\ pc[p] # "idle"
    BY <1>4 DEF RecordNotification, Follows
  <2>2. notifications' \in [Entries -> Nat]
    BY <1>4, EntryOfCreate DEF RecordNotification, TypeOK
  <2>. QED
    BY <1>4, <2>1, <2>2, StepFits DEF RecordNotification, TypeOK
<1>5. ASSUME NEW p \in Requests, GetOwned(p) PROVE TypeOK'
  <2>1. pc[p] # "idle" /\ req' = req /\ UNCHANGED <<stored, faults>>
    BY <1>5 DEF GetOwned
  <2>2. Owned(req[p]) \in SUBSET Row
    BY DEF Owned, TypeOK
  <2>3. CASE \E status \in Statuses, found \in SUBSET Row :
                Answer(p, status, found)
    BY <2>1, <2>3, AnswerTypes DEF TypeOK, stored
  <2>4. CASE Goto(p, "Update") /\ UNCHANGED reply /\ req[p].op = "update"
    <3>1. Follows(p, "Update")
      BY <1>5, <2>4 DEF GetOwned, Follows
    <3>. QED
      BY <2>1, <2>4, <3>1, StepFits DEF TypeOK, stored
  <2>. QED
    BY <1>5, <2>2, <2>3, <2>4 DEF GetOwned, Statuses
<1>6. ASSUME NEW p \in Requests, Update(p) PROVE TypeOK'
  <2>1. /\ pc[p] = "Update" /\ pc[p] # "idle" /\ req' = req
        /\ activities' = activities /\ notifications' = notifications
        /\ faults' = faults
    BY <1>6 DEF Update
  <2>2. CASE Goto(p, "writeMiss") /\ UNCHANGED <<rows, reply>>
    <3>1. Follows(p, "writeMiss")
      BY <2>1 DEF Follows
    <3>. QED
      BY <2>1, <2>2, <3>1, StepFits DEF TypeOK
  <2>3. ASSUME NEW x \in Matched(req[p]), NEW v \in NextRev(req[p].owner),
               NEW new, new = Revised(x, req[p].content, v),
               rows' = (rows \ {x}) \cup {new}, Answer(p, "ok", {new})
        PROVE  TypeOK'
    <3>1. new \in Row
      <4>1. x \in Row
        BY DEF Matched, Owned, TypeOK
      <4>2. req[p].content \in Contents
        BY <2>1, RequestTypes DEF TypeOK, Fits
      <4>3. v \in 0..MaxRev
        BY DEF NextRev
      <4>. QED
        BY <2>3, <4>1, <4>2, <4>3, RevisedFields
    <3>2. {new} \in SUBSET Row /\ "ok" \in Statuses
      BY <3>1 DEF Statuses
    <3>. QED
      BY <2>1, <2>3, <3>1, <3>2, AnswerTypes DEF TypeOK
  <2>. QED
    BY <1>6, <2>2, <2>3 DEF Update
<1>7. ASSUME NEW p \in Requests, Delete(p) PROVE TypeOK'
  <2>1. /\ pc[p] = "Delete" /\ pc[p] # "idle" /\ req' = req
        /\ activities' = activities /\ notifications' = notifications
        /\ faults' = faults
    BY <1>7 DEF Delete
  <2>2. CASE Goto(p, "writeMiss") /\ UNCHANGED <<rows, reply>>
    <3>1. Follows(p, "writeMiss")
      BY <2>1 DEF Follows
    <3>. QED
      BY <2>1, <2>2, <3>1, StepFits DEF TypeOK
  <2>3. ASSUME NEW x \in Matched(req[p]), NEW v \in NextRev(req[p].owner),
               rows' = (rows \ {x}) \cup {Buried(x, v)},
               Answer(p, "ok", {})
        PROVE  TypeOK'
    <3>1. Buried(x, v) \in Row
      <4>1. x \in Row /\ v \in 0..MaxRev
        BY DEF Matched, Owned, TypeOK, NextRev
      <4>. QED
        BY <4>1, BuriedFields
    <3>2. {} \in SUBSET Row /\ "ok" \in Statuses
      BY DEF Statuses
    <3>. QED
      BY <2>1, <2>3, <3>1, <3>2, AnswerTypes DEF TypeOK
  <2>. QED
    BY <1>7, <2>2, <2>3 DEF Delete
<1>8. ASSUME NEW p \in Requests, WriteMiss(p) PROVE TypeOK'
  <2>1. pc[p] # "idle" /\ req' = req /\ UNCHANGED <<stored, faults>>
    BY <1>8 DEF WriteMiss
  <2>2. \E status \in Statuses : Answer(p, status, {})
    BY <1>8 DEF WriteMiss, Statuses
  <2>. QED
    BY <2>1, <2>2, AnswerTypes DEF TypeOK, stored
<1>9. ASSUME NEW p \in Requests, List(p) PROVE TypeOK'
  <2>1. pc[p] # "idle" /\ req' = req /\ UNCHANGED <<stored, faults>>
    BY <1>9 DEF List
  <2>2. \E found \in SUBSET Row : Answer(p, "ok", found)
    BY <1>9 DEF List, Live, Since, TypeOK
  <2>. QED
    BY <2>1, <2>2, AnswerTypes DEF TypeOK, stored, Statuses
<1>10. ASSUME NEW p \in Requests, Respond(p) PROVE TypeOK'
  <2>1. /\ pc' = [pc EXCEPT ![p] = "idle"]
        /\ req' = [req EXCEPT ![p] = NoRequest]
        /\ reply' = [reply EXCEPT ![p] = NoReply]
        /\ UNCHANGED <<stored, faults>>
    BY <1>10 DEF Respond, Goto
  <2>2. \A q \in Requests : Fits(pc'[q], req'[q])
    BY <2>1 DEF TypeOK, Fits
  <2>3. NoReply \in [status : Statuses, rows : SUBSET Row] /\ "idle" \in Calls
    BY DEF NoReply, Statuses, Calls
  <2>. QED
    BY <2>1, <2>2, <2>3 DEF TypeOK, stored
<1>11. ASSUME NEW p \in Requests, DbFail(p) PROVE TypeOK'
  <2>1. /\ pc[p] # "idle" /\ req' = req /\ UNCHANGED stored
        /\ faults' \in 0..MaxFaults
    BY <1>11 DEF DbFail, TypeOK
  <2>2. CASE Answer(p, "server_error", {})
    <3>1. "server_error" \in Statuses /\ {} \in SUBSET Row
      BY DEF Statuses
    <3>. QED
      BY <2>1, <2>2, <3>1, AnswerTypes DEF TypeOK, stored
  <2>3. CASE /\ UNCHANGED reply
             /\ \/ pc[p] = "activities.Create" /\ Goto(p, "notifications.Create")
                \/ pc[p] = "notifications.Create" /\ Goto(p, "respond")
    <3>1. \E call : Goto(p, call) /\ Follows(p, call)
      BY <2>3 DEF Follows
    <3>. QED
      BY <2>1, <2>3, <3>1, StepFits DEF TypeOK, stored
  <2>. QED
    BY <1>11, <2>2, <2>3 DEF DbFail
<1>12. CASE Crash
  <2>1. NoReply \in [status : Statuses, rows : SUBSET Row] /\ "idle" \in Calls
    BY DEF NoReply, Statuses, Calls
  <2>2. \A q \in Requests : Fits("idle", NoRequest)
    BY DEF Fits
  <2>. QED
    BY <1>12, <2>1, <2>2 DEF Crash, TypeOK, stored
<1>13. CASE UNCHANGED vars
  BY <1>13 DEF vars, TypeOK
<1>. QED
  BY <1>1, <1>2, <1>3, <1>4, <1>5, <1>6, <1>7, <1>8, <1>9, <1>10, <1>11,
     <1>12, <1>13 DEF Next, Serve

\* Every reachable state has the types of TypeOK.
THEOREM TypeCorrect == Spec => []TypeOK
<1>1. Init => TypeOK
  BY LegacyAssumption
  DEF Init, TypeOK, Calls, NoRequest, NoReply, Statuses, Fits, Entries
<1>2. TypeOK /\ [Next]_vars => TypeOK'
  BY TypeStep
<1>. QED
  BY <1>1, <1>2, PTL DEF Spec

-----------------------------------------------------------------------------
\* All that a step can do to the table: add a row under a new id, or put a
\* live row's successor in its place; both under the owner's next revision.
Inserted(new) ==
    /\ new \in Row
    /\ \A x \in rows : x.id # new.id
    /\ new.rev \in NextRev(new.owner)
    /\ ~new.deleted
    /\ rows' = rows \cup {new}

Replaced(x, new) ==
    /\ ~x.deleted
    /\ new \in Row
    /\ new.rev \in NextRev(x.owner)
    /\ \/ \E c \in Contents : new = Revised(x, c, new.rev)
       \/ new = Buried(x, new.rev)
    /\ rows' = (rows \ {x}) \cup {new}

LEMMA TableSteps ==
    ASSUME TypeOK, [Next]_vars
    PROVE  \/ rows' = rows
           \/ \E new \in Row : Inserted(new)
           \/ \E x \in rows, new \in Row : Replaced(x, new)
<1> DEFINE Step == \/ rows' = rows
                   \/ \E new \in Row : Inserted(new)
                   \/ \E x \in rows, new \in Row : Replaced(x, new)
<1>1. ASSUME NEW p \in Requests, Create(p) PROVE Step
  <2>1. CASE UNCHANGED rows
    BY <2>1
  <2>2. ASSUME NEW v \in NextRev(req[p].owner), NEW new,
               new = [id |-> req[p].id, owner |-> req[p].owner,
                      content |-> req[p].content, rev |-> v, deleted |-> FALSE],
               \A x \in rows : x.id # req[p].id,
               rows' = rows \cup {new}
        PROVE  Step
    <3>1. /\ req[p].op = "create" /\ req[p].content # None /\ pc[p] # "idle"
          /\ v \in 0..MaxRev
      BY <1>1 DEF Create, TypeOK, Fits, NextRev
    <3>2. new \in Row
      BY <2>2, <3>1, RequestTypes DEF Row
    <3>3. Inserted(new)
      BY <2>2, <3>2 DEF Inserted
    <3>. QED
      BY <3>2, <3>3
  <2>. QED
    BY <1>1, <2>1, <2>2 DEF Create
<1>2. ASSUME NEW p \in Requests, Update(p) PROVE Step
  <2>1. CASE UNCHANGED rows
    BY <2>1
  <2>2. ASSUME NEW x \in Matched(req[p]), NEW v \in NextRev(req[p].owner),
               rows' = (rows \ {x}) \cup {Revised(x, req[p].content, v)}
        PROVE  Step
    <3>1. /\ x \in rows /\ x \in Row /\ ~x.deleted /\ x.owner = req[p].owner
          /\ v \in 0..MaxRev
      BY DEF Matched, Owned, TypeOK, NextRev
    <3>2. req[p].content \in Contents
      BY <1>2, RequestTypes DEF Update, TypeOK, Fits
    <3>3. Replaced(x, Revised(x, req[p].content, v))
      BY <2>2, <3>1, <3>2, RevisedFields DEF Replaced
    <3>. QED
      BY <3>1, <3>2, <3>3, RevisedFields
  <2>. QED
    BY <1>2, <2>1, <2>2 DEF Update
<1>3. ASSUME NEW p \in Requests, Delete(p) PROVE Step
  <2>1. CASE UNCHANGED rows
    BY <2>1
  <2>2. ASSUME NEW x \in Matched(req[p]), NEW v \in NextRev(req[p].owner),
               rows' = (rows \ {x}) \cup {Buried(x, v)}
        PROVE  Step
    <3>1. /\ x \in rows /\ x \in Row /\ ~x.deleted /\ x.owner = req[p].owner
          /\ v \in 0..MaxRev
      BY DEF Matched, Owned, TypeOK, NextRev
    <3>2. Replaced(x, Buried(x, v))
      BY <2>2, <3>1, BuriedFields DEF Replaced
    <3>. QED
      BY <3>1, <3>2, BuriedFields
  <2>. QED
    BY <1>3, <2>1, <2>2 DEF Delete
<1>4. ASSUME NEW p \in Requests,
             \/ Receive(p) \/ RecordActivity(p) \/ RecordNotification(p)
             \/ GetOwned(p) \/ WriteMiss(p) \/ List(p) \/ Respond(p) \/ DbFail(p)
      PROVE  rows' = rows
  BY <1>4 DEF Receive, RecordActivity, RecordNotification, GetOwned, WriteMiss,
              List, Respond, DbFail, stored
<1>5. CASE Crash \/ UNCHANGED vars
  BY <1>5 DEF Crash, stored, vars
<1>. QED
  BY <1>1, <1>2, <1>3, <1>4, <1>5 DEF Next, Serve

\* What both kinds of change have in common.
LEMMA ReplacedFields ==
    ASSUME NEW x \in Row, NEW new, Replaced(x, new)
    PROVE  /\ new.id = x.id /\ new.owner = x.owner
           /\ new.rev \in NextRev(x.owner)
  <1>1. new.rev \in 0..MaxRev
    BY DEF Replaced, NextRev
  <1>2. ASSUME NEW c \in Contents, new = Revised(x, c, new.rev)
        PROVE  new.id = x.id /\ new.owner = x.owner
    <2>1. /\ Revised(x, c, new.rev).id = x.id
          /\ Revised(x, c, new.rev).owner = x.owner
      BY <1>1, RevisedFields
    <2>. QED
      BY ONLY <1>2, <2>1, Zenon
  <1>3. CASE new = Buried(x, new.rev)
    <2>1. /\ Buried(x, new.rev).id = x.id
          /\ Buried(x, new.rev).owner = x.owner
      BY <1>1, BuriedFields
    <2>. QED
      BY <1>3, <2>1, Zenon DEF Replaced
  <1>. QED
    BY <1>2, <1>3 DEF Replaced

\* A revision handed out is above all the owner has, and not 0.
LEMMA NextRevTops ==
    ASSUME NEW o, NEW v \in NextRev(o)
    PROVE  v \in 1..MaxRev /\ \A x \in rows : x.owner = o => x.rev < v
  BY DEF NextRev

-----------------------------------------------------------------------------
LEMMA KeysStep ==
    ASSUME TypeOK, KeysIdentifyRows, [Next]_vars
    PROVE  KeysIdentifyRows'
<1>0. \A x \in rows : x.rev \in 0..MaxRev
  BY DEF TypeOK, Row
<1>1. CASE rows' = rows
  BY <1>1 DEF KeysIdentifyRows
<1>2. ASSUME NEW new \in Row, Inserted(new) PROVE KeysIdentifyRows'
  <2>1. \A x \in rows : x.id # new.id /\ (x.owner = new.owner => x.rev < new.rev)
    BY <1>2, NextRevTops DEF Inserted
  <2>2. new.rev \in 1..MaxRev
    BY <1>2, NextRevTops DEF Inserted
  <2>. QED
    BY <1>0, <1>2, <2>1, <2>2 DEF KeysIdentifyRows, Inserted
<1>3. ASSUME NEW x \in rows, NEW new \in Row, Replaced(x, new)
      PROVE  KeysIdentifyRows'
  <2>1. /\ x \in Row /\ new.id = x.id /\ new.owner = x.owner
        /\ new.rev \in 1..MaxRev
        /\ \A y \in rows : y.owner = new.owner => y.rev < new.rev
    BY <1>3, ReplacedFields, NextRevTops DEF TypeOK
  <2>2. rows' = (rows \ {x}) \cup {new}
    BY <1>3 DEF Replaced
  <2>. QED
    BY <1>0, <2>1, <2>2 DEF KeysIdentifyRows
<1>. QED
  BY <1>1, <1>2, <1>3, TableSteps

(***************************************************************************)
(* Ids and revisions identify rows, however many requests interleave.      *)
(***************************************************************************)
THEOREM KeysCorrect == Spec => []KeysIdentifyRows
<1>1. Init => KeysIdentifyRows
  BY LegacyAssumption DEF Init, KeysIdentifyRows
<1>2. TypeOK /\ KeysIdentifyRows /\ [Next]_vars => KeysIdentifyRows'
  BY KeysStep
<1>. QED
  BY <1>1, <1>2, TypeCorrect, PTL DEF Spec

\* Rows never leave, tombstones are final, and what changes is above all else.
Advance ==
    /\ \A x \in rows : \E y \in rows' :
          y.id = x.id /\ y.owner = x.owner /\ (x.deleted => y = x)
    /\ \A y \in rows' \ rows, x \in rows :
          x.owner = y.owner => x.rev < y.rev

LEMMA AdvanceStep ==
    ASSUME TypeOK, [Next]_vars
    PROVE  Advance
<1>1. CASE rows' = rows
  BY <1>1 DEF Advance
<1>2. ASSUME NEW new \in Row, Inserted(new) PROVE Advance
  BY <1>2, NextRevTops DEF Inserted, Advance
<1>3. ASSUME NEW z \in rows, NEW new \in Row, Replaced(z, new) PROVE Advance
  <2>1. z \in Row
    BY DEF TypeOK
  <2>2. /\ new.id = z.id /\ new.owner = z.owner /\ ~z.deleted
        /\ rows' = (rows \ {z}) \cup {new}
        /\ \A x \in rows : x.owner = new.owner => x.rev < new.rev
    BY <1>3, <2>1, ReplacedFields, NextRevTops DEF Replaced
  <2>. QED
    BY <2>2 DEF Advance
<1>. QED
  BY <1>1, <1>2, <1>3, TableSteps

(***************************************************************************)
(* Rows stay, tombstones are final, and every change is given a revision   *)
(* above all the revisions of its owner.                                   *)
(***************************************************************************)
THEOREM RowsAdvance == Spec => RowsOnlyAdvance
<1>1. TypeOK /\ [Next]_vars => [Advance]_vars
  BY AdvanceStep
<1>. QED
  BY <1>1, TypeCorrect, PTL DEF Spec, RowsOnlyAdvance, Advance

\* The part of it that most proofs need.
LEMMA RowsStay ==
    ASSUME TypeOK, [Next]_vars, NEW x \in rows
    PROVE  \E y \in rows' : y.id = x.id /\ y.owner = x.owner /\ (x.deleted => y = x)
  BY AdvanceStep DEF Advance

-----------------------------------------------------------------------------
\* A request between its insert and its last feed entry.
Recording(p) == pc[p] \in {"activities.Create", "notifications.Create"}

\* What makes FeedsMatchRows inductive: a recording request won the insert of
\* a row that has not been recorded yet, and nobody else records that row.
OneRecorder ==
    /\ \A p \in Requests : Recording(p) =>
          LET e == <<req[p].owner, req[p].id>> IN
          /\ \E x \in rows : x.owner = req[p].owner /\ x.id = req[p].id
          /\ notifications[e] = 0
          /\ pc[p] = "activities.Create" => activities[e] = 0
    /\ \A p, q \in Requests :
          Recording(p) /\ Recording(q) /\ req[p].id = req[q].id => p = q

FeedsInductive == FeedsMatchRows /\ OneRecorder

\* A step that records nothing and starts no recording.
LEMMA QuietSteps ==
    ASSUME TypeOK, FeedsInductive, [Next]_vars,
           activities' = activities, notifications' = notifications,
           \A p \in Requests : Recording(p)' =>
              Recording(p) /\ req'[p] = req[p] /\ (pc'[p] = "activities.Create" => pc[p] = "activities.Create")
    PROVE  FeedsInductive'
<1>1. \A x \in rows : \E y \in rows' : y.id = x.id /\ y.owner = x.owner
  BY RowsStay
<1>2. FeedsMatchRows'
  BY <1>1 DEF FeedsInductive, FeedsMatchRows
<1>3. OneRecorder'
  BY <1>1 DEF FeedsInductive, OneRecorder, Recording
<1>. QED
  BY <1>2, <1>3 DEF FeedsInductive

LEMMA FeedsStep ==
    ASSUME TypeOK, FeedsInductive, [Next]_vars
    PROVE  FeedsInductive'
<1>0. \A x \in rows : \E y \in rows' : y.id = x.id /\ y.owner = x.owner
  BY RowsStay
<1>1. ASSUME NEW p \in Requests, Create(p), rows' # rows PROVE FeedsInductive'
  <2>1. PICK new : /\ new.id = req[p].id /\ new.owner = req[p].owner
                   /\ rows' = rows \cup {new}
    BY <1>1 DEF Create
  <2>2. /\ \A x \in rows : x.id # req[p].id
        /\ activities' = activities /\ notifications' = notifications
        /\ pc' = [pc EXCEPT ![p] = "activities.Create"] /\ req' = req
    BY <1>1 DEF Create, Goto
  <2>3. <<req[p].owner, req[p].id>> \in Entries
    BY <1>1, EntryOfCreate DEF Create
  <2>4. /\ activities[<<req[p].owner, req[p].id>>] = 0
        /\ notifications[<<req[p].owner, req[p].id>>] = 0
    <3> DEFINE e == <<req[p].owner, req[p].id>>
    <3>1. activities[e] \in Nat /\ notifications[e] \in Nat
      BY <2>3 DEF TypeOK
    <3>2. ~(activities[e] + notifications[e] > 0)
      BY <2>2, <2>3 DEF FeedsInductive, FeedsMatchRows
    <3>. QED
      BY <3>1, <3>2
  <2>5. \A q \in Requests : Recording(q) => req[q].id # req[p].id
    BY <2>2 DEF FeedsInductive, OneRecorder
  <2>6. \A q \in Requests : q # p => (Recording(q)' <=> Recording(q)) /\ pc'[q] = pc[q]
    BY <2>2 DEF TypeOK, Recording
  <2>7. FeedsMatchRows'
    BY <1>0, <2>2 DEF FeedsInductive, FeedsMatchRows
  <2>8. OneRecorder'
    BY <1>0, <2>1, <2>2, <2>4, <2>5, <2>6 DEF FeedsInductive, OneRecorder
  <2>. QED
    BY <2>7, <2>8 DEF FeedsInductive
<1>2. ASSUME NEW p \in Requests, RecordActivity(p) PROVE FeedsInductive'
  <2> DEFINE e == <<req[p].owner, req[p].id>>
  <2>1. e \in Entries /\ Recording(p)
    BY <1>2, EntryOfCreate DEF RecordActivity, Recording
  <2>2. activities[e] = 0 /\ notifications[e] = 0
        /\ \E x \in rows : x.owner = e[1] /\ x.id = e[2]
    BY <1>2, <2>1 DEF RecordActivity, FeedsInductive, OneRecorder
  <2>3. activities'[e] = 1 /\ \A f \in Entries : f # e => activities'[f] = activities[f]
    BY <1>2, <2>1, <2>2 DEF RecordActivity, TypeOK
  <2>4. /\ rows' = rows /\ notifications' = notifications /\ req' = req
        /\ pc' = [pc EXCEPT ![p] = "notifications.Create"]
    BY <1>2 DEF RecordActivity, Goto
  <2>5. \A q \in Requests : q # p => pc'[q] = pc[q] /\ (Recording(q)' <=> Recording(q))
    BY <2>4 DEF TypeOK, Recording
  <2>6. pc'[p] = "notifications.Create"
    BY <2>4 DEF TypeOK
  <2>7. \A q \in Requests : q # p /\ Recording(q) => <<req[q].owner, req[q].id>> # e
    BY <2>1 DEF FeedsInductive, OneRecorder
  <2>8. FeedsMatchRows'
    BY <2>2, <2>3, <2>4 DEF FeedsInductive, FeedsMatchRows
  <2>9. \A q \in Requests : Recording(q) => <<req[q].owner, req[q].id>> \in Entries
    BY EntryOfCreate DEF Recording
  <2>10. OneRecorder'
    BY <2>1, <2>2, <2>3, <2>4, <2>5, <2>6, <2>7, <2>9 DEF FeedsInductive, OneRecorder
  <2>. QED
    BY <2>8, <2>10 DEF FeedsInductive
<1>3. ASSUME NEW p \in Requests, RecordNotification(p) PROVE FeedsInductive'
  <2> DEFINE e == <<req[p].owner, req[p].id>>
  <2>1. e \in Entries /\ Recording(p)
    BY <1>3, EntryOfCreate DEF RecordNotification, Recording
  <2>2. notifications[e] = 0 /\ \E x \in rows : x.owner = e[1] /\ x.id = e[2]
    BY <2>1 DEF FeedsInductive, OneRecorder
  <2>3. notifications'[e] = 1
        /\ \A f \in Entries : f # e => notifications'[f] = notifications[f]
    BY <1>3, <2>1, <2>2 DEF RecordNotification, TypeOK
  <2>4. /\ rows' = rows /\ activities' = activities /\ req' = req
        /\ pc' = [pc EXCEPT ![p] = "respond"]
    BY <1>3 DEF RecordNotification, Goto
  <2>5. \A q \in Requests : q # p => pc'[q] = pc[q] /\ (Recording(q)' <=> Recording(q))
    BY <2>4 DEF TypeOK, Recording
  <2>6. ~Recording(p)'
    BY <2>4 DEF TypeOK, Recording
  <2>7. \A q \in Requests : q # p /\ Recording(q) => <<req[q].owner, req[q].id>> # e
    BY <2>1 DEF FeedsInductive, OneRecorder
  <2>8. FeedsMatchRows'
    BY <2>2, <2>3, <2>4 DEF FeedsInductive, FeedsMatchRows
  <2>9. \A q \in Requests : Recording(q) => <<req[q].owner, req[q].id>> \in Entries
    BY EntryOfCreate DEF Recording
  <2>10. OneRecorder'
    BY <2>2, <2>3, <2>4, <2>5, <2>6, <2>7, <2>9 DEF FeedsInductive, OneRecorder
  <2>. QED
    BY <2>8, <2>10 DEF FeedsInductive
<1>4. ASSUME NEW p \in Requests,
             \/ Receive(p) \/ (Create(p) /\ rows' = rows) \/ GetOwned(p)
             \/ Update(p) \/ Delete(p) \/ WriteMiss(p) \/ List(p)
             \/ Respond(p) \/ DbFail(p)
      PROVE  FeedsInductive'
  <2>1. activities' = activities /\ notifications' = notifications
    BY <1>4 DEF Receive, Create, GetOwned, Update, Delete, WriteMiss, List,
                Respond, DbFail, stored
  <2>2. \A q \in Requests : q # p => pc'[q] = pc[q] /\ req'[q] = req[q]
    BY <1>4 DEF Receive, Create, GetOwned, Update, Delete, WriteMiss, List,
                Respond, DbFail, Answer, Goto, TypeOK
  <2>3. Recording(p)' => /\ Recording(p) /\ req'[p] = req[p]
                         /\ pc'[p] # "activities.Create"
    <3>1. CASE Receive(p)
      BY <3>1 DEF Receive, Answer, Goto, FirstCalls, Recording, TypeOK
    <3>2. CASE Create(p) /\ rows' = rows
      <4>1. ASSUME NEW new, rows' = rows \cup {new}, new.id = req[p].id,
                   \A x \in rows : x.id # req[p].id
            PROVE  FALSE
        BY <3>2, <4>1
      <4>2. Answer(p, "conflict", {})
        BY <3>2, <4>1 DEF Create
      <4>. QED
        BY <4>2 DEF Answer, Goto, Recording, TypeOK
    <3>3. CASE \/ GetOwned(p) \/ Update(p) \/ Delete(p) \/ WriteMiss(p) \/ List(p)
               \/ Respond(p)
      BY <3>3 DEF GetOwned, Update, Delete, WriteMiss, List, Respond, Answer,
                  Goto, Recording, TypeOK
    <3>4. CASE DbFail(p)
      BY <3>4 DEF DbFail, Answer, Goto, Recording, TypeOK
    <3>. QED
      BY <1>4, <3>1, <3>2, <3>3, <3>4
  <2>. QED
    BY <2>1, <2>2, <2>3, QuietSteps DEF Recording
<1>5. CASE Crash
  BY <1>5, QuietSteps DEF Crash, stored, Recording
<1>6. CASE UNCHANGED vars
  BY <1>6, QuietSteps DEF vars, Recording
<1>. QED
  BY <1>1, <1>2, <1>3, <1>4, <1>5, <1>6 DEF Next, Serve

(***************************************************************************)
(* Feed entries are about existing rows, at most one of each kind per row. *)
(***************************************************************************)
THEOREM FeedsCorrect == Spec => []FeedsMatchRows
<1>1. Init => FeedsInductive
  BY DEF Init, FeedsInductive, FeedsMatchRows, OneRecorder, Recording
<1>2. TypeOK /\ FeedsInductive /\ [Next]_vars => FeedsInductive'
  BY FeedsStep
<1>3. FeedsInductive => FeedsMatchRows
  BY DEF FeedsInductive
<1>. QED
  BY <1>1, <1>2, <1>3, TypeCorrect, PTL DEF Spec

-----------------------------------------------------------------------------
\* A step of one request leaves the others where they are.
LEMMA OnlyOneMoves ==
    ASSUME TypeOK, NEW p \in Requests, NEW q \in Requests, p # q,
           Receive(p) \/ Serve(p) \/ DbFail(p)
    PROVE  pc'[q] = pc[q] /\ req'[q] = req[q] /\ reply'[q] = reply[q]
<1>1. CASE Receive(p) \/ DbFail(p)
  BY <1>1 DEF Receive, DbFail, Answer, Goto, TypeOK
<1>2. CASE Serve(p)
  BY <1>2
  DEF Serve, Create, RecordActivity, RecordNotification, GetOwned, Update,
      Delete, WriteMiss, List, Respond, Answer, Goto, TypeOK
<1>. QED
  BY <1>1, <1>2

\* As long as nothing has failed, a creation on its way to "ok" has made the
\* entries that its call comes after.
Recorded(p) ==
    LET e == <<req[p].owner, req[p].id>> IN
    faults = 0 =>
        /\ pc[p] = "notifications.Create" => activities[e] > 0
        /\ pc[p] = "respond" /\ req[p].op = "create" /\ reply[p].status = "ok"
              => activities[e] > 0 /\ notifications[e] > 0

\* Entries are only ever added.
LEMMA EntriesGrow ==
    ASSUME TypeOK, [Next]_vars, NEW e
    PROVE  /\ activities[e] > 0 /\ e \in Entries => activities'[e] > 0
           /\ notifications[e] > 0 /\ e \in Entries => notifications'[e] > 0
<1>1. CASE activities' = activities /\ notifications' = notifications
  BY <1>1
<1>2. ASSUME NEW p \in Requests, RecordActivity(p) \/ RecordNotification(p)
      PROVE  /\ activities[e] > 0 /\ e \in Entries => activities'[e] > 0
             /\ notifications[e] > 0 /\ e \in Entries => notifications'[e] > 0
  BY <1>2 DEF RecordActivity, RecordNotification, TypeOK
<1>. QED
  BY <1>1, <1>2
  DEF Next, Serve, Receive, Create, GetOwned, Update, Delete, WriteMiss, List,
      Respond, DbFail, Crash, stored, vars

\* The entry of a request that creates.
LEMMA EntryOfCreation ==
    ASSUME TypeOK, NEW p \in Requests, pc[p] # "idle", req[p].op = "create"
    PROVE  <<req[p].owner, req[p].id>> \in Entries
  BY RequestTypes DEF Entries

LEMMA RecordedStep ==
    ASSUME TypeOK, [Next]_vars, NEW p \in Requests, Recorded(p)
    PROVE  Recorded(p)'
<1> DEFINE e == <<req[p].owner, req[p].id>>
<1>1. CASE pc'[p] = pc[p] /\ req'[p] = req[p] /\ reply'[p] = reply[p] /\ faults' >= faults
  <2>1. pc[p] = "notifications.Create" => req[p].op = "create"
    BY DEF TypeOK, Fits
  <2>2. pc[p] \in {"notifications.Create", "respond"} /\ req[p].op = "create"
           => e \in Entries
    BY EntryOfCreation
  <2>3. faults \in Nat
    BY DEF TypeOK
  <2>. QED
    BY <1>1, <2>1, <2>2, <2>3, EntriesGrow DEF Recorded, TypeOK
<1>2. ASSUME NEW q \in Requests, Receive(q) \/ Serve(q) PROVE Recorded(p)'
  <2>1. CASE q # p
    <3>1. faults' = faults /\ faults \in Nat
      BY <1>2 DEF Receive, Serve, Create, RecordActivity, RecordNotification, GetOwned,
                  Update, Delete, WriteMiss, List, Respond, TypeOK
    <3>2. pc'[p] = pc[p] /\ req'[p] = req[p] /\ reply'[p] = reply[p]
      BY <1>2, <2>1, OnlyOneMoves
    <3>. QED
      BY <1>1, <3>1, <3>2
  <2>2. CASE q = p /\ RecordActivity(p)
    <3>1. e \in Entries /\ pc'[p] = "notifications.Create" /\ req' = req
      BY <2>2, EntryOfCreate DEF RecordActivity, Goto, TypeOK
    <3>2. activities'[e] > 0
      BY <2>2, <3>1 DEF RecordActivity, TypeOK
    <3>. QED
      BY <3>1, <3>2 DEF Recorded
  <2>3. CASE q = p /\ RecordNotification(p)
    <3>1. e \in Entries /\ pc'[p] = "respond" /\ req' = req /\ faults' = faults
      BY <2>3, EntryOfCreate DEF RecordNotification, Goto, TypeOK
    <3>2. faults = 0 => activities'[e] > 0 /\ notifications'[e] > 0
      BY <2>3, <3>1 DEF RecordNotification, Recorded, TypeOK
    <3>. QED
      BY <3>1, <3>2 DEF Recorded
  <2>4. CASE q = p /\ ~RecordActivity(p) /\ ~RecordNotification(p)
    <3>1. pc'[p] # "notifications.Create"
      BY <1>2, <2>4 DEF Receive, Serve, Create, GetOwned, Update, Delete, WriteMiss,
                        List, Respond, Answer, Goto, FirstCalls, TypeOK
    <3>2. pc'[p] = "respond" /\ reply'[p].status = "ok" => req'[p].op # "create"
      <4>1. CASE Receive(p)
        <5>1. CASE reply' = reply
          BY <4>1, <5>1 DEF Receive, Answer, Goto, FirstCalls, TypeOK
        <5>. QED
          BY <4>1, <5>1 DEF Receive, Answer, TypeOK
      <4>2. CASE Create(p)
        BY <4>2 DEF Create, Answer, Goto, TypeOK
      <4>3. CASE GetOwned(p) \/ Update(p) \/ Delete(p) \/ List(p)
        <5>1. req' = req /\ req[p].op # "create"
          BY <4>3 DEF GetOwned, Update, Delete, List, TypeOK, Fits
        <5>. QED
          BY <5>1
      <4>4. CASE WriteMiss(p)
        BY <4>4 DEF WriteMiss, Answer, TypeOK
      <4>5. CASE Respond(p)
        BY <4>5 DEF Respond, Goto, TypeOK
      <4>. QED
        BY <1>2, <2>4, <4>1, <4>2, <4>3, <4>4, <4>5 DEF Serve
    <3>. QED
      BY <3>1, <3>2 DEF Recorded
  <2>. QED
    BY <1>2, <2>1, <2>2, <2>3, <2>4
<1>3. CASE faults' # 0
  BY <1>3 DEF Recorded
<1>4. CASE (\E q \in Requests : DbFail(q)) \/ Crash
  <2>1. faults' # 0
    BY <1>4 DEF DbFail, Crash, TypeOK
  <2>. QED
    BY <2>1, <1>3
<1>5. CASE UNCHANGED vars
  BY <1>1, <1>5 DEF vars, TypeOK
<1>. QED
  BY <1>2, <1>4, <1>5 DEF Next

-----------------------------------------------------------------------------
\* What an implementation that looks once refuses.
LEMMA AtomicRefusals ==
    ASSUME NEW r, ~Rejected(r)
    PROVE  /\ r.op = "create" /\ (\E x \in rows : x.id = r.id)
                => AtomicAnswer(r) = "conflict"
           /\ r.op \in {"get", "update", "delete"} /\ Owned(r) = {}
                => AtomicAnswer(r) = "not_found"
           /\ r.op \in {"get", "update", "delete"} /\ Owned(r) # {} /\ Matched(r) = {}
                => AtomicAnswer(r) = "conflict"
<1>1. ASSUME r.op = "create", \E x \in rows : x.id = r.id
      PROVE  AtomicAnswer(r) = "conflict"
  BY <1>1, Zenon DEF AtomicAnswer
<1>2. ASSUME r.op \in {"get", "update", "delete"}, Owned(r) = {}
      PROVE  AtomicAnswer(r) = "not_found"
  BY <1>2, Zenon DEF AtomicAnswer, Owned
<1>3. ASSUME r.op \in {"get", "update", "delete"}, Owned(r) # {}, Matched(r) = {}
      PROVE  AtomicAnswer(r) = "conflict"
  BY <1>3, Zenon DEF AtomicAnswer, Owned, Matched
<1>. QED
  BY <1>1, <1>2, <1>3

\* A refusal of which it is claimed that it was due.
Refused(p) ==
    /\ reply[p].status \in {"conflict", "not_found"}
    /\ ~(req[p].op = "delete" /\ reply[p].status = "conflict")

\* What makes RefusalsAreDue inductive.  An update that has passed GetOwned
\* knows that its row exists.  When the guarded statement has matched nothing,
\* either the revision was wrong at that moment, or the row was a tombstone,
\* and then it still is.
Due(p) ==
    /\ pc[p] = "idle" => reply[p] = NoReply
    /\ pc[p] = "Update" =>
          \E x \in rows : x.id = req[p].id /\ x.owner = req[p].owner
    /\ pc[p] = "writeMiss" =>
          req[p].op \in {"update", "delete"} /\ ~Rejected(req[p])
    /\ pc[p] = "writeMiss" /\ req[p].op = "update" =>
          \/ "conflict" \in moments[p]
          \/ \E x \in rows : x.id = req[p].id /\ x.deleted
    /\ Refused(p) => reply[p].status \in moments[p]

LEMMA DueStep ==
    ASSUME TypeOK, KeysIdentifyRows, [ONext]_ovars, NEW q \in Requests, Due(q)
    PROVE  Due(q)'
<1>0. /\ [Next]_vars
      /\ pc \in [Requests -> Calls] /\ Fits(pc[q], req[q])
      /\ reply \in [Requests -> [status : Statuses, rows : SUBSET Row]]
      /\ req \in [Requests -> ClientRequests \cup {NoRequest}]
  BY DEF TypeOK, ONext, ovars
<1>1. ASSUME ONext, pc'[q] # "idle"
      PROVE  moments'[q] = moments[q] \cup {AtomicAnswer(req'[q])}
  BY <1>1 DEF ONext
<1>2. ASSUME NEW x \in rows
      PROVE  \E y \in rows' :
                y.id = x.id /\ y.owner = x.owner /\ (x.deleted => y.deleted)
  BY <1>0, <1>2, RowsStay
<1>3. ASSUME ONext, pc'[q] = pc[q], req'[q] = req[q], reply'[q] = reply[q]
      PROVE  Due(q)'
  <2>1. CASE pc[q] = "idle"
    BY <1>3, <2>1 DEF Due, Refused, NoReply
  <2>2. CASE pc[q] # "idle"
    <3>1. moments[q] \subseteq moments'[q]
      BY <1>1, <1>3, <2>2
    <3>2. \A i, o : (\E x \in rows : x.id = i /\ x.owner = o)
                => \E x \in rows' : x.id = i /\ x.owner = o
      BY <1>2
    <3>3. \A i : (\E x \in rows : x.id = i /\ x.deleted)
                => \E x \in rows' : x.id = i /\ x.deleted
      BY <1>2
    <3>. QED
      BY <1>3, <2>2, <3>1, <3>2, <3>3 DEF Due, Refused
  <2>. QED
    BY <2>1, <2>2
\* The answers of q.
<1>4. ASSUME ONext, req' = req, pc[q] # "idle",
             NEW status, NEW found, Answer(q, status, found),
             \/ status \notin {"conflict", "not_found"}
             \/ req[q].op = "delete" /\ status = "conflict"
             \/ status = AtomicAnswer(req[q])
             \/ status \in moments[q]
      PROVE  Due(q)'
  <2>1. /\ pc'[q] = "respond" /\ req'[q] = req[q]
        /\ reply'[q].status = status
    BY <1>0, <1>4 DEF Answer, Goto
  <2>2. moments'[q] = moments[q] \cup {AtomicAnswer(req[q])}
    BY <1>1, <1>4, <2>1
  <2>. QED
    BY <1>4, <2>1, <2>2 DEF Due, Refused
\* Its other steps.
<1>5. ASSUME ONext, req' = req, UNCHANGED reply, pc[q] # "idle",
             NEW call, Goto(q, call), call \notin {"idle", "Update", "writeMiss"}
      PROVE  Due(q)'
  <2>1. pc'[q] = call /\ moments[q] \subseteq moments'[q]
    BY <1>0, <1>1, <1>5 DEF Goto
  <2>. QED
    BY <1>5, <2>1 DEF Due, Refused
<1>6. ASSUME ONext, Receive(q) PROVE Due(q)'
  <2>1. reply[q] = NoReply
    BY <1>6 DEF Receive, Due
  <2>2. CASE Answer(q, "bad_request", {})
    BY <1>0, <2>2 DEF Answer, Goto, Due, Refused
  <2>3. ASSUME UNCHANGED reply, NEW first \in FirstCalls, Goto(q, first[2])
        PROVE  Due(q)'
    <3>1. first[2] \notin {"Update", "writeMiss"}
      BY DEF FirstCalls
    <3>2. pc'[q] = first[2] /\ reply'[q] = NoReply
      BY <1>0, <2>1, <2>3 DEF Goto
    <3>. QED
      BY <3>1, <3>2 DEF Due, Refused, NoReply
  <2>. QED
    BY <1>6, <2>2, <2>3 DEF Receive
<1>7. ASSUME ONext, Create(q) PROVE Due(q)'
  <2>1. /\ req[q].op = "create" /\ req' = req /\ pc[q] # "idle"
        /\ ~Rejected(req[q])
    BY <1>0, <1>7 DEF Create, Fits, Rejected
  <2>2. CASE Answer(q, "conflict", {}) /\ \E x \in rows : x.id = req[q].id
    BY <1>4, <1>7, <2>1, <2>2, AtomicRefusals
  <2>3. ASSUME NEW found, Goto(q, "activities.Create"),
               reply' = [reply EXCEPT ![q] = [status |-> "ok", rows |-> found]]
        PROVE  Due(q)'
    BY <1>0, <2>3 DEF Goto, Due, Refused
  <2>. QED
    BY <1>7, <2>2, <2>3 DEF Create
<1>8. ASSUME ONext, RecordActivity(q) \/ RecordNotification(q) PROVE Due(q)'
  BY <1>5, <1>8 DEF RecordActivity, RecordNotification
<1>9. ASSUME ONext, GetOwned(q) PROVE Due(q)'
  <2>1. /\ req[q].op \in {"get", "update"} /\ req' = req /\ rows' = rows
        /\ pc[q] # "idle"
        /\ ~Rejected(req[q])
    BY <1>0, <1>9 DEF GetOwned, Fits, stored, Rejected, TypeOK, ClientRequests
  <2>2. CASE Answer(q, "not_found", {}) /\ Owned(req[q]) = {}
    BY <1>4, <1>9, <2>1, <2>2, AtomicRefusals
  <2>3. CASE Answer(q, "ok", Owned(req[q]))
    BY <1>4, <1>9, <2>1, <2>3
  <2>4. CASE Goto(q, "Update") /\ UNCHANGED reply /\ Owned(req[q]) # {}
    <3>1. \E x \in rows' : x.id = req'[q].id /\ x.owner = req'[q].owner
      BY <2>1, <2>4 DEF Owned
    <3>2. pc'[q] = "Update" /\ moments[q] \subseteq moments'[q]
      BY <1>0, <1>1, <1>9, <2>4 DEF Goto
    <3>. QED
      BY <2>1, <2>4, <3>1, <3>2 DEF Due, Refused
  <2>. QED
    BY <1>9, <2>2, <2>3, <2>4 DEF GetOwned
<1>10. ASSUME ONext, Update(q) PROVE Due(q)'
  <2>1. /\ req[q].op = "update" /\ req' = req /\ pc[q] = "Update" /\ pc[q] # "idle"
        /\ ~Rejected(req[q])
    BY <1>0, <1>10 DEF Update, Fits, Rejected
  <2>2. CASE /\ Matched(req[q]) = {} /\ Goto(q, "writeMiss")
             /\ UNCHANGED <<rows, reply>>
    <3>1. pc'[q] = "writeMiss"
          /\ moments'[q] = moments[q] \cup {AtomicAnswer(req[q])}
      BY <1>0, <1>1, <1>10, <2>1, <2>2 DEF Goto
    <3>2. \/ AtomicAnswer(req[q]) = "conflict"
          \/ \E x \in rows' : x.id = req'[q].id /\ x.deleted
      <4>1. CASE Owned(req[q]) # {}
        BY <2>1, <2>2, <4>1, AtomicRefusals
      <4>2. CASE Owned(req[q]) = {}
        <5>1. PICK x \in rows : x.id = req[q].id /\ x.owner = req[q].owner
          BY <2>1 DEF Due
        <5>2. x.deleted
          BY <4>2, <5>1 DEF Owned, TypeOK, Row
        <5>. QED
          BY <2>1, <2>2, <5>1, <5>2
      <4>. QED
        BY <4>1, <4>2
    <3>. QED
      BY <2>1, <2>2, <3>1, <3>2 DEF Due, Refused
  <2>3. ASSUME NEW found, Answer(q, "ok", found) PROVE Due(q)'
    BY <1>4, <1>10, <2>1, <2>3
  <2>. QED
    BY <1>10, <2>2, <2>3 DEF Update
<1>11. ASSUME ONext, Delete(q) PROVE Due(q)'
  <2>1. /\ req[q].op = "delete" /\ req' = req /\ pc[q] # "idle"
        /\ ~Rejected(req[q])
    BY <1>0, <1>11 DEF Delete, Fits, Rejected
  <2>2. CASE Goto(q, "writeMiss") /\ UNCHANGED reply
    <3>1. pc'[q] = "writeMiss" /\ moments[q] \subseteq moments'[q]
      BY <1>0, <1>1, <1>11, <2>2 DEF Goto
    <3>. QED
      BY <2>1, <2>2, <3>1 DEF Due, Refused
  <2>3. CASE Answer(q, "ok", {})
    BY <1>4, <1>11, <2>1, <2>3
  <2>. QED
    BY <1>11, <2>2, <2>3 DEF Delete
<1>12. ASSUME ONext, WriteMiss(q) PROVE Due(q)'
  <2>1. /\ pc[q] = "writeMiss" /\ pc[q] # "idle" /\ req' = req
        /\ req[q].op \in {"update", "delete"} /\ ~Rejected(req[q])
    BY <1>12 DEF WriteMiss, Due
  <2>2. CASE Owned(req[q]) = {}
    <3>1. Answer(q, "not_found", {}) /\ AtomicAnswer(req[q]) = "not_found"
      BY <1>12, <2>1, <2>2, AtomicRefusals DEF WriteMiss
    <3>. QED
      BY <1>4, <1>12, <2>1, <3>1
  <2>3. CASE Owned(req[q]) # {}
    <3>1. Answer(q, "conflict", {})
      BY <1>12, <2>3 DEF WriteMiss
    <3>2. \A x \in rows : x.id = req[q].id => ~x.deleted
      BY <2>3 DEF Owned, KeysIdentifyRows
    <3>3. req[q].op = "update" => "conflict" \in moments[q]
      BY <2>1, <3>2 DEF Due
    <3>. QED
      BY <1>4, <1>12, <2>1, <3>1, <3>3
  <2>. QED
    BY <2>2, <2>3
<1>13. ASSUME ONext, List(q) PROVE Due(q)'
  <2>1. req' = req /\ pc[q] # "idle"
    BY <1>13 DEF List
  <2>2. PICK found : Answer(q, "ok", found)
    BY <1>13 DEF List
  <2>. QED
    BY <1>4, <1>13, <2>1, <2>2
<1>14. CASE Respond(q) \/ Crash
  <2>1. pc'[q] = "idle" /\ reply'[q] = NoReply
    BY <1>0, <1>14 DEF Respond, Crash, Goto
  <2>. QED
    BY <2>1 DEF Due, Refused, NoReply
<1>15. ASSUME ONext, DbFail(q) PROVE Due(q)'
  <2>1. req' = req /\ pc[q] # "idle"
    BY <1>15 DEF DbFail
  <2>2. CASE Answer(q, "server_error", {})
    BY <1>4, <1>15, <2>1, <2>2
  <2>3. CASE /\ UNCHANGED reply
             /\ Goto(q, "notifications.Create") \/ Goto(q, "respond")
    BY <1>5, <1>15, <2>1, <2>3
  <2>. QED
    BY <1>15, <2>2, <2>3 DEF DbFail
<1>16. CASE UNCHANGED ovars
  BY <1>16 DEF ovars, vars, Due, Refused
<1>. QED
  BY <1>3, <1>6, <1>7, <1>8, <1>9, <1>10, <1>11, <1>12, <1>13, <1>14, <1>15,
     <1>16, OnlyOneMoves DEF ONext, Next, Serve

(***************************************************************************)
(* Whoever is refused could have been refused by a server that does all    *)
(* its work at one instant while the request was under way.                *)
(***************************************************************************)
THEOREM RefusalsCorrect == OSpec => []RefusalsAreDue
<1> DEFINE Inv == TypeOK /\ KeysIdentifyRows /\ \A p \in Requests : Due(p)
<1>1. OInit => Inv
  <2> SUFFICES ASSUME OInit PROVE Inv
    OBVIOUS
  <2>1. TypeOK
    BY LegacyAssumption
    DEF OInit, Init, TypeOK, Calls, NoRequest, NoReply, Statuses, Fits, Entries
  <2>2. KeysIdentifyRows
    BY LegacyAssumption DEF OInit, Init, KeysIdentifyRows
  <2>3. \A p \in Requests : Due(p)
    BY DEF OInit, Init, Due, Refused, NoReply
  <2>. QED
    BY <2>1, <2>2, <2>3
<1>2. Inv /\ [ONext]_ovars => Inv'
  <2> SUFFICES ASSUME Inv, [ONext]_ovars PROVE Inv'
    OBVIOUS
  <2>1. [Next]_vars
    BY DEF ONext, ovars
  <2>. QED
    BY <2>1, TypeStep, KeysStep, DueStep
<1>3. Inv => RefusalsAreDue
  BY DEF Due, Refused, RefusalsAreDue
<1>. QED
  BY <1>1, <1>2, <1>3, PTL DEF OSpec
=============================================================================
