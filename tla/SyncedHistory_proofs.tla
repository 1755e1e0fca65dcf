------------------------- MODULE SyncedHistory_proofs -------------------------
(***************************************************************************)
(* Proof, for any constants, that the request handlers implement           *)
(* ChangeFeed, that no update is lost, and that clients are told the truth *)
(* however long an answer takes: the lemmas of ChangeFeed_proofs, applied  *)
(* to the feed that the handlers implement, carry the last part.           *)
(***************************************************************************)
EXTENDS SyncedHistory, SyncedTable_proofs

USE ConstantsAssumption DEF Writes

\* What ties the table to its history: every row is a version, and of every
\* version the table holds the same id under the same owner, not older.
Covered ==
    /\ history \subseteq Row
    /\ rows \subseteq history
    /\ \A x \in history : \E y \in rows :
          /\ y.id = x.id /\ y.owner = x.owner
          /\ x.rev <= y.rev
          /\ x.rev = y.rev => x = y

HInv == TypeOK /\ KeysIdentifyRows /\ Covered

LEMMA CoveredStep ==
    ASSUME HInv, [HNext]_hvars
    PROVE  Covered'
<1>0. /\ TypeOK /\ KeysIdentifyRows /\ Covered /\ [Next]_vars
      /\ history' = history \cup rows'
  BY DEF HInv, HNext, hvars, vars, Covered
<1>1. \A x \in history : x.rev \in 0..MaxRev
  BY <1>0 DEF Covered, Row
<1>2. CASE rows' = rows
  BY <1>0, <1>2 DEF Covered
<1>3. ASSUME NEW new \in Row, Inserted(new) PROVE Covered'
  BY <1>0, <1>1, <1>3 DEF Inserted, Covered, Row
<1>4. ASSUME NEW z \in rows, NEW new \in Row, Replaced(z, new) PROVE Covered'
  <2>1. z \in Row
    BY <1>0 DEF TypeOK
  <2>2. /\ new.id = z.id /\ new.owner = z.owner
        /\ \A x \in rows : x.owner = new.owner => x.rev < new.rev
        /\ rows' = (rows \ {z}) \cup {new}
    BY <1>4, <2>1, ReplacedFields, NextRevTops DEF Replaced
  <2>3. new.rev \in 0..MaxRev /\ z.rev \in 0..MaxRev
    BY <2>1 DEF Row
  <2>4. ASSUME NEW x \in history
        PROVE  \E y \in rows' : /\ y.id = x.id /\ y.owner = x.owner
                                /\ x.rev <= y.rev
                                /\ x.rev = y.rev => x = y
    <3>1. PICK y \in rows : /\ y.id = x.id /\ y.owner = x.owner
                            /\ x.rev <= y.rev
                            /\ x.rev = y.rev => x = y
      BY <1>0 DEF Covered
    <3>2. CASE y = z
      <4>1. z.rev < new.rev /\ new \in rows'
        BY <2>2
      <4>2. x.rev < new.rev
        BY <1>1, <2>3, <3>1, <3>2, <4>1
      <4>. QED
        BY <1>1, <2>2, <2>3, <3>1, <3>2, <4>1, <4>2
    <3>3. CASE y # z
      BY <2>2, <3>1, <3>3
    <3>. QED
      BY <3>2, <3>3
  <2>5. history' = history \cup {new}
    BY <1>0, <2>2 DEF Covered
  <2>6. new \in rows' /\ rows' \subseteq history' /\ history' \subseteq Row
    BY <1>0, <2>2, <2>5 DEF Covered
  <2>7. \E y \in rows' : /\ y.id = new.id /\ y.owner = new.owner
                         /\ new.rev <= y.rev
                         /\ new.rev = y.rev => new = y
    BY <2>3, <2>6
  <2>. QED
    BY <2>4, <2>5, <2>6, <2>7 DEF Covered
<1>. QED
  BY <1>0, <1>2, <1>3, <1>4, TableSteps

LEMMA HInvHolds == HSpec => []HInv
<1>1. HInit => HInv
  <2> SUFFICES ASSUME HInit PROVE HInv
    OBVIOUS
  <2>1. rows = Legacy /\ history = Legacy /\ Init
    BY DEF HInit, Init
  <2>2. Covered
    BY <2>1, LegacyAssumption DEF Covered, Row
  <2>3. TypeOK
    BY <2>1, LegacyAssumption
    DEF Init, TypeOK, Calls, NoRequest, NoReply, Statuses, Fits, Entries
  <2>4. KeysIdentifyRows
    BY <2>1, LegacyAssumption DEF KeysIdentifyRows
  <2>. QED
    BY <2>2, <2>3, <2>4 DEF HInv
<1>2. HInv /\ [HNext]_hvars => HInv'
  <2> SUFFICES ASSUME HInv, [HNext]_hvars PROVE HInv'
    OBVIOUS
  <2>1. TypeOK /\ KeysIdentifyRows /\ [Next]_vars
    BY DEF HInv, HNext, hvars
  <2>. QED
    BY <2>1, TypeStep, KeysStep, CoveredStep DEF HInv
<1>. QED
  BY <1>1, <1>2, PTL DEF HSpec

-----------------------------------------------------------------------------
LEMMA CoveredIsNewest ==
    ASSUME HInv
    PROVE  TableIsNewest
<1>0. /\ \A x \in history : x.rev \in 0..MaxRev
      /\ KeysIdentifyRows /\ rows \subseteq history
  BY DEF HInv, Covered, Row
<1>1. ASSUME NEW y \in rows PROVE y \in Feed!Table
  <2>1. ASSUME NEW x \in history, x.id = y.id PROVE x.rev <= y.rev
    BY <1>0, <2>1 DEF HInv, Covered, KeysIdentifyRows
  <2>. QED
    BY <1>0, <2>1 DEF Feed!Table, Feed!Newest
<1>2. ASSUME NEW x \in Feed!Table PROVE x \in rows
  <2>1. x \in history /\ \A y \in history : y.id = x.id => y.rev <= x.rev
    BY DEF Feed!Table, Feed!Newest
  <2>2. PICK y \in rows : y.id = x.id /\ x.rev <= y.rev /\ (x.rev = y.rev => x = y)
    BY <2>1 DEF HInv, Covered
  <2>3. y.rev <= x.rev
    BY <1>0, <2>1, <2>2
  <2>4. x.rev \in 0..MaxRev /\ y.rev \in 0..MaxRev
    BY <1>0, <2>1
  <2>5. x.rev = y.rev
    BY <2>2, <2>3, <2>4
  <2>. QED
    BY <2>2, <2>5
<1>. QED
  BY <1>1, <1>2 DEF TableIsNewest

(***************************************************************************)
(* The table always holds exactly the newest version of each id.           *)
(***************************************************************************)
THEOREM TableCorrect == HSpec => []TableIsNewest
  BY HInvHolds, CoveredIsNewest, PTL

-----------------------------------------------------------------------------
\* The revision computed from the rows is the one the whole history asks for.
LEMMA SameNextRev ==
    ASSUME HInv, NEW o
    PROVE  NextRev(o) = Feed!NextRev(o)
<1>0. /\ \A x \in history : x.rev \in 0..MaxRev
      /\ rows \subseteq history
      /\ \A x \in history : \E y \in rows : y.owner = x.owner /\ x.rev <= y.rev
  BY DEF HInv, Covered, Row
<1>1. ASSUME NEW v \in NextRev(o) PROVE v \in Feed!NextRev(o)
  <2>1. /\ v \in 1..MaxRev /\ \A x \in rows : x.owner = o => x.rev < v
        /\ v = 1 \/ \E x \in rows : x.owner = o /\ x.rev = v - 1
    BY DEF NextRev
  <2>2. \A x \in history : x.owner = o => x.rev < v
    BY <1>0, <2>1
  <2>. QED
    BY <1>0, <2>1, <2>2 DEF Feed!NextRev
<1>2. ASSUME NEW v \in Feed!NextRev(o) PROVE v \in NextRev(o)
  <2>1. /\ v \in 1..MaxRev /\ \A x \in history : x.owner = o => x.rev < v
        /\ v = 1 \/ \E x \in history : x.owner = o /\ x.rev = v - 1
    BY DEF Feed!NextRev
  <2>2. v = 1 \/ \E y \in rows : y.owner = o /\ y.rev = v - 1
    <3>1. ASSUME NEW x \in history, x.owner = o, x.rev = v - 1
          PROVE  \E y \in rows : y.owner = o /\ y.rev = v - 1
      <4>1. PICK y \in rows : y.owner = x.owner /\ x.rev <= y.rev
        BY <1>0
      <4>2. y.rev < v /\ y.rev \in 0..MaxRev
        BY <1>0, <2>1, <3>1, <4>1
      <4>. QED
        BY <2>1, <3>1, <4>1, <4>2
    <3>. QED
      BY <2>1, <3>1
  <2>. QED
    BY <1>0, <2>1, <2>2 DEF NextRev
<1>. QED
  BY <1>1, <1>2

LEMMA StepImplements ==
    ASSUME HInv, [HNext]_hvars
    PROVE  [Feed!Next]_(Feed!vars)
<1>0. /\ TypeOK /\ KeysIdentifyRows /\ [Next]_vars
      /\ history' = history \cup rows' /\ rows \subseteq history
      /\ rows = Feed!Table
      /\ \A x \in history : \E y \in rows : y.id = x.id
  BY CoveredIsNewest DEF HInv, HNext, hvars, vars, Covered, TableIsNewest
<1>1. CASE rows' = rows
  BY <1>0, <1>1 DEF Feed!vars
<1>2. ASSUME NEW new \in Row, Inserted(new) PROVE Feed!Next
  <2>1. history' = history \cup {new}
    BY <1>0, <1>2 DEF Inserted
  <2>2. \A x \in history : x.id # new.id
    BY <1>0, <1>2 DEF Inserted
  <2>3. /\ new.id \in Ids /\ new.owner \in Owners /\ new.content \in Contents
        /\ new = [id |-> new.id, owner |-> new.owner, content |-> new.content,
                  rev |-> new.rev, deleted |-> FALSE]
    BY <1>2 DEF Inserted, Row
  <2>4. new.rev \in Feed!NextRev(new.owner)
    BY <1>2, SameNextRev DEF Inserted
  <2>5. Feed!Create(new.id, new.owner, new.content)
    BY <2>1, <2>2, <2>3, <2>4 DEF Feed!Create
  <2>. QED
    BY <2>3, <2>5 DEF Feed!Next
<1>3. ASSUME NEW z \in rows, NEW new \in Row, Replaced(z, new) PROVE Feed!Next
  <2>1. history' = history \cup {new}
    BY <1>0, <1>3 DEF Replaced
  <2>2. z \in Feed!Table /\ ~z.deleted /\ new.rev \in Feed!NextRev(z.owner)
    BY <1>0, <1>3, SameNextRev DEF Replaced
  <2>3. ASSUME NEW c \in Contents, new = Revised(z, c, new.rev)
        PROVE  Feed!Next
    <3>1. Revised(z, c, new.rev) = Feed!Revised(z, c, new.rev)
      BY Zenon DEF Revised, Feed!Revised
    <3>2. Feed!Revise(z, c)
      BY <2>1, <2>2, <2>3, <3>1 DEF Feed!Revise
    <3>. QED
      BY <2>2, <3>2 DEF Feed!Next
  <2>4. CASE new = Buried(z, new.rev)
    <3>1. Buried(z, new.rev) = Feed!Buried(z, new.rev)
      BY Zenon DEF Buried, Feed!Buried
    <3>2. Feed!Bury(z)
      BY <2>1, <2>2, <2>4, <3>1 DEF Feed!Bury
    <3>. QED
      BY <2>2, <3>2 DEF Feed!Next
  <2>. QED
    BY <1>3, <2>3, <2>4 DEF Replaced
<1>. QED
  BY <1>0, <1>1, <1>2, <1>3, TableSteps

(***************************************************************************)
(* The handlers implement the change feed.                                 *)
(***************************************************************************)
THEOREM Implementation == HSpec => ImplementsFeed
<1>1. HInit => Feed!Init
  BY DEF HInit, Init, Feed!Init
<1>2. HInv /\ [HNext]_hvars => [Feed!Next]_(Feed!vars)
  BY StepImplements
<1>. QED
  BY <1>1, <1>2, HInvHolds, PTL DEF HSpec, ImplementsFeed, Feed!Spec

-----------------------------------------------------------------------------
\* The one step in which a write answers ok.
LEMMA WonWrite ==
    ASSUME TypeOK, [Next]_vars, NEW p \in Requests,
           pc[p] \in {"Update", "Delete"}, pc'[p] = "respond",
           reply'[p].status = "ok"
    PROVE  Matched(req[p]) # {}
<1>1. ASSUME NEW q \in Requests, q # p,
             Receive(q) \/ Serve(q) \/ DbFail(q)
      PROVE  pc'[p] = pc[p]
  BY <1>1, OnlyOneMoves
<1>2. CASE Update(p) \/ Delete(p)
  BY <1>2 DEF Update, Delete, Goto, TypeOK
<1>3. CASE \/ Receive(p) \/ Create(p) \/ RecordActivity(p) \/ RecordNotification(p)
           \/ GetOwned(p) \/ WriteMiss(p) \/ List(p) \/ Respond(p)
  BY <1>3 DEF Receive, Create, RecordActivity, RecordNotification, GetOwned,
              WriteMiss, List, Respond
<1>4. CASE DbFail(p)
  BY <1>4 DEF DbFail, Answer, TypeOK
<1>5. CASE Crash \/ UNCHANGED vars
  BY <1>5 DEF Crash, vars
<1>. QED
  BY <1>1, <1>2, <1>3, <1>4, <1>5 DEF Next, Serve

(***************************************************************************)
(* A write that echoed a revision wins only over that very revision.       *)
(***************************************************************************)
THEOREM NoUpdateIsLost == HSpec => NoLostUpdate
<1> DEFINE Exact ==
      \A p \in Requests :
          /\ pc[p] \in {"Update", "Delete"} /\ pc'[p] = "respond"
          /\ reply'[p].status = "ok"
          /\ req[p].header \in 1..MaxRev
          => \A x \in history : x.id = req[p].id => x.rev <= req[p].header
<1>1. ASSUME HInv, [HNext]_hvars PROVE [Exact]_hvars
  <2> SUFFICES ASSUME HNext, NEW p \in Requests,
                      pc[p] \in {"Update", "Delete"}, pc'[p] = "respond",
                      reply'[p].status = "ok", req[p].header \in 1..MaxRev,
                      NEW x \in history, x.id = req[p].id
               PROVE  x.rev <= req[p].header
    BY <1>1
  <2>1. PICK y \in rows : y.id = req[p].id /\ ExpectedRev(req[p].header) \in {0, y.rev}
    BY <1>1, WonWrite DEF HInv, HNext, Matched, Owned
  <2>2. y.rev = req[p].header
    BY <2>1 DEF ExpectedRev
  <2>3. PICK z \in rows : z.id = x.id /\ x.rev <= z.rev
    BY <1>1 DEF HInv, Covered
  <2>4. z = y
    BY <1>1, <2>1, <2>3 DEF HInv, KeysIdentifyRows
  <2>. QED
    BY <2>2, <2>3, <2>4
<1>2. HInv /\ [HNext]_hvars => [Exact]_hvars
  BY <1>1
<1>. QED
  BY <1>2, HInvHolds, PTL DEF HSpec, NoLostUpdate

-----------------------------------------------------------------------------
\* What is proved of the change feed, for the feed that the handlers implement.
Fed == INSTANCE ChangeFeed_proofs

FeedInv == Fed!TypeOK /\ Fed!RevisionsIdentifyVersions

LEMMA FeedStep ==
    ASSUME HInv, [HNext]_hvars
    PROVE  [Fed!Next]_(Fed!vars)
  BY StepImplements
  DEF Feed!Next, Feed!vars, Feed!Create, Feed!Revise, Feed!Bury, Feed!Table,
      Feed!Newest, Feed!NextRev, Feed!Revised, Feed!Buried,
      Fed!Next, Fed!vars, Fed!Create, Fed!Revise, Fed!Bury, Fed!Table,
      Fed!Newest, Fed!NextRev, Fed!Revised, Fed!Buried

LEMMA FeedInvStep ==
    ASSUME HInv, FeedInv, [HNext]_hvars
    PROVE  FeedInv'
<1>1. Fed!TypeOK'
  BY CoveredStep DEF Fed!TypeOK, Fed!Version, Row, Covered
<1>2. Fed!RevisionsIdentifyVersions'
  BY FeedStep, LegacyAssumption, Fed!RevisionsStep
  DEF FeedInv, Row, Fed!MaxRevAssumption, Fed!LegacyAssumption, Fed!Version
<1>. QED
  BY <1>1, <1>2 DEF FeedInv

LEMMA FeedInvHolds == HSpec => []FeedInv
<1>1. HInit => FeedInv
  <2> SUFFICES ASSUME HInit PROVE FeedInv
    OBVIOUS
  <2>1. history = Legacy
    BY DEF HInit, Init
  <2>2. Fed!TypeOK
    BY <2>1, LegacyAssumption DEF Fed!TypeOK, Fed!Version, Row
  <2>3. Fed!RevisionsIdentifyVersions
    BY <2>1, LegacyAssumption
    DEF Fed!RevisionsIdentifyVersions, Fed!Table, Fed!Newest
  <2>. QED
    BY <2>2, <2>3 DEF FeedInv
<1>2. HInv /\ FeedInv /\ [HNext]_hvars => FeedInv'
  BY FeedInvStep
<1>. QED
  BY <1>1, <1>2, HInvHolds, PTL DEF HSpec

-----------------------------------------------------------------------------
\* The rows in an answer, or in one that p gets by this step.
Given(p, answer, versions) ==
    \A x \in answer.rows :
        /\ x \in versions
        /\ x.owner = req[p].owner
        /\ req[p].op # "list" => x.id = req[p].id
        /\ req[p].op \in {"create", "update"} => x.content = req[p].content

\* What a step does to one request: nothing that its client would see, ...
Kept(p) ==
    /\ req'[p] = req[p] /\ reply'[p] = reply[p]
    /\ pc'[p] = "idle" => pc[p] = "idle"

\* ... it ends, ...
Ended(p) == reply'[p] = NoReply

\* ... it arrives, ...
Arrived(p) ==
    /\ pc[p] = "idle" /\ pc'[p] # "idle"
    /\ \/ reply'[p] = reply[p]
       \/ reply'[p] = [status |-> "bad_request", rows |-> {}]

\* ... it is answered, other than with a list, ...
Answered(p) ==
    /\ req'[p] = req[p] /\ pc'[p] # "idle"
    /\ req[p].op = "list" => reply'[p].status # "ok"
    /\ Given(p, reply'[p], rows')

\* ... or it is answered with a list.
Listed(p) ==
    /\ req'[p] = req[p] /\ pc'[p] # "idle"
    /\ req[p].op = "list" /\ req[p].header \in 0..MaxRev \cup {None}
    /\ rows' = rows
    /\ reply'[p].rows = IF req[p].header = None
                        THEN Live(req[p].owner)
                        ELSE Since(req[p].owner, req[p].header)

LEMMA RequestSteps ==
    ASSUME TypeOK, [Next]_vars, NEW q \in Requests
    PROVE  Kept(q) \/ Ended(q) \/ Arrived(q) \/ Answered(q) \/ Listed(q)
<1> DEFINE Step == Kept(q) \/ Ended(q) \/ Arrived(q) \/ Answered(q) \/ Listed(q)
<1>0. /\ pc \in [Requests -> Calls] /\ Fits(pc[q], req[q])
      /\ reply \in [Requests -> [status : Statuses, rows : SUBSET Row]]
      /\ req \in [Requests -> ClientRequests \cup {NoRequest}]
  BY DEF TypeOK
<1>1. ASSUME NEW p \in Requests, p # q, Receive(p) \/ Serve(p) \/ DbFail(p)
      PROVE  Kept(q)
  BY <1>1, OnlyOneMoves DEF Kept
<1>2. ASSUME NEW found, NEW status, Answer(q, status, found), req' = req,
             found = {}, req[q].op = "list" => status # "ok"
      PROVE  Answered(q)
  BY <1>0, <1>2 DEF Answer, Goto, Answered, Given
<1>3. CASE Receive(q)
  <2>1. \/ Answer(q, "bad_request", {})
        \/ UNCHANGED reply /\ \E first \in FirstCalls : Goto(q, first[2])
    BY <1>3 DEF Receive
  <2>2. pc[q] = "idle"
    BY <1>3 DEF Receive
  <2>3. CASE Answer(q, "bad_request", {})
    BY <1>0, <2>2, <2>3 DEF Answer, Goto, Arrived
  <2>4. ASSUME UNCHANGED reply, NEW first \in FirstCalls, Goto(q, first[2])
        PROVE  Arrived(q)
    <3>1. first[2] # "idle"
      BY DEF FirstCalls
    <3>. QED
      BY <1>0, <2>2, <2>4, <3>1 DEF Goto, Arrived
  <2>. QED
    BY <2>1, <2>3, <2>4
<1>4. CASE Create(q)
  <2>1. req[q].op = "create" /\ req' = req
    BY <1>0, <1>4 DEF Create, Fits
  <2>2. CASE Answer(q, "conflict", {})
    BY <1>2, <2>1, <2>2
  <2>3. ASSUME NEW v, NEW new,
               new = [id |-> req[q].id, owner |-> req[q].owner,
                      content |-> req[q].content, rev |-> v, deleted |-> FALSE],
               rows' = rows \cup {new},
               reply' = [reply EXCEPT ![q] = [status |-> "ok", rows |-> {new}]],
               Goto(q, "activities.Create")
        PROVE  Answered(q)
    <3>1. reply'[q].rows = {new} /\ pc'[q] # "idle"
      BY <1>0, <2>3 DEF Goto
    <3>2. Given(q, reply'[q], rows')
      BY <2>3, <3>1 DEF Given
    <3>. QED
      BY <2>1, <3>1, <3>2 DEF Answered
  <2>. QED
    BY <1>4, <2>2, <2>3 DEF Create
<1>5. CASE RecordActivity(q) \/ RecordNotification(q)
  BY <1>0, <1>5 DEF RecordActivity, RecordNotification, Goto, Kept
<1>6. CASE GetOwned(q)
  <2>1. /\ req[q].op \in {"get", "update"} /\ req' = req /\ rows' = rows
        /\ pc[q] = "GetOwned"
    BY <1>0, <1>6 DEF GetOwned, Fits, stored
  <2>2. CASE Answer(q, "not_found", {})
    BY <1>2, <2>1, <2>2
  <2>3. CASE Answer(q, "ok", Owned(req[q])) /\ req[q].op = "get"
    <3>1. reply'[q].rows = Owned(req[q]) /\ pc'[q] # "idle"
      BY <1>0, <2>3 DEF Answer, Goto
    <3>2. Given(q, reply'[q], rows')
      BY <2>1, <2>3, <3>1 DEF Given, Owned
    <3>. QED
      BY <2>1, <3>1, <3>2 DEF Answered
  <2>4. CASE Goto(q, "Update") /\ UNCHANGED reply
    BY <1>0, <2>1, <2>4 DEF Goto, Kept
  <2>. QED
    BY <1>6, <2>2, <2>3, <2>4 DEF GetOwned
<1>7. CASE Update(q)
  <2>1. /\ req[q].op = "update" /\ req' = req /\ pc[q] = "Update" /\ pc[q] # "idle"
        /\ req[q].content # None
    BY <1>0, <1>7 DEF Update, Fits
  <2>2. CASE Goto(q, "writeMiss") /\ UNCHANGED <<rows, reply>>
    BY <1>0, <2>1, <2>2 DEF Goto, Kept
  <2>3. ASSUME NEW x \in Matched(req[q]), NEW v \in NextRev(req[q].owner),
               NEW new, new = Revised(x, req[q].content, v),
               rows' = (rows \ {x}) \cup {new}, Answer(q, "ok", {new})
        PROVE  Answered(q)
    <3>1. x \in Row /\ x.id = req[q].id /\ x.owner = req[q].owner
      BY DEF Matched, Owned, TypeOK
    <3>2. req[q].content \in Contents /\ v \in 0..MaxRev
      BY <2>1, RequestTypes DEF NextRev
    <3>3. /\ new.id = req[q].id /\ new.owner = req[q].owner
          /\ new.content = req[q].content
      BY <2>3, <3>1, <3>2, RevisedFields
    <3>4. reply'[q].rows = {new} /\ pc'[q] # "idle" /\ new \in rows'
      BY <1>0, <2>3 DEF Answer, Goto
    <3>5. Given(q, reply'[q], rows')
      BY <3>3, <3>4 DEF Given
    <3>. QED
      BY <2>1, <3>4, <3>5 DEF Answered
  <2>. QED
    BY <1>7, <2>2, <2>3 DEF Update
<1>8. CASE Delete(q)
  <2>1. req[q].op = "delete" /\ req' = req /\ pc[q] # "idle"
    BY <1>0, <1>8 DEF Delete, Fits
  <2>2. CASE Goto(q, "writeMiss") /\ UNCHANGED <<rows, reply>>
    BY <1>0, <2>1, <2>2 DEF Goto, Kept
  <2>3. CASE Answer(q, "ok", {})
    BY <1>2, <2>1, <2>3
  <2>. QED
    BY <1>8, <2>2, <2>3 DEF Delete
<1>9. CASE WriteMiss(q)
  BY <1>2, <1>9 DEF WriteMiss
<1>10. CASE List(q)
  <2>1. /\ req[q].op = "list" /\ req' = req /\ rows' = rows /\ pc[q] # "idle"
        /\ req[q].header # Malformed
    BY <1>0, <1>10 DEF List, Fits, stored
  <2>2. req[q].header \in 0..MaxRev \cup {None}
    BY <2>1, RequestTypes DEF Headers
  <2>3. /\ pc'[q] # "idle"
        /\ reply'[q].rows = IF req[q].header = None
                            THEN Live(req[q].owner)
                            ELSE Since(req[q].owner, req[q].header)
    BY <1>0, <1>10 DEF List, Answer, Goto
  <2>. QED
    BY <2>1, <2>2, <2>3 DEF Listed
<1>11. CASE Respond(q) \/ Crash
  BY <1>0, <1>11 DEF Respond, Crash, Ended
<1>12. CASE DbFail(q)
  <2>1. CASE Answer(q, "server_error", {})
    BY <1>2, <1>12, <2>1 DEF DbFail
  <2>2. CASE /\ UNCHANGED reply
             /\ Goto(q, "notifications.Create") \/ Goto(q, "respond")
    BY <1>0, <1>12, <2>2 DEF DbFail, Goto, Kept
  <2>. QED
    BY <1>12, <2>1, <2>2 DEF DbFail
<1>13. CASE UNCHANGED vars
  BY <1>13 DEF vars, Kept
<1>. QED
  BY <1>1, <1>3, <1>4, <1>5, <1>6, <1>7, <1>8, <1>9, <1>10, <1>11, <1>12, <1>13
  DEF Next, Serve

-----------------------------------------------------------------------------
\* The rows of a list are those of a revision that the owner has reached.
Pulled(answer, o, since) ==
    /\ since \in 0..MaxRev \cup {None}
    /\ \E k \in 0..MaxRev :
          /\ Fed!Reached(o, k)
          /\ answer = IF since = None THEN Fed!View(o, k)
                                      ELSE Fed!Changes(o, since, k)

\* An answer on its way stays true, however much is written meanwhile.
Told(p) ==
    /\ pc[p] = "idle" => reply[p] = NoReply
    /\ Given(p, reply[p], history)
    /\ req[p].op = "list" /\ reply[p].status = "ok" =>
          Pulled(reply[p].rows, req[p].owner, req[p].header)

LEMMA PulledStays ==
    ASSUME HInv, FeedInv, [HNext]_hvars, NEW answer, NEW o, NEW since,
           Pulled(answer, o, since)
    PROVE  Pulled(answer, o, since)'
<1>1. PICK k \in 0..MaxRev :
          /\ Fed!Reached(o, k)
          /\ answer = IF since = None THEN Fed!View(o, k)
                                      ELSE Fed!Changes(o, since, k)
  BY DEF Pulled
<1>2. /\ Fed!Reached(o, k)'
      /\ Fed!View(o, k)' = Fed!View(o, k)
      /\ Fed!Changes(o, since, k)' = Fed!Changes(o, since, k)
  BY <1>1, FeedStep, LegacyAssumption, Fed!PastStays
  DEF FeedInv, Row, Fed!MaxRevAssumption, Fed!LegacyAssumption, Fed!Version
<1>. QED
  BY <1>1, <1>2 DEF Pulled

\* A list is answered from the versions of this moment.
LEMMA PulledNow ==
    ASSUME HInv, FeedInv, NEW o, NEW since \in 0..MaxRev \cup {None}
    PROVE  /\ Pulled(IF since = None THEN Live(o) ELSE Since(o, since), o, since)
           /\ Live(o) = Fed!Live(o)
           /\ \A c : Since(o, c) = Fed!Delta(o, c)
<1>1. rows = Fed!Table
  BY CoveredIsNewest
  DEF TableIsNewest, Feed!Table, Feed!Newest, Fed!Table, Fed!Newest
<1>2. /\ Live(o) = Fed!Live(o)
      /\ \A c : Since(o, c) = Fed!Delta(o, c)
  BY <1>1 DEF Live, Since, Fed!Live, Fed!Delta
<1>3. PICK k \in 0..MaxRev :
          /\ Fed!Reached(o, k)
          /\ Fed!Live(o) = Fed!View(o, k)
          /\ \A c : Fed!Delta(o, c) = Fed!Changes(o, c, k)
  BY LegacyAssumption, Fed!TodayReached
  DEF FeedInv, Row, Fed!MaxRevAssumption, Fed!LegacyAssumption, Fed!Version
<1>4. Pulled(IF since = None THEN Live(o) ELSE Since(o, since), o, since)
  BY <1>2, <1>3 DEF Pulled
<1>. QED
  BY <1>2, <1>4

LEMMA ToldStep ==
    ASSUME HInv, FeedInv, [HNext]_hvars, NEW q \in Requests, Told(q)
    PROVE  Told(q)'
<1>0. /\ TypeOK /\ [Next]_vars /\ rows \subseteq history
      /\ history \subseteq history' /\ rows' \subseteq history'
  BY CoveredStep DEF HInv, Covered, HNext, hvars
<1>1. ASSUME Pulled(reply'[q].rows, req[q].owner, req[q].header),
             req'[q] = req[q]
      PROVE  Pulled(reply[q].rows, req[q].owner, req[q].header)'
  <2>1. ASSUME NEW answer, answer = reply'[q].rows, NEW o, o = req[q].owner,
               NEW since, since = req[q].header
        PROVE  Pulled(reply[q].rows, req[q].owner, req[q].header)'
    <3>1. Pulled(answer, o, since)'
      BY <1>1, <2>1, PulledStays
    <3>. QED
      BY <1>1, <2>1, <3>1 DEF Pulled
  <2>. QED
    BY <2>1
<1>2. CASE Kept(q)
  <2>1. Given(q, reply[q], history)'
    BY <1>0, <1>2 DEF Kept, Told, Given
  <2>. QED
    BY <1>1, <1>2, <2>1 DEF Kept, Told
<1>3. CASE Ended(q)
  BY <1>3 DEF Ended, Told, Given, NoReply
<1>4. CASE Arrived(q)
  BY <1>4 DEF Arrived, Told, Given, NoReply
<1>5. CASE Answered(q)
  BY <1>0, <1>5 DEF Answered, Told, Given
<1>6. CASE Listed(q)
  <2>1. \A x \in reply'[q].rows : x \in rows /\ x.owner = req[q].owner
    BY <1>6 DEF Listed, Live, Since
  <2>2. Given(q, reply[q], history)'
    BY <1>0, <1>6, <2>1 DEF Listed, Given
  <2>3. ASSUME NEW o, o = req[q].owner, NEW since, since = req[q].header,
               NEW answer, answer = reply'[q].rows
        PROVE  Pulled(answer, o, since)
    <3>1. answer = IF since = None THEN Live(o) ELSE Since(o, since)
      BY <1>6, <2>3 DEF Listed
    <3>2. since \in 0..MaxRev \cup {None}
      BY <1>6, <2>3 DEF Listed
    <3>. QED
      BY <3>1, <3>2, PulledNow
  <2>4. Pulled(reply'[q].rows, req[q].owner, req[q].header)
    BY <2>3
  <2>. QED
    BY <1>1, <1>6, <2>2, <2>4 DEF Listed, Told
<1>. QED
  BY <1>0, <1>2, <1>3, <1>4, <1>5, <1>6,
     RequestSteps

LEMMA ToldHolds == HSpec => [](\A p \in Requests : Told(p))
<1>1. HInit => \A p \in Requests : Told(p)
  BY DEF HInit, Init, Told, Given, NoReply
<1>2. HInv /\ FeedInv /\ (\A p \in Requests : Told(p)) /\ [HNext]_hvars
        => (\A p \in Requests : Told(p))'
  BY ToldStep
<1>. QED
  BY <1>1, <1>2, HInvHolds, FeedInvHolds, PTL DEF HSpec

(***************************************************************************)
(* What a client is told was committed, under that revision, to a row of   *)
(* its own; however long the answer takes.                                 *)
(***************************************************************************)
THEOREM AnswersAreVersions == HSpec => []RepliesAreVersions
<1>1. (\A p \in Requests : Told(p)) => RepliesAreVersions
  BY DEF Told, Given, RepliesAreVersions
<1>. QED
  BY <1>1, ToldHolds, PTL

-----------------------------------------------------------------------------
\* The client's side of an answered list, in the terms of the feed.
LEMMA AnswerApplied ==
    ASSUME HInv, FeedInv, NEW p \in Requests, Told(p),
           req[p].op = "list", reply[p].status = "ok",
           NEW c \in CursorsAfter(p)
    PROVE  /\ req[p].header # None =>
                CopyAfter(p) = Feed!View(req[p].owner, c)
           /\ Feed!Patch(CopyAfter(p), Since(req[p].owner, c))
                = Live(req[p].owner)
<1> DEFINE o == req[p].owner
           h == req[p].header
           seen == {x.rev : x \in reply[p].rows} \cup
                      (IF h = None THEN {0} ELSE {h})
<1>0. \A x \in history : x.rev \in 0..MaxRev
  BY DEF HInv, Covered, Row
<1>1. PICK k \in 0..MaxRev :
          /\ Fed!Reached(o, k)
          /\ reply[p].rows = IF h = None THEN Fed!View(o, k)
                                         ELSE Fed!Changes(o, h, k)
  BY DEF Told, Pulled
<1>2. c \in seen /\ \A d \in seen : d <= c
  BY DEF CursorsAfter
<1>3. Since(o, c) = Fed!Delta(o, c) /\ Live(o) = Fed!Live(o)
  BY PulledNow
<1>4. \A a, b : Feed!Patch(a, b) = Fed!Patch(a, b)
  BY DEF Feed!Patch, Fed!Patch
<1>5. \A j : Feed!View(o, j) = Fed!View(o, j)
  BY DEF Feed!View, Fed!View
<1>6. CASE h = None
  <2>1. CopyAfter(p) = Fed!View(o, k)
    BY <1>1, <1>6 DEF CopyAfter
  <2>2. c \in 0..MaxRev /\ c <= k
    BY <1>0, <1>1, <1>2, <1>6 DEF Fed!View
  <2>3. Fed!Patch(Fed!View(o, k), Fed!Delta(o, c)) = Fed!Live(o)
    BY <1>1, <2>2, LegacyAssumption, Fed!DeltaPatches
    DEF FeedInv, Row, Fed!MaxRevAssumption, Fed!LegacyAssumption, Fed!Version
  <2>. QED
    BY <1>3, <1>4, <1>6, <2>1, <2>3
<1>7. CASE h # None
  <2>1. h \in 0..MaxRev
    BY <1>7 DEF Told, Pulled
  <2>2. /\ c \in {h} \cup {x.rev : x \in Fed!Changes(o, h, k)}
        /\ \A d \in {h} \cup {x.rev : x \in Fed!Changes(o, h, k)} : d <= c
    BY <1>1, <1>2, <1>7
  <2>3. /\ c \in 0..MaxRev
        /\ Fed!Patch(Fed!View(o, h), Fed!Changes(o, h, k)) = Fed!View(o, c)
    <3> HIDE DEF o, h, seen
    <3>. QED
      BY <1>1, <2>1, <2>2, LegacyAssumption, Fed!CursorOfChanges
      DEF FeedInv, Row, Fed!MaxRevAssumption, Fed!LegacyAssumption, Fed!Version
  <2>4. CopyAfter(p) = Fed!View(o, c)
    BY <1>1, <1>4, <1>5, <1>7, <2>3 DEF CopyAfter
  <2>5. Fed!Patch(Fed!View(o, c), Fed!Delta(o, c)) = Fed!Live(o)
    <3>1. c <= c
      BY <2>3
    <3>. QED
      BY <2>3, <3>1, LegacyAssumption, Fed!DeltaPatches
      DEF FeedInv, Row, Fed!MaxRevAssumption, Fed!LegacyAssumption, Fed!Version
  <2>. QED
    BY <1>3, <1>4, <1>5, <2>4, <2>5
<1>. QED
  BY <1>6, <1>7

(***************************************************************************)
(* A delta that was answered at one moment and applied at another leaves   *)
(* the client with the live rows of a single revision.                     *)
(***************************************************************************)
THEOREM DeltasAreSnapshots == HSpec => []DeltaIsSnapshot
<1>1. HInv /\ FeedInv /\ (\A p \in Requests : Told(p)) => DeltaIsSnapshot
  BY AnswerApplied DEF DeltaIsSnapshot
<1>. QED
  BY <1>1, HInvHolds, FeedInvHolds, ToldHolds, PTL

(***************************************************************************)
(* One more pull, from the highest revision in the answer, brings every    *)
(* client up to date, whatever was written while the answer was on its way.*)
(***************************************************************************)
THEOREM PullsConverge == HSpec => []NextPullConverges
<1>1. HInv /\ FeedInv /\ (\A p \in Requests : Told(p)) => NextPullConverges
  BY AnswerApplied DEF NextPullConverges
<1>. QED
  BY <1>1, HInvHolds, FeedInvHolds, ToldHolds, PTL
=============================================================================
