-------------------------- MODULE Collections_proofs --------------------------
(***************************************************************************)
(* Proofs about Collections: the collection endpoints inherit what is      *)
(* proved of SyncedTable, and the inbox beside them is right for any       *)
(* number of owners and requests, whatever fails or dies.                  *)
(***************************************************************************)
EXTENDS Collections, WellFoundedInduction, TLAPS

USE CollectionsAssumption

\* The proofs about one synchronised table, of which SyncedTable's are used
\* here: those about the moments of SyncedOutcomes are not.
T == INSTANCE SyncedTable_proofs WITH rows <- collections, moments <- mail

-----------------------------------------------------------------------------
\* What T assumes of its constants.
LEMMA TableAssumptions ==
    T!ConstantsAssumption /\ T!LegacyAssumption
  BY DEF T!ConstantsAssumption, T!LegacyAssumption, T!Writes, C!Writes,
         T!Row, C!Row

\* C and T are the same module twice: the operators of its actions agree.
LEMMA SameRequests ==
    /\ C!Writes = T!Writes
    /\ C!ClientRequests = T!ClientRequests
    /\ C!FirstCalls = T!FirstCalls
    /\ C!NoRequest = T!NoRequest
    /\ C!NoReply = T!NoReply
    /\ \A r : C!Rejected(r) <=> T!Rejected(r)
    /\ C!Room <=> T!Room
<1>1. C!Writes = T!Writes /\ C!FirstCalls = T!FirstCalls
  BY DEF C!Writes, T!Writes, C!FirstCalls, T!FirstCalls
<1>2. C!ClientRequests = T!ClientRequests
  BY DEF C!ClientRequests, T!ClientRequests, C!Headers, T!Headers
<1>3. C!NoRequest = T!NoRequest /\ C!NoReply = T!NoReply
  BY DEF C!NoRequest, T!NoRequest, C!NoReply, T!NoReply
<1>4. \A r : C!Rejected(r) <=> T!Rejected(r)
  BY DEF C!Rejected, T!Rejected
<1>5. C!Room <=> T!Room
  <2>1. \A S : C!Cardinality(S) = T!Cardinality(S)
    BY Zenon DEF C!Cardinality, T!Cardinality
  <2>. QED
    BY <2>1 DEF C!Room, T!Room
<1>. QED
  BY <1>1, <1>2, <1>3, <1>4, <1>5

LEMMA SameRows ==
    ASSUME NEW r, NEW o, NEW c
    PROVE  /\ C!Owned(r) = T!Owned(r) /\ C!Matched(r) = T!Matched(r)
           /\ C!Live(o) = T!Live(o) /\ C!Since(o, c) = T!Since(o, c)
           /\ C!NextRev(o) = T!NextRev(o)
  BY DEF C!Owned, T!Owned, C!Matched, T!Matched, C!ExpectedRev, T!ExpectedRev,
         C!Live, T!Live, C!Since, T!Since, C!NextRev, T!NextRev

LEMMA SameWrites ==
    ASSUME NEW x, NEW c, NEW v
    PROVE  C!Revised(x, c, v) = T!Revised(x, c, v) /\ C!Buried(x, v) = T!Buried(x, v)
  BY Zenon DEF C!Revised, T!Revised, C!Buried, T!Buried

LEMMA SameMoves ==
    ASSUME NEW p, NEW call, NEW status, NEW found
    PROVE  /\ C!Goto(p, call) <=> T!Goto(p, call)
           /\ C!Answer(p, status, found) <=> T!Answer(p, status, found)
           /\ C!stored = T!stored /\ C!stored' = T!stored'
  BY DEF C!Goto, T!Goto, C!Answer, T!Answer, C!stored, T!stored

\* A statement of the inbox fails: it counts against the bound on failures.
FaultElsewhere ==
    /\ faults < MaxFaults /\ faults' = faults + 1
    /\ UNCHANGED <<collections, activities, notifications, pc, req, reply>>

\* To the table, every other step is a step of a synchronised table or none.
LEMMA TableStep ==
    ASSUME [Next]_cvars
    PROVE  [T!Next]_(T!vars) \/ FaultElsewhere
<1>1. ASSUME NEW p \in Requests, C!Receive(p) PROVE T!Receive(p)
  BY <1>1, SameRequests, SameMoves DEF C!Receive, T!Receive
<1>2. ASSUME NEW p \in Requests, C!Create(p) PROVE T!Create(p)
  BY <1>2, SameRows, SameMoves DEF C!Create, T!Create
<1>3. ASSUME NEW p \in Requests, C!RecordActivity(p) PROVE T!RecordActivity(p)
  BY <1>3, SameMoves DEF C!RecordActivity, T!RecordActivity
<1>4. ASSUME NEW p \in Requests, C!RecordNotification(p) PROVE T!RecordNotification(p)
  BY <1>4, SameMoves DEF C!RecordNotification, T!RecordNotification
<1>5. ASSUME NEW p \in Requests, C!GetOwned(p) PROVE T!GetOwned(p)
  BY <1>5, SameRows, SameMoves DEF C!GetOwned, T!GetOwned
<1>6. ASSUME NEW p \in Requests, C!Update(p) PROVE T!Update(p)
  <2>1. CASE C!Matched(req[p]) = {} /\ C!Goto(p, "writeMiss") /\ UNCHANGED <<collections, reply>>
    BY <1>6, <2>1, SameRows, SameMoves DEF C!Update, T!Update
  <2>2. ASSUME NEW x \in C!Matched(req[p]), NEW v \in C!NextRev(req[p].owner),
               NEW new, new = C!Revised(x, req[p].content, v),
               collections' = (collections \ {x}) \cup {new}, C!Answer(p, "ok", {new})
        PROVE  T!Update(p)
    <3>1. x \in T!Matched(req[p]) /\ v \in T!NextRev(req[p].owner)
      BY SameRows
    <3>2. new = T!Revised(x, req[p].content, v) /\ T!Answer(p, "ok", {new})
      BY <2>2, SameWrites, SameMoves
    <3>. QED
      BY <1>6, <2>2, <3>1, <3>2 DEF C!Update, T!Update
  <2>. QED
    BY <1>6, <2>1, <2>2 DEF C!Update
<1>7. ASSUME NEW p \in Requests, C!Delete(p) PROVE T!Delete(p)
  BY <1>7, SameRows, SameWrites, SameMoves DEF C!Delete, T!Delete
<1>8. ASSUME NEW p \in Requests, C!WriteMiss(p) PROVE T!WriteMiss(p)
  BY <1>8, SameRows, SameMoves DEF C!WriteMiss, T!WriteMiss
<1>9. ASSUME NEW p \in Requests, C!List(p) PROVE T!List(p)
  BY <1>9, SameRows, SameMoves DEF C!List, T!List
<1>10. ASSUME NEW p \in Requests, C!Respond(p) PROVE T!Respond(p)
  BY <1>10, SameRequests, SameMoves DEF C!Respond, T!Respond
<1>11. ASSUME NEW p \in Requests, C!DbFail(p) PROVE T!DbFail(p)
  BY <1>11, SameMoves DEF C!DbFail, T!DbFail
<1>12. C!Crash => T!Crash
  BY SameRequests, SameMoves DEF C!Crash, T!Crash
<1>13. ASSUME NEW p \in Requests,
              ReceiveCollection(p) \/ ServeCollection(p) \/ FailCollection(p)
       PROVE  T!Receive(p) \/ T!Serve(p) \/ T!DbFail(p)
  BY <1>1, <1>2, <1>3, <1>4, <1>5, <1>6, <1>7, <1>8, <1>9, <1>10, <1>11, <1>13
  DEF ReceiveCollection, ServeCollection, FailCollection, CreateCollection,
      RecordActivity, RecordNotification, GetOwnedCollection, UpdateCollection,
      DeleteCollection, WriteMiss, ListCollections, RespondCollection, T!Serve
<1>14. ASSUME NEW m \in Readers,
              \/ ReceiveMail(m) \/ ListNotifications(m) \/ ListActivity(m)
              \/ MarkRead(m) \/ FailMail(m) \/ RespondMail(m)
       PROVE  UNCHANGED T!vars \/ FaultElsewhere
  BY <1>14
  DEF ReceiveMail, ListNotifications, ListActivity, MarkRead, FailMail, RespondMail,
      table, stored, T!vars, FaultElsewhere
<1>. QED
  BY <1>12, <1>13, <1>14 DEF Next, Crash, T!Next, cvars, table, stored, T!vars

\* What is proved of a synchronised table holds of this one.
TableInv == T!TypeOK /\ T!KeysIdentifyRows /\ T!FeedsInductive

LEMMA TableInvStep ==
    ASSUME TableInv, [Next]_cvars
    PROVE  TableInv'
<1>1. CASE [T!Next]_(T!vars)
  <2>1. T!TypeOK'
    BY <1>1, TableAssumptions, T!TypeStep DEF TableInv
  <2>2. T!KeysIdentifyRows'
    BY <1>1, TableAssumptions, T!KeysStep DEF TableInv
  <2>3. T!FeedsInductive'
    BY <1>1, TableAssumptions, T!FeedsStep DEF TableInv
  <2>. QED
    BY <2>1, <2>2, <2>3 DEF TableInv
<1>2. CASE FaultElsewhere
  <2>1. T!TypeOK'
    BY <1>2 DEF FaultElsewhere, TableInv, T!TypeOK
  <2>2. T!KeysIdentifyRows'
    BY <1>2 DEF FaultElsewhere, TableInv, T!KeysIdentifyRows
  <2>3. T!FeedsInductive'
    BY <1>2 DEF FaultElsewhere, TableInv, T!FeedsInductive, T!FeedsMatchRows,
                T!OneRecorder, T!Recording
  <2>. QED
    BY <2>1, <2>2, <2>3 DEF TableInv
<1>. QED
  BY <1>1, <1>2, TableStep

LEMMA TableInvHolds == Spec => []TableInv
<1>1. Init => TableInv
  <2> SUFFICES ASSUME Init PROVE TableInv
    OBVIOUS
  <2>1. /\ collections = Legacy
        /\ activities = [e \in T!Entries |-> 0]
        /\ notifications = [e \in T!Entries |-> 0]
        /\ pc = [p \in Requests |-> "idle"]
        /\ req = [p \in Requests |-> T!NoRequest]
        /\ reply = [p \in Requests |-> T!NoReply]
        /\ faults = 0
    BY SameRequests DEF Init, C!Init, C!Entries, T!Entries
  <2>2. T!TypeOK
    BY <2>1 DEF T!TypeOK, T!Calls, T!NoRequest, T!NoReply, T!Statuses, T!Fits,
                T!Row, C!Row
  <2>3. T!KeysIdentifyRows
    BY <2>1 DEF T!KeysIdentifyRows, C!Row
  <2>4. T!FeedsInductive
    BY <2>1 DEF T!FeedsInductive, T!FeedsMatchRows, T!OneRecorder, T!Recording
  <2>. QED
    BY <2>2, <2>3, <2>4 DEF TableInv
<1>2. TableInv /\ [Next]_cvars => TableInv'
  BY TableInvStep
<1>. QED
  BY <1>1, <1>2, PTL DEF Spec

(***************************************************************************)
(* The table of collections is as good as that of bookmarks, also with an  *)
(* inbox that reads and fails beside it: the state is typed, so that every *)
(* membership list in it was normalised; ids are keys and revisions are    *)
(* not shared; and the feeds are about existing rows.                      *)
(***************************************************************************)
THEOREM TableCorrect ==
    Spec => [](C!TypeOK /\ C!KeysIdentifyRows /\ C!FeedsMatchRows)
<1>1. TableInv => C!TypeOK
  BY SameRequests
  DEF TableInv, T!TypeOK, C!TypeOK, C!Row, T!Row, C!Entries, T!Entries, C!Calls,
      T!Calls, C!Statuses, T!Statuses, C!Fits, T!Fits
<1>2. TableInv => C!KeysIdentifyRows
  BY DEF TableInv, T!KeysIdentifyRows, C!KeysIdentifyRows
<1>3. TableInv => C!FeedsMatchRows
  BY DEF TableInv, T!FeedsInductive, T!FeedsMatchRows, C!FeedsMatchRows,
         C!Entries, T!Entries
<1>. QED
  BY <1>1, <1>2, <1>3, TableInvHolds, PTL

(***************************************************************************)
(* Collections stay, tombstones are final, and every change is given a     *)
(* revision above all the revisions of its owner.                          *)
(***************************************************************************)
THEOREM RowsAdvance == Spec => C!RowsOnlyAdvance
<1>1. ASSUME TableInv, [Next]_cvars PROVE T!Advance
  <2>1. CASE [T!Next]_(T!vars)
    BY <1>1, <2>1, TableAssumptions, T!AdvanceStep DEF TableInv
  <2>2. CASE FaultElsewhere
    BY <2>2 DEF FaultElsewhere, T!Advance
  <2>. QED
    BY <1>1, <2>1, <2>2, TableStep
<1>2. TableInv /\ [Next]_cvars => [T!Advance]_(C!vars)
  BY <1>1
<1>. QED
  BY <1>2, TableInvHolds, PTL DEF Spec, C!RowsOnlyAdvance, T!Advance

(***************************************************************************)
(* An answer "ok" to a creation is only on its way when its activity and   *)
(* its notification can be listed, unless something failed.                *)
(***************************************************************************)
THEOREM AnswersAfterRecording == Spec => []AnsweredIsRecorded
<1> DEFINE AllRecorded == \A p \in Requests : T!Recorded(p)
<1>1. Init => AllRecorded
  BY DEF Init, C!Init, T!Recorded
<1>2. ASSUME TableInv, AllRecorded, [Next]_cvars PROVE AllRecorded'
  <2>1. ASSUME NEW p \in Requests PROVE T!Recorded(p)'
    <3>1. CASE [T!Next]_(T!vars)
      BY <1>2, <3>1, TableAssumptions, T!RecordedStep DEF TableInv
    <3>2. CASE FaultElsewhere
      BY <1>2, <3>2 DEF FaultElsewhere, TableInv, T!TypeOK, T!Recorded
    <3>. QED
      BY <1>2, <3>1, <3>2, TableStep
  <2>. QED
    BY <2>1
<1>3. ASSUME TableInv, AllRecorded PROVE AnsweredIsRecorded
  <2> SUFFICES ASSUME NEW p \in Requests, pc[p] = "respond", req[p].op = "create",
                      reply[p].status = "ok", faults = 0
               PROVE  LET e == <<req[p].owner, req[p].id>>
                      IN  activities[e] = 1 /\ notifications[e] = 1
    BY DEF AnsweredIsRecorded
  <2> DEFINE e == <<req[p].owner, req[p].id>>
  <2>1. e \in T!Entries
    BY <1>3, TableAssumptions, T!EntryOfCreation DEF TableInv
  <2>2. activities[e] \in Nat /\ notifications[e] \in Nat
    BY <1>3, <2>1 DEF TableInv, T!TypeOK
  <2>3. activities[e] <= 1 /\ notifications[e] <= 1
    BY <1>3, <2>1 DEF TableInv, T!FeedsInductive, T!FeedsMatchRows
  <2>4. activities[e] > 0 /\ notifications[e] > 0
    BY <1>3 DEF T!Recorded
  <2>. QED
    BY <2>2, <2>3, <2>4
<1>. QED
  BY <1>1, <1>2, <1>3, TableInvHolds, PTL DEF Spec

-----------------------------------------------------------------------------
Shown(op) ==
    IF op = "activity" THEN C!Entries ELSE [entry : C!Entries, read : BOOLEAN]

Mail(op) ==
    [op : {op}, owner : Owners \cup {None}, about : C!Entries \cup {None},
     shown : SUBSET Shown(op), status : {"none", "ok", "server_error"}]

MailTypeOK(m) ==
    /\ mail[m].op \in {"none", "list", "activity", "mark"}
    /\ mail[m] \in Mail(mail[m].op)

\* A mark names a notification that exists, or nothing, whatever is created
\* since; the owner's wish is on record, and carried out before "ok".
MailOK(m) ==
    /\ MailTypeOK(m)
    /\ mail[m].about \in Notified \cup {None}
    /\ mail[m].op # "mark" => mail[m].about = None
    /\ Marked(m) \subseteq asked
    /\ mail[m].status = "ok" => Marked(m) \subseteq read
    /\ mail[m].op = "list" =>
          \A n \in mail[m].shown : n.read => n.entry \in read

InboxInv ==
    /\ DOMAIN mail = Readers
    /\ InboxFollowsOwner
    /\ \A m \in Readers : MailOK(m)

\* Notifications are never withdrawn.
LEMMA NotifiedGrows ==
    ASSUME TableInv, [Next]_cvars
    PROVE  Notified \subseteq Notified'
<1> SUFFICES ASSUME NEW e \in C!Entries, notifications[e] > 0
             PROVE  notifications'[e] > 0
  BY DEF Notified, C!Entries
<1>1. e \in T!Entries
  BY DEF T!Entries, C!Entries
<1>2. CASE [T!Next]_(T!vars)
  BY <1>1, <1>2, TableAssumptions, T!EntriesGrow DEF TableInv
<1>3. CASE FaultElsewhere
  BY <1>3 DEF FaultElsewhere
<1>. QED
  BY <1>2, <1>3, TableStep

\* A request that does not move stays right while the inbox grows around it.
LEMMA MailStays ==
    ASSUME NEW m \in Readers, MailOK(m), mail'[m] = mail[m],
           Notified \subseteq Notified', read \subseteq read', asked \subseteq asked'
    PROVE  MailOK(m)'
<1>1. MailTypeOK(m)'
  BY DEF MailOK, MailTypeOK, Mail, Shown, C!Entries
<1>2. Marked(m)' \subseteq Marked(m)
  BY DEF MailOK, Marked, Notified, C!Entries
<1>. QED
  BY <1>1, <1>2 DEF MailOK

\* What a step of one reader's request leaves alone.
LEMMA OtherMailStays ==
    ASSUME InboxInv, NEW m \in Readers, NEW msg, mail' = [mail EXCEPT ![m] = msg],
           notifications' = notifications, read \subseteq read', asked \subseteq asked',
           MailOK(m)', InboxFollowsOwner'
    PROVE  InboxInv'
<1>1. Notified \subseteq Notified'
  BY DEF Notified, C!Entries
<1>2. ASSUME NEW n \in Readers, n # m PROVE MailOK(n)'
  <2>1. mail'[n] = mail[n]
    BY <1>2 DEF InboxInv
  <2>. QED
    BY <1>1, <2>1, MailStays DEF InboxInv
<1>. QED
  BY <1>2 DEF InboxInv

\* The same for a request that is answered.  An "ok" comes when the owner's
\* wish is carried out, and a list shows nothing as read that is not.
LEMMA AnsweredMail ==
    ASSUME InboxInv, NEW m \in Readers, NEW status \in {"ok", "server_error"},
           NEW shown \in SUBSET Shown(mail[m].op), AnswerMail(m, status, shown),
           notifications' = notifications, asked' = asked, acked' = acked,
           read \subseteq read', read' \subseteq asked,
           status = "ok" => Marked(m) \subseteq read',
           mail[m].op = "list" => \A n \in shown : n.read => n.entry \in read'
    PROVE  InboxInv'
<1> DEFINE msg == [mail[m] EXCEPT !.status = status, !.shown = shown]
<1>1. mail' = [mail EXCEPT ![m] = msg] /\ mail'[m] = msg
  BY Zenon DEF AnswerMail, InboxInv
<1>2. MailTypeOK(m)
  BY DEF InboxInv, MailOK
<1>3. /\ msg.op = mail[m].op /\ msg.owner = mail[m].owner
      /\ msg.about = mail[m].about /\ msg.status = status /\ msg.shown = shown
      /\ msg \in Mail(mail[m].op)
  BY <1>2 DEF MailTypeOK, Mail
<1> HIDE DEF msg
<1>4. MailTypeOK(m)'
  BY <1>1, <1>2, <1>3 DEF MailTypeOK, Mail, Shown, C!Entries
<1>5. Marked(m)' = Marked(m)
  BY <1>1, <1>3 DEF Marked, Notified, C!Entries
<1>6. MailOK(m)'
  BY <1>1, <1>3, <1>4, <1>5 DEF InboxInv, MailOK, Notified, C!Entries
<1>7. InboxFollowsOwner'
  BY DEF InboxInv, InboxFollowsOwner
<1>. QED
  BY <1>1, <1>6, <1>7, OtherMailStays

\* A slot without a request.
LEMMA NoMailTypeOK == NoMail \in Mail("none") /\ NoMail.op = "none"
  BY DEF NoMail, Mail

LEMMA NoMailOK ==
    ASSUME NEW m \in Readers, mail'[m] = NoMail
    PROVE  MailOK(m)'
<1>1. MailTypeOK(m)'
  BY NoMailTypeOK DEF MailTypeOK, Mail, Shown, C!Entries
<1>. QED
  BY <1>1 DEF MailOK, NoMail, Marked, Notified, C!Entries

LEMMA InboxStep ==
    ASSUME TableInv, InboxInv, [Next]_cvars
    PROVE  InboxInv'
<1>0. read \subseteq asked
  BY DEF InboxInv, InboxFollowsOwner
<1>1. CASE UNCHANGED inbox
  BY <1>1, NotifiedGrows, MailStays DEF inbox, InboxInv, InboxFollowsOwner
<1>2. ASSUME NEW m \in Readers, ReceiveMail(m) PROVE InboxInv'
  <2>1. PICK op \in {"list", "activity", "mark"}, o \in Owners,
             about \in Notified \cup {None} :
          /\ op # "mark" => about = None
          /\ mail' = [mail EXCEPT ![m] =
                        [op |-> op, owner |-> o, about |-> about,
                         shown |-> {}, status |-> "none"]]
          /\ asked' = asked \cup {e \in Notified : e = about /\ e[1] = o}
    BY <1>2 DEF ReceiveMail
  <2>2. notifications' = notifications /\ read' = read /\ acked' = acked
    BY <1>2 DEF ReceiveMail, table, stored
  <2> DEFINE msg == [op |-> op, owner |-> o, about |-> about,
                     shown |-> {}, status |-> "none"]
  <2>3. mail'[m] = msg /\ mail' = [mail EXCEPT ![m] = msg]
    BY <2>1 DEF InboxInv
  <2>4. MailTypeOK(m)'
    BY <2>3 DEF MailTypeOK, Mail, Notified
  <2>5. Marked(m)' \subseteq asked'
    BY <2>1, <2>2, <2>3 DEF Marked, Notified, C!Entries
  <2>6. MailOK(m)'
    BY <2>1, <2>2, <2>3, <2>4, <2>5 DEF MailOK, Notified, C!Entries
  <2>7. InboxFollowsOwner'
    BY <2>1, <2>2 DEF InboxInv, InboxFollowsOwner
  <2>. QED
    BY <2>1, <2>2, <2>3, <2>6, <2>7, OtherMailStays
<1>3. ASSUME NEW m \in Readers, ListNotifications(m) PROVE InboxInv'
  <2> DEFINE shown == {[entry |-> e, read |-> e \in read] :
                          e \in {n \in Notified : n[1] = mail[m].owner}}
  <2>1. Asks(m, "list") /\ AnswerMail(m, "ok", shown)
    BY <1>3 DEF ListNotifications
  <2>2. UNCHANGED <<notifications, read, asked, acked>>
    BY <1>3 DEF ListNotifications, table, stored
  <2>3. shown \in SUBSET Shown("list")
    <3> SUFFICES ASSUME NEW e \in Notified
                 PROVE  [entry |-> e, read |-> e \in read] \in Shown("list")
      OBVIOUS
    <3>1. e \in C!Entries /\ (e \in read) \in BOOLEAN
      BY DEF Notified
    <3>. QED
      BY <3>1 DEF Shown
  <2>4. \A n \in shown : n.read => n.entry \in read
    <3> SUFFICES ASSUME NEW e, [entry |-> e, read |-> e \in read].read
                 PROVE  [entry |-> e, read |-> e \in read].entry \in read
      BY Zenon
    <3>. QED
      OBVIOUS
  <2> HIDE DEF shown
  <2>5. mail[m].op = "list" /\ mail[m].about = None
    BY <2>1 DEF Asks, InboxInv, MailOK
  <2>6. \A n \in shown : n.read => n.entry \in read'
    BY <2>2, <2>4
  <2>7. Marked(m) = {}
    BY <2>5 DEF Marked, Notified
  <2>. QED
    BY <2>1, <2>2, <2>3, <2>5, <2>6, <2>7, <1>0, AnsweredMail
<1>4. ASSUME NEW m \in Readers, ListActivity(m) PROVE InboxInv'
  <2> DEFINE shown == {e \in C!Entries : e[1] = mail[m].owner /\ activities[e] > 0}
  <2>1. Asks(m, "activity") /\ AnswerMail(m, "ok", shown)
    BY <1>4 DEF ListActivity
  <2>2. UNCHANGED <<notifications, read, asked, acked>>
    BY <1>4 DEF ListActivity, table, stored
  <2>3. shown \in SUBSET Shown("activity")
    BY DEF Shown
  <2> HIDE DEF shown
  <2>4. mail[m].op = "activity" /\ mail[m].about = None
    BY <2>1 DEF Asks, InboxInv, MailOK
  <2>5. Marked(m) = {}
    BY <2>4 DEF Marked, Notified
  <2>. QED
    BY <2>1, <2>2, <2>3, <2>4, <2>5, <1>0, AnsweredMail
<1>5. ASSUME NEW m \in Readers, MarkRead(m) PROVE InboxInv'
  <2>1. /\ mail[m].op = "mark" /\ AnswerMail(m, "ok", {})
        /\ read' = read \cup Marked(m)
        /\ UNCHANGED <<notifications, asked, acked>>
    BY <1>5 DEF MarkRead, Asks, table, stored
  <2>2. Marked(m) \subseteq asked
    BY DEF InboxInv, MailOK
  <2>. QED
    BY <2>1, <2>2, <1>0, AnsweredMail
<1>6. ASSUME NEW m \in Readers, FailMail(m) PROVE InboxInv'
  <2>1. /\ AnswerMail(m, "server_error", {})
        /\ UNCHANGED <<notifications, read, asked, acked>>
    BY <1>6 DEF FailMail, C!stored, stored
  <2>. QED
    BY <2>1, <1>0, AnsweredMail
<1>7. ASSUME NEW m \in Readers, RespondMail(m) PROVE InboxInv'
  <2>1. /\ mail' = [mail EXCEPT ![m] = NoMail]
        /\ UNCHANGED <<notifications, read, asked>>
        /\ acked' = acked \cup {e \in Marked(m) : mail[m].status = "ok"}
    BY <1>7 DEF RespondMail, Marked, table, stored
  <2>2. InboxFollowsOwner'
    BY <2>1 DEF InboxInv, InboxFollowsOwner, MailOK
  <2>3. mail'[m] = NoMail
    BY <2>1 DEF InboxInv
  <2>4. MailOK(m)'
    BY <2>3, NoMailOK
  <2>. QED
    BY <2>1, <2>2, <2>4, OtherMailStays
<1>8. CASE Crash
  <2>1. mail' = [m \in Readers |-> NoMail] /\ UNCHANGED <<read, asked, acked>>
    BY <1>8 DEF Crash
  <2>2. \A m \in Readers : MailOK(m)'
    BY <2>1, NoMailOK
  <2>. QED
    BY <2>1, <2>2 DEF InboxInv, InboxFollowsOwner
<1>. QED
  BY <1>1, <1>2, <1>3, <1>4, <1>5, <1>6, <1>7, <1>8
  DEF Next, cvars, ReceiveCollection, ServeCollection, FailCollection,
      CreateCollection, RecordActivity, RecordNotification, GetOwnedCollection,
      UpdateCollection, DeleteCollection, WriteMiss, ListCollections,
      RespondCollection

LEMMA InboxInvHolds == Spec => []InboxInv
<1>1. Init => InboxInv
  <2> SUFFICES ASSUME Init PROVE InboxInv
    OBVIOUS
  <2>1. ASSUME NEW m \in Readers PROVE MailOK(m)
    <3>1. mail[m] = NoMail
      BY DEF Init
    <3>2. MailTypeOK(m)
      BY <3>1, NoMailTypeOK DEF MailTypeOK
    <3>. QED
      BY <3>1, <3>2 DEF NoMail, MailOK, Marked, Notified
  <2>. QED
    BY <2>1 DEF Init, InboxInv, InboxFollowsOwner
<1>2. TableInv /\ InboxInv /\ [Next]_cvars => InboxInv'
  BY InboxStep
<1>. QED
  BY <1>1, <1>2, TableInvHolds, PTL DEF Spec

(***************************************************************************)
(* What is read its owner asked for, and what an owner was told is read    *)
(* is, whatever else is sent, created, failed or interrupted.              *)
(***************************************************************************)
THEOREM InboxCorrect == Spec => []InboxFollowsOwner
<1>1. InboxInv => InboxFollowsOwner
  BY DEF InboxInv
<1>. QED
  BY <1>1, InboxInvHolds, PTL

(***************************************************************************)
(* What an answer shows as read is still read when it arrives.             *)
(***************************************************************************)
THEOREM ReadStaysRead == Spec => []ShownReadIsRead
<1>1. InboxInv => ShownReadIsRead
  BY DEF InboxInv, MailOK, ShownReadIsRead
<1>. QED
  BY <1>1, InboxInvHolds, PTL

-----------------------------------------------------------------------------
\* What the loop of normalizeTags computes.  The induction over its turns is a
\* search for the first turn at which the claim fails.
LEMMA LeastNumber ==
    ASSUME NEW S \in SUBSET Nat, S # {}
    PROVE  \E n \in S : \A s \in S : n <= s
<1> DEFINE R == OpToRel(<, Nat)
<1>1. IsWellFoundedOn(R, Nat)
  BY NatLessThanWellFounded
<1>2. \A x, y \in S : y < x => <<y, x>> \in R
  BY DEF OpToRel
<1> HIDE DEF R
<1>3. PICK n \in S : \A y \in S : ~(<<y, n>> \in R)
  BY <1>1, WFMin
<1>4. \A y \in S : ~(y < n)
  BY <1>2, <1>3
<1>. QED
  BY <1>4

\* The lists after each of the first k turns.
Turns(out, raw, k) ==
    out = [n \in 0..k |-> IF n = 0 THEN <<>> ELSE Add(out[n - 1], raw[n].id)]

LEMMA TurnsExist ==
    ASSUME NEW raw, NEW k \in Nat
    PROVE  \E out : Turns(out, raw, k)
<1> DEFINE Bad == {n \in Nat : ~\E out : Turns(out, raw, n)}
<1> SUFFICES ASSUME Bad # {} PROVE FALSE
  OBVIOUS
<1>1. PICK n \in Bad : \A m \in Bad : n <= m
  <2>1. Bad \in SUBSET Nat
    OBVIOUS
  <2> HIDE DEF Bad
  <2>. QED
    BY <2>1, LeastNumber
<1>2. CASE n = 0
  <2>1. Turns([m \in 0..0 |-> <<>>], raw, 0)
    BY DEF Turns
  <2>. QED
    BY <1>2, <2>1
<1>3. CASE n # 0
  <2>1. n - 1 \in Nat /\ n - 1 \notin Bad
    BY <1>1, <1>3
  <2>2. PICK f : Turns(f, raw, n - 1)
    BY <2>1
  <2> DEFINE g == [m \in 0..n |-> IF m = n THEN Add(f[n - 1], raw[n].id) ELSE f[m]]
             Turn(h, m) == IF m = 0 THEN <<>> ELSE Add(h[m - 1], raw[m].id)
  <2>3. ASSUME NEW m \in 0..n PROVE g[m] = Turn(g, m)
    <3>1. CASE m = n
      <4>1. g[n] = Add(f[n - 1], raw[n].id) /\ g[n - 1] = f[n - 1]
        BY <1>3
      <4>. QED
        BY <1>3, <3>1, <4>1
    <3>2. CASE m # n
      <4>1. m \in 0..(n - 1) /\ g[m] = f[m]
        BY <3>2
      <4>2. f[m] = Turn(f, m)
        BY <2>2, <4>1 DEF Turns
      <4>3. m # 0 => g[m - 1] = f[m - 1]
        BY <4>1
      <4>. QED
        BY <4>1, <4>2, <4>3
    <3>. QED
      BY <3>1, <3>2
  <2>4. g = [m \in 0..n |-> g[m]]
    OBVIOUS
  <2> HIDE DEF g
  <2>5. Turns(g, raw, n)
    BY <2>3, <2>4 DEF Turns
  <2>. QED
    BY <1>1, <2>5
<1>. QED
  BY <1>2, <1>3

LEMMA NormalizeTurns ==
    ASSUME NEW raw, Len(raw) \in Nat
    PROVE  \E out : Turns(out, raw, Len(raw)) /\ Normalize(raw) = out[Len(raw)]
<1> DEFINE out == CHOOSE f : Turns(f, raw, Len(raw))
<1>1. Turns(out, raw, Len(raw))
  BY TurnsExist
<1>2. Normalize(raw) = out[Len(raw)]
  BY DEF Normalize, Turns
<1>. QED
  BY <1>1, <1>2

\* The names in the first n elements of a list.
NamesIn(raw, n) == {raw[i].id : i \in 1..n}

\* First finds the first place.
LEMMA FirstIs ==
    ASSUME NEW raw, Len(raw) \in Nat, DOMAIN raw = 1..Len(raw),
           NEW n \in 1..Len(raw), NEW x, raw[n].id = x,
           \A j \in 1..(n - 1) : raw[j].id # x
    PROVE  First(raw, x) = n
<1> DEFINE P(i) == raw[i].id = x /\ \A j \in 1..(i - 1) : raw[j].id # x
<1>1. P(n) /\ n \in DOMAIN raw
  OBVIOUS
<1>2. PICK i \in DOMAIN raw : i = First(raw, x) /\ P(i)
  BY <1>1 DEF First
<1>3. ~(i < n) /\ ~(n < i)
  BY <1>1, <1>2
<1>. QED
  BY <1>2, <1>3

LEMMA FirstWithin ==
    ASSUME NEW raw, Len(raw) \in Nat, DOMAIN raw = 1..Len(raw),
           NEW n \in 0..Len(raw), NEW x \in NamesIn(raw, n)
    PROVE  First(raw, x) \in 1..n
<1> DEFINE S == {i \in 1..n : raw[i].id = x}
<1>1. S \in SUBSET Nat /\ S # {}
  BY DEF NamesIn
<1>2. PICK m \in S : \A s \in S : m <= s
  <2> HIDE DEF S
  <2>. QED
    BY <1>1, LeastNumber
<1>3. \A j \in 1..(m - 1) : raw[j].id # x
  <2> SUFFICES ASSUME NEW j \in 1..(m - 1), raw[j].id = x PROVE FALSE
    OBVIOUS
  <2>1. j \in S /\ j < m
    BY <1>2
  <2>. QED
    BY <1>2, <2>1
<1>4. m \in 1..Len(raw) /\ raw[m].id = x
  BY <1>2
<1>. QED
  BY <1>2, <1>3, <1>4, FirstIs

\* A list after n turns: the names among the first n elements, in the order of
\* their first places.
Normal(out, raw, n) ==
    /\ out \in Seq(NamesIn(raw, Len(raw)))
    /\ {out[i] : i \in 1..Len(out)} = NamesIn(raw, n) \ {None}
    /\ \A i, j \in 1..Len(out) : i < j => First(raw, out[i]) < First(raw, out[j])

LEMMA NormalTurn ==
    ASSUME NEW raw, Len(raw) \in Nat, DOMAIN raw = 1..Len(raw),
           NEW n \in 1..Len(raw), NEW out, Normal(out, raw, n - 1)
    PROVE  Normal(Add(out, raw[n].id), raw, n)
<1> DEFINE x == raw[n].id
<1>1. NamesIn(raw, n) = NamesIn(raw, n - 1) \cup {x}
  <2>1. 1..n = (1..(n - 1)) \cup {n}
    OBVIOUS
  <2>. QED
    BY <2>1 DEF NamesIn
<1>2. Contains(out, x) <=> x \in NamesIn(raw, n - 1) \ {None}
  BY DEF Normal, Contains
<1>3. CASE x = None \/ Contains(out, x)
  BY <1>1, <1>2, <1>3 DEF Normal, Add
<1>4. CASE ~(x = None \/ Contains(out, x))
  <2> DEFINE new == Append(out, x)
  <2>1. x # None /\ x \notin NamesIn(raw, n - 1) /\ x \in NamesIn(raw, Len(raw))
    BY <1>2, <1>4 DEF NamesIn
  <2>2. /\ Len(out) \in Nat
        /\ new \in Seq(NamesIn(raw, Len(raw))) /\ Len(new) = Len(out) + 1
        /\ new[Len(out) + 1] = x /\ \A i \in 1..Len(out) : new[i] = out[i]
    BY <2>1 DEF Normal
  <2>3. First(raw, x) = n
    BY <2>1, FirstIs DEF NamesIn
  <2>4. \A i \in 1..Len(out) : First(raw, out[i]) \in 1..(n - 1)
    <3>1. \A i \in 1..Len(out) : out[i] \in NamesIn(raw, n - 1)
      BY DEF Normal
    <3>. QED
      BY <3>1, FirstWithin
  <2>5. {new[i] : i \in 1..Len(new)} = NamesIn(raw, n) \ {None}
    <3>1. {new[i] : i \in 1..Len(new)} = {out[i] : i \in 1..Len(out)} \cup {x}
      <4>1. 1..Len(new) = (1..Len(out)) \cup {Len(out) + 1}
        BY <2>2
      <4>. QED
        BY <2>2, <4>1
    <3>. QED
      BY <3>1, <1>1, <2>1 DEF Normal
  <2>6. \A i, j \in 1..Len(new) : i < j => First(raw, new[i]) < First(raw, new[j])
    <3> SUFFICES ASSUME NEW i \in 1..Len(new), NEW j \in 1..Len(new), i < j
                 PROVE  First(raw, new[i]) < First(raw, new[j])
      OBVIOUS
    <3>1. i \in 1..Len(out) /\ new[i] = out[i]
      BY <2>2
    <3>2. CASE j = Len(out) + 1
      BY <2>2, <2>3, <2>4, <3>1, <3>2
    <3>3. CASE j # Len(out) + 1
      BY <2>2, <3>1, <3>3 DEF Normal
    <3>. QED
      BY <3>2, <3>3
  <2>7. Add(out, x) = new
    BY <1>4 DEF Add
  <2> HIDE DEF new
  <2>. QED
    BY <2>2, <2>5, <2>6, <2>7 DEF Normal
<1>. QED
  BY <1>3, <1>4

\* normalizeTags computes the normal form of every list.
LEMMA NormalizeCorrect ==
    ASSUME NEW raw, Len(raw) \in Nat, DOMAIN raw = 1..Len(raw)
    PROVE  IsNormalFormOf(Normalize(raw), raw)
<1>1. PICK out : Turns(out, raw, Len(raw)) /\ Normalize(raw) = out[Len(raw)]
  BY NormalizeTurns
<1>2. \A n \in 0..Len(raw) :
         out[n] = IF n = 0 THEN <<>> ELSE Add(out[n - 1], raw[n].id)
  BY <1>1 DEF Turns
<1> DEFINE Bad == {n \in 0..Len(raw) : ~Normal(out[n], raw, n)}
<1>3. Bad = {}
  <2> SUFFICES ASSUME Bad # {} PROVE FALSE
    OBVIOUS
  <2>1. PICK n \in Bad : \A m \in Bad : n <= m
    <3>1. Bad \in SUBSET Nat
      OBVIOUS
    <3> HIDE DEF Bad
    <3>. QED
      BY <3>1, LeastNumber
  <2>2. CASE n = 0
    <3>1. out[0] = <<>>
      BY <1>2
    <3>2. NamesIn(raw, 0) = {}
      BY DEF NamesIn
    <3>3. Normal(<<>>, raw, 0)
      BY <3>2 DEF Normal
    <3>. QED
      BY <2>1, <2>2, <3>1, <3>3
  <2>3. CASE n # 0
    <3>1. n \in 1..Len(raw) /\ n - 1 \in 0..Len(raw) /\ n - 1 \notin Bad
      BY <2>1, <2>3
    <3>2. Normal(out[n - 1], raw, n - 1)
      BY <3>1
    <3>3. Normal(Add(out[n - 1], raw[n].id), raw, n)
      BY <3>1, <3>2, NormalTurn
    <3>4. out[n] = Add(out[n - 1], raw[n].id)
      BY <1>2, <2>3, <3>1
    <3>. QED
      BY <2>1, <3>3, <3>4
  <2>. QED
    BY <2>2, <2>3
<1>4. Normal(Normalize(raw), raw, Len(raw))
  BY <1>1, <1>3
<1>5. DOMAIN Normalize(raw) = 1..Len(Normalize(raw))
  BY <1>4 DEF Normal
<1>. QED
  BY <1>4, <1>5 DEF Normal, IsNormalFormOf, NamesIn

(***************************************************************************)
(* Whatever lists clients send, the table holds normalised ones.           *)
(***************************************************************************)
THEOREM ListsNormalized == Spec => []MembershipsNormalized
<1>1. TableInv => MembershipsNormalized
  <2> SUFFICES ASSUME TableInv, NEW x \in collections
               PROVE  \E raw \in RawLists : IsNormalFormOf(x.content, raw)
    BY DEF MembershipsNormalized
  <2>1. x.content \in Contents
    BY DEF TableInv, T!TypeOK, T!Row
  <2>2. PICK raw \in RawLists : x.content = Normalize(raw)
    BY <2>1 DEF Contents
  <2>. QED
    BY <2>2, ListsAssumption, NormalizeCorrect
<1>. QED
  BY <1>1, TableInvHolds, PTL
=============================================================================
