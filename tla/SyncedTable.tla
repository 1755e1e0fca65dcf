----------------------------- MODULE SyncedTable -----------------------------
(***************************************************************************)
(* The bookmark endpoints, from the HTTP handler down to the SQL           *)
(* statements.  Each request is served by a goroutine of its own; what is  *)
(* atomic is one SQL statement, so a request is a sequence of repository   *)
(* calls between which the other requests run:                             *)
(*                                                                         *)
(*    create    Create, activities.Create, notifications.Create            *)
(*    update    GetOwned, Update, and writeMiss when no row matched        *)
(*    delete    Delete, and writeMiss when no row matched                  *)
(*    get       GetOwned                                                   *)
(*    list      ListByOwner, or ListByOwnerSince with a cursor             *)
(*                                                                         *)
(* pc[p] names the call that request p makes next.  Collections run the    *)
(* same sequences on a table of their own.                                 *)
(***************************************************************************)
EXTENDS Naturals, FiniteSets

CONSTANTS
    Owners,     \* authenticated accounts
    Ids,        \* primary keys; one made by NewID is an id nobody else uses
    Contents,   \* title, url, tags, ...: everything a client writes
    Requests,   \* slots for requests being served at the same time
    Ops,        \* operations the clients of this instance perform
    Legacy,     \* rows that predate revisions: ALTER TABLE gave them rev 0
    MaxRev,     \* bound on revisions
    MaxFaults,  \* bound on failed statements and crashes
    None,       \* a header, content or id that a request does not have
    Malformed   \* a header or cursor that is not a non-negative integer

Writes == {"create", "update", "delete"}

ASSUME ConstantsAssumption ==
    /\ MaxRev \in Nat
    /\ MaxFaults \in Nat
    /\ Ops \subseteq Writes \cup {"get", "list"}
    /\ None \notin 0..MaxRev /\ Malformed \notin 0..MaxRev /\ None # Malformed
    /\ None \notin Contents

Row == [id : Ids, owner : Owners, content : Contents,
        rev : 0..MaxRev, deleted : BOOLEAN]

ASSUME LegacyAssumption ==
    /\ Legacy \subseteq Row
    /\ \A x \in Legacy : x.rev = 0 /\ ~x.deleted
    /\ \A x, y \in Legacy : x.id = y.id => x = y

VARIABLES
    rows,           \* the table
    activities,     \* entries per owner and id in the activity feed
    notifications,  \* the same for notifications
    pc,             \* next call of each request
    req,            \* what it asked for
    reply,          \* what it will be answered
    faults          \* failures so far

vars == <<rows, activities, notifications, pc, req, reply, faults>>
stored == <<rows, activities, notifications>>

Entries == Owners \X Ids

Headers == 0..MaxRev \cup {None, Malformed}

\* header is X-Expected-Rev on a write, ?since on a list.
ClientRequests ==
    {r \in [op : Ops, owner : Owners, id : Ids \cup {None},
            content : Contents \cup {None}, header : Headers] :
        /\ r.id = None <=> r.op = "list"
        /\ r.op \notin {"create", "update"} => r.content = None
        /\ r.op \in {"create", "get"} => r.header = None}

NoRequest == [op |-> "none", owner |-> None, id |-> None,
              content |-> None, header |-> None]

NoReply == [status |-> "none", rows |-> {}]

-----------------------------------------------------------------------------
\* Mutant: a header that does not parse is let through.
RejectedFields(r) == r.op \in {"create", "update"} /\ r.content = None

\* validateBookmark, and a header or cursor that does not parse.
Rejected(r) ==
    \/ r.header = Malformed
    \/ r.op \in {"create", "update"} /\ r.content = None

\* A missing header and "0" both become expectedRev 0.
ExpectedRev(header) == IF header = None THEN 0 ELSE header

\* The repository call that each handler makes first.
FirstCalls == {<<"create", "Create">>, <<"update", "GetOwned">>,
               <<"get", "GetOwned">>, <<"delete", "Delete">>, <<"list", "List">>}

\* Mutant: without deleted_at IS NULL.
OwnedOrBuried(r) == {x \in rows : x.id = r.id /\ x.owner = r.owner}

\* SELECT ... WHERE id = ? AND owner_id = ? AND deleted_at IS NULL
Owned(r) == {x \in rows : x.id = r.id /\ x.owner = r.owner /\ ~x.deleted}

\* Mutant: without AND rev = ?
MatchedUnguarded(r) == Owned(r)

\* The row a guarded UPDATE matches, if any.
Matched(r) ==
    {x \in Owned(r) : ExpectedRev(r.header) \in {0, x.rev}}

\* Mutant: a tombstone that keeps the revision of the row.
BuriedAtOldRev(x, v) == [x EXCEPT !.deleted = TRUE]

\* The columns that the SET clauses assign.
Revised(x, c, v) == [x EXCEPT !.content = c, !.rev = v]
Buried(x, v) == [x EXCEPT !.rev = v, !.deleted = TRUE]

Live(o) == {x \in rows : x.owner = o /\ ~x.deleted}

\* Mutants: without tombstones; off by one.
SinceLive(o, cursor) == {x \in Live(o) : x.rev > cursor}
SinceOffByOne(o, cursor) == {x \in rows : x.owner = o /\ x.rev > cursor + 1}

Since(o, cursor) == {x \in rows : x.owner = o /\ x.rev > cursor}

\* Mutant: MAX(rev) over the live rows only.
NextRevOfLive(o) ==
    {v \in 1..MaxRev :
        /\ \A x \in Live(o) : x.rev < v
        /\ v = 1 \/ \E x \in Live(o) : x.rev = v - 1}

\* COALESCE(MAX(rev), 0) + 1 over the owner's rows, in the same statement.
NextRev(o) ==
    {v \in 1..MaxRev :
        /\ \A x \in rows : x.owner = o => x.rev < v
        /\ v = 1 \/ \E x \in rows : x.owner = o /\ x.rev = v - 1}

Goto(p, call) == pc' = [pc EXCEPT ![p] = call]

Answer(p, status, found) ==
    /\ Goto(p, "respond")
    /\ reply' = [reply EXCEPT ![p] = [status |-> status, rows |-> found]]

-----------------------------------------------------------------------------
Init ==
    /\ rows = Legacy
    /\ activities = [e \in Entries |-> 0]
    /\ notifications = [e \in Entries |-> 0]
    /\ pc = [p \in Requests |-> "idle"]
    /\ req = [p \in Requests |-> NoRequest]
    /\ reply = [p \in Requests |-> NoReply]
    /\ faults = 0

\* Bound: every write under way still finds a revision below MaxRev.
Room ==
    \A x \in rows :
        x.rev + Cardinality({q \in Requests : pc[q] # "idle"}) < MaxRev

Receive(p) ==
    /\ pc[p] = "idle"
    /\ \E r \in ClientRequests :
          /\ r.op \in Writes => Room
          /\ req' = [req EXCEPT ![p] = r]
          /\ IF Rejected(r)
             THEN Answer(p, "bad_request", {})
             ELSE /\ \E first \in FirstCalls :
                        first[1] = r.op /\ Goto(p, first[2])
                  /\ UNCHANGED reply
    /\ UNCHANGED <<stored, faults>>

\* Mutant: ON CONFLICT DO NOTHING, with the feeds written all the same.
CreateOrIgnore(p) ==
    /\ pc[p] = "Create"
    /\ LET r == req[p] IN
       \E v \in NextRev(r.owner) :
          rows' = IF \E x \in rows : x.id = r.id THEN rows
                  ELSE rows \cup {[id |-> r.id, owner |-> r.owner,
                          content |-> r.content, rev |-> v, deleted |-> FALSE]}
    /\ Goto(p, "activities.Create")
    /\ UNCHANGED <<activities, notifications, req, reply, faults>>

\* INSERT ... RETURNING rev.  The primary key spans owners and tombstones.
Create(p) ==
    /\ pc[p] = "Create"
    /\ LET r == req[p] IN
       \/ /\ \E x \in rows : x.id = r.id
          /\ Answer(p, "conflict", {})
          /\ UNCHANGED rows
       \/ /\ \A x \in rows : x.id # r.id
          /\ \E v \in NextRev(r.owner) :
                LET new == [id |-> r.id, owner |-> r.owner,
                            content |-> r.content, rev |-> v, deleted |-> FALSE]
                IN  /\ rows' = rows \cup {new}
                    /\ reply' = [reply EXCEPT ![p] =
                                    [status |-> "ok", rows |-> {new}]]
          /\ Goto(p, "activities.Create")
    /\ UNCHANGED <<activities, notifications, req, faults>>

\* Mutant: returns after the first entry.
RecordActivityOnly(p) ==
    /\ pc[p] = "activities.Create"
    /\ activities' =
          [activities EXCEPT ![<<req[p].owner, req[p].id>>] = @ + 1]
    /\ Goto(p, "respond")
    /\ UNCHANGED <<rows, notifications, req, reply, faults>>

\* recordCreation, first half; its failure is ignored (see DbFail).
RecordActivity(p) ==
    /\ pc[p] = "activities.Create"
    /\ activities' =
          [activities EXCEPT ![<<req[p].owner, req[p].id>>] = @ + 1]
    /\ Goto(p, "notifications.Create")
    /\ UNCHANGED <<rows, notifications, req, reply, faults>>

RecordNotification(p) ==
    /\ pc[p] = "notifications.Create"
    /\ notifications' =
          [notifications EXCEPT ![<<req[p].owner, req[p].id>>] = @ + 1]
    /\ Goto(p, "respond")
    /\ UNCHANGED <<rows, activities, req, reply, faults>>

\* The whole of a get; on an update, the check that comes before the write.
GetOwned(p) ==
    /\ pc[p] = "GetOwned"
    /\ \/ Owned(req[p]) = {} /\ Answer(p, "not_found", {})
       \/ /\ Owned(req[p]) # {} /\ req[p].op = "get"
          /\ Answer(p, "ok", Owned(req[p]))
       \/ /\ Owned(req[p]) # {} /\ req[p].op = "update"
          /\ Goto(p, "Update") /\ UNCHANGED reply
    /\ UNCHANGED <<stored, req, faults>>

\* Mutant: answers with the revision it read, not with the one it wrote.
UpdateWithoutReturning(p) ==
    /\ pc[p] = "Update"
    /\ \E x \in Matched(req[p]), v \in NextRev(req[p].owner) :
          /\ rows' = (rows \ {x}) \cup {Revised(x, req[p].content, v)}
          /\ Answer(p, "ok", {Revised(x, req[p].content, x.rev)})
    /\ UNCHANGED <<activities, notifications, req, faults>>

\* UPDATE ... RETURNING rev: the guard is evaluated with the write.
Update(p) ==
    /\ pc[p] = "Update"
    /\ \/ /\ Matched(req[p]) = {}
          /\ Goto(p, "writeMiss")
          /\ UNCHANGED <<rows, reply>>
       \/ \E x \in Matched(req[p]), v \in NextRev(req[p].owner) :
             LET new == Revised(x, req[p].content, v) IN
             /\ rows' = (rows \ {x}) \cup {new}
             /\ Answer(p, "ok", {new})
    /\ UNCHANGED <<activities, notifications, req, faults>>

\* Mutant: a hard delete.
DeleteRow(p) ==
    /\ pc[p] = "Delete"
    /\ rows' = rows \ Matched(req[p])
    /\ Answer(p, "ok", {})
    /\ UNCHANGED <<activities, notifications, req, faults>>

Delete(p) ==
    /\ pc[p] = "Delete"
    /\ \/ /\ Matched(req[p]) = {}
          /\ Goto(p, "writeMiss")
          /\ UNCHANGED <<rows, reply>>
       \/ \E x \in Matched(req[p]), v \in NextRev(req[p].owner) :
             /\ rows' = (rows \ {x}) \cup {Buried(x, v)}
             /\ Answer(p, "ok", {})
    /\ UNCHANGED <<activities, notifications, req, faults>>

\* Mutant: any write that matches nothing is a conflict.
WriteMissIsConflict(p) ==
    /\ pc[p] = "writeMiss"
    /\ Answer(p, "conflict", {})
    /\ UNCHANGED <<stored, req, faults>>

\* A second statement, after the one that matched nothing.
WriteMiss(p) ==
    /\ pc[p] = "writeMiss"
    /\ Answer(p, IF Owned(req[p]) = {} THEN "not_found" ELSE "conflict", {})
    /\ UNCHANGED <<stored, req, faults>>

List(p) ==
    /\ pc[p] = "List"
    /\ Answer(p, "ok", IF req[p].header = None
                       THEN Live(req[p].owner)
                       ELSE Since(req[p].owner, req[p].header))
    /\ UNCHANGED <<stored, req, faults>>

Respond(p) ==
    /\ pc[p] = "respond"
    /\ Goto(p, "idle")
    /\ req' = [req EXCEPT ![p] = NoRequest]
    /\ reply' = [reply EXCEPT ![p] = NoReply]
    /\ UNCHANGED <<stored, faults>>

\* A statement fails (SQLITE_BUSY, I/O) and changes nothing: 500, except
\* that recordCreation swallows the errors of its two inserts.
DbFail(p) ==
    /\ faults < MaxFaults
    /\ faults' = faults + 1
    /\ \/ /\ pc[p] = "activities.Create"
          /\ Goto(p, "notifications.Create") /\ UNCHANGED reply
       \/ /\ pc[p] = "notifications.Create"
          /\ Goto(p, "respond") /\ UNCHANGED reply
       \/ /\ pc[p] \in {"Create", "GetOwned", "Update", "Delete", "writeMiss", "List"}
          /\ Answer(p, "server_error", {})
    /\ UNCHANGED <<stored, req>>

\* The process dies: requests vanish, committed statements stay.
Crash ==
    /\ faults < MaxFaults
    /\ faults' = faults + 1
    /\ pc' = [p \in Requests |-> "idle"]
    /\ req' = [p \in Requests |-> NoRequest]
    /\ reply' = [p \in Requests |-> NoReply]
    /\ UNCHANGED stored

\* The steps of a request that the server takes on its own.
Serve(p) ==
    \/ Create(p) \/ RecordActivity(p) \/ RecordNotification(p)
    \/ GetOwned(p) \/ Update(p) \/ Delete(p) \/ WriteMiss(p)
    \/ List(p) \/ Respond(p)

Next ==
    \/ \E p \in Requests : Receive(p) \/ Serve(p) \/ DbFail(p)
    \/ Crash

\* Goroutines are scheduled: a request under way takes its next step.
Fairness == \A p \in Requests : WF_vars(Serve(p))

Spec == Init /\ [][Next]_vars

FairSpec == Spec /\ Fairness

-----------------------------------------------------------------------------
Calls == {"idle", "Create", "activities.Create", "notifications.Create",
          "GetOwned", "Update", "Delete", "writeMiss", "List", "respond"}

Statuses == {"none", "ok", "bad_request", "not_found", "conflict", "server_error"}

\* The calls a request of each kind may stand at.
Fits(call, r) ==
    /\ call = "idle" <=> r = NoRequest
    /\ call \in {"Create", "activities.Create", "notifications.Create"}
          => r.op = "create" /\ r.content # None
    /\ call = "GetOwned" =>
          r.op \in {"get", "update"} /\ (r.op = "update" => r.content # None)
    /\ call = "Update" => r.op = "update" /\ r.content # None
    /\ call = "Delete" => r.op = "delete"
    /\ call = "List" => r.op = "list"
    /\ call \notin {"idle", "respond"} => r.header # Malformed

\* Rows have the table's columns; a request under way is one a client can
\* send, was accepted, and stands at a call that serves its operation.
TypeOK ==
    /\ rows \subseteq Row
    /\ activities \in [Entries -> Nat]
    /\ notifications \in [Entries -> Nat]
    /\ pc \in [Requests -> Calls]
    /\ req \in [Requests -> ClientRequests \cup {NoRequest}]
    /\ reply \in [Requests -> [status : Statuses, rows : SUBSET Row]]
    /\ faults \in 0..MaxFaults
    /\ \A p \in Requests : Fits(pc[p], req[p])

(***************************************************************************)
(* However the statements of several requests interleave, the id names one *)
(* row, and no two writes of an owner share a revision: nextBookmarkRev is *)
(* evaluated inside the statement that uses it.                            *)
(***************************************************************************)
KeysIdentifyRows ==
    /\ \A x, y \in rows : x.id = y.id => x = y
    /\ \A x, y \in rows :
          x.owner = y.owner /\ x.rev = y.rev /\ x.rev # 0 => x = y

(***************************************************************************)
(* Feed entries are written by separate statements after the insert.  An   *)
(* entry is always about a row that exists and belongs to the entry's      *)
(* owner, and there is at most one of each kind per row, whatever fails,   *)
(* crashes or is retried (recordCreation only follows a won insert).       *)
(***************************************************************************)
FeedsMatchRows ==
    \A e \in Entries :
        /\ activities[e] <= 1 /\ notifications[e] <= 1
        /\ activities[e] + notifications[e] > 0 =>
              \E x \in rows : x.owner = e[1] /\ x.id = e[2]

(***************************************************************************)
(* The table only moves forward: no row leaves it or changes owner, a      *)
(* tombstone is final, and a row that is new or has changed carries a      *)
(* revision above every revision its owner had, so every cursor a client   *)
(* can hold is behind it.                                                  *)
(***************************************************************************)
RowsOnlyAdvance ==
    [][/\ \A x \in rows : \E y \in rows' :
             y.id = x.id /\ y.owner = x.owner /\ (x.deleted => y = x)
       /\ \A y \in rows' \ rows, x \in rows :
             x.owner = y.owner => x.rev < y.rev]_vars

(***************************************************************************)
(* Unless something fails, a created row gets its activity and its         *)
(* notification: "Creating a bookmark also records an entry in the         *)
(* activity feed and a notification".  Checked where no row predates the   *)
(* feeds.                                                                  *)
(***************************************************************************)
CreationRecorded ==
    \A e \in Entries :
        (\E x \in rows : x.owner = e[1] /\ x.id = e[2])
            ~> (activities[e] = 1 /\ notifications[e] = 1) \/ faults > 0

(***************************************************************************)
(* What request.go says of the header: absent means "no expectation" and   *)
(* the write proceeds unconditionally, so it cannot be refused as a        *)
(* conflict.                                                               *)
(***************************************************************************)
NoConflictWithoutExpectation ==
    \A p \in Requests :
        req[p].op \in {"update", "delete"} /\ req[p].header = None
            => reply[p].status # "conflict"

(***************************************************************************)
(* What domain/bookmark.go says of a revision: an update echoes the rev it *)
(* was based on; a mismatch is a conflict.  An update that echoed a        *)
(* revision only ever overwrites the row as it was at that revision.       *)
(***************************************************************************)
MismatchIsConflict ==
    [][\A p \in Requests :
          /\ pc[p] = "Update" /\ rows' # rows /\ reply'[p].status = "ok"
          /\ req[p].header \in 0..MaxRev
          => \E x \in rows : x.id = req[p].id /\ x.rev = req[p].header]_vars
=============================================================================
