----------------------------- MODULE Collections -----------------------------
(***************************************************************************)
(* The collection endpoints and the inbox that reads what creations wrote. *)
(*                                                                         *)
(* Collections run the statements of SyncedTable on a table of their own:  *)
(* C is that module with the table `collections' and with normalised       *)
(* membership lists for contents.  Beside them, requests list the          *)
(* notifications and the activity feed and mark notifications read, each   *)
(* one statement, while creations are still writing to both.  A creation   *)
(* writes at most one notification, so the owner and the id of the row     *)
(* name it.                                                                *)
(***************************************************************************)
EXTENDS Naturals, Sequences, FiniteSets, SequencesExt


CONSTANTS
    Owners, Ids, Requests, Ops, Legacy, MaxRev, MaxFaults, None, Malformed,
                \* as in SyncedTable
    RawLists,   \* membership lists as clients send them
    Readers     \* slots for requests to the inbox

VARIABLES
    collections,    \* the table
    activities, notifications, pc, req, reply, faults,  \* as in SyncedTable
    read,           \* notifications with is_read
    mail,           \* the requests to the inbox
    asked,          \* notifications whose owner asked to mark them
    acked           \* those of which it was told that they are marked

-----------------------------------------------------------------------------
\* Mutant: duplicates are looked for before trimming.
NormalizeUntrimmed(raw) ==
    LET AddRaw(out, m) ==
            IF m.id = None \/ Contains(out, m) THEN out ELSE Append(out, m)
        kept == FoldLeft(AddRaw, <<>>, raw)
    IN  [i \in DOMAIN kept |-> kept[i].id]

\* The body of normalizeTags' loop.
Add(out, x) ==
    IF x = None \/ Contains(out, x) THEN out ELSE Append(out, x)

\* normalizeTags.  An element of a list is what it trims to, None if that is
\* nothing, and whether there was anything to trim.
Normalize(raw) ==
    LET out[n \in 0..Len(raw)] ==      \* after n turns of the loop
            IF n = 0 THEN <<>> ELSE Add(out[n - 1], raw[n].id)
    IN  out[Len(raw)]

Contents == {Normalize(raw) : raw \in RawLists}

C == INSTANCE SyncedTable WITH rows <- collections

\* Lists are finite.
ASSUME ListsAssumption ==
    \A raw \in RawLists : Len(raw) \in Nat /\ DOMAIN raw = 1..Len(raw)

\* What SyncedTable assumes of its constants; an entry is never None.
ASSUME CollectionsAssumption ==
    /\ MaxRev \in Nat /\ MaxFaults \in Nat
    /\ Ops \subseteq C!Writes \cup {"get", "list"}
    /\ None \notin 0..MaxRev /\ Malformed \notin 0..MaxRev /\ None # Malformed
    /\ None \notin Contents /\ None \notin C!Entries
    /\ Legacy \subseteq C!Row
    /\ \A x \in Legacy : x.rev = 0 /\ ~x.deleted
    /\ \A x, y \in Legacy : x.id = y.id => x = y

inbox == <<read, mail, asked, acked>>
stored == <<collections, activities, notifications>>
table == <<stored, pc, req, reply, faults>>
cvars == <<table, inbox>>

NoMail == [op |-> "none", owner |-> None, about |-> None, shown |-> {},
           status |-> "none"]

\* The notifications there are.
Notified == {e \in C!Entries : notifications[e] > 0}

\* Mutant: without AND owner_id = ?
MarkedByAnyone(m) == {mail[m].about} \cap Notified

\* UPDATE ... WHERE id = ? AND owner_id = ?; it may match nothing.
Marked(m) ==
    {e \in Notified : e = mail[m].about /\ e[1] = mail[m].owner}

AnswerMail(m, status, shown) ==
    mail' = [mail EXCEPT ![m].status = status, ![m].shown = shown]

-----------------------------------------------------------------------------
Init ==
    /\ C!Init
    /\ read = {} /\ asked = {} /\ acked = {}
    /\ mail = [m \in Readers |-> NoMail]

ReceiveCollection(p) == C!Receive(p) /\ UNCHANGED inbox
CreateCollection(p) == C!Create(p) /\ UNCHANGED inbox

\* Mutant: recordCreation returns after the first entry.
RecordOnlyActivity(p) == C!RecordActivityOnly(p) /\ UNCHANGED inbox

RecordActivity(p) == C!RecordActivity(p) /\ UNCHANGED inbox

RecordNotification(p) == C!RecordNotification(p) /\ UNCHANGED inbox
GetOwnedCollection(p) == C!GetOwned(p) /\ UNCHANGED inbox
UpdateCollection(p) == C!Update(p) /\ UNCHANGED inbox
DeleteCollection(p) == C!Delete(p) /\ UNCHANGED inbox
WriteMiss(p) == C!WriteMiss(p) /\ UNCHANGED inbox
ListCollections(p) == C!List(p) /\ UNCHANGED inbox
RespondCollection(p) == C!Respond(p) /\ UNCHANGED inbox
FailCollection(p) == C!DbFail(p) /\ UNCHANGED inbox

ServeCollection(p) ==
    \/ CreateCollection(p) \/ RecordActivity(p) \/ RecordNotification(p)
    \/ GetOwnedCollection(p) \/ UpdateCollection(p) \/ DeleteCollection(p)
    \/ WriteMiss(p) \/ ListCollections(p) \/ RespondCollection(p)

\* A request to the inbox.  Whoever marks a notification was shown its id, or
\* sends one that names nothing of its own.
ReceiveMail(m) ==
    /\ mail[m] = NoMail
    /\ \E op \in {"list", "activity", "mark"}, o \in Owners,
          about \in Notified \cup {None} :
          /\ op # "mark" => about = None
          /\ mail' = [mail EXCEPT ![m] =
                        [op |-> op, owner |-> o, about |-> about,
                         shown |-> {}, status |-> "none"]]
          /\ asked' = asked \cup {e \in Notified : e = about /\ e[1] = o}
    /\ UNCHANGED <<table, read, acked>>

Asks(m, op) == mail[m].op = op /\ mail[m].status = "none"

ListNotifications(m) ==
    /\ Asks(m, "list")
    /\ AnswerMail(m, "ok", {[entry |-> e, read |-> e \in read] :
                                e \in {n \in Notified : n[1] = mail[m].owner}})
    /\ UNCHANGED <<table, read, asked, acked>>

ListActivity(m) ==
    /\ Asks(m, "activity")
    /\ AnswerMail(m, "ok", {e \in C!Entries : e[1] = mail[m].owner /\ activities[e] > 0})
    /\ UNCHANGED <<table, read, asked, acked>>

\* Mutant: the mark is toggled.
ToggleRead(m) ==
    /\ Asks(m, "mark")
    /\ read' = (read \ Marked(m)) \cup (Marked(m) \ read)
    /\ AnswerMail(m, "ok", {})
    /\ UNCHANGED <<table, asked, acked>>

\* Nothing tells the client whether a row matched.
MarkRead(m) ==
    /\ Asks(m, "mark")
    /\ read' = read \cup Marked(m)
    /\ AnswerMail(m, "ok", {})
    /\ UNCHANGED <<table, asked, acked>>

\* Mutant: the error of the statement is dropped, as Revoke does.
FailMailSilently(m) ==
    /\ faults < MaxFaults
    /\ faults' = faults + 1
    /\ mail[m] # NoMail /\ mail[m].status = "none"
    /\ AnswerMail(m, "ok", {})
    /\ UNCHANGED <<stored, pc, req, reply, read, asked, acked>>

\* The statement fails and changes nothing: 500.
FailMail(m) ==
    /\ faults < MaxFaults
    /\ faults' = faults + 1
    /\ mail[m] # NoMail /\ mail[m].status = "none"
    /\ AnswerMail(m, "server_error", {})
    /\ UNCHANGED <<stored, pc, req, reply, read, asked, acked>>

RespondMail(m) ==
    /\ mail[m].status # "none"
    /\ mail' = [mail EXCEPT ![m] = NoMail]
    /\ acked' = acked \cup
          {e \in Notified : e = mail[m].about /\ e[1] = mail[m].owner
                            /\ mail[m].status = "ok"}
    /\ UNCHANGED <<table, read, asked>>

\* The process dies with all requests.
Crash ==
    /\ C!Crash
    /\ mail' = [m \in Readers |-> NoMail]
    /\ UNCHANGED <<read, asked, acked>>

Next ==
    \/ \E p \in Requests :
          ReceiveCollection(p) \/ ServeCollection(p) \/ FailCollection(p)
    \/ \E m \in Readers :
          \/ ReceiveMail(m) \/ ListNotifications(m) \/ ListActivity(m)
          \/ MarkRead(m) \/ FailMail(m) \/ RespondMail(m)
    \/ Crash

\* Goroutines are scheduled: a request under way takes its next step.
Fairness == \A p \in Requests : WF_cvars(ServeCollection(p))

Spec == Init /\ [][Next]_cvars

FairSpec == Spec /\ Fairness

-----------------------------------------------------------------------------
\* Where a list has a name first.
First(raw, x) ==
    CHOOSE i \in DOMAIN raw :
        raw[i].id = x /\ \A j \in 1..(i - 1) : raw[j].id # x

\* The names in a list that trim to something, each once, in the order in which
\* they first occurred.
IsNormalFormOf(out, raw) ==
    /\ {out[i] : i \in DOMAIN out} = {raw[i].id : i \in DOMAIN raw} \ {None}
    /\ \A i, j \in DOMAIN out :
          i < j => First(raw, out[i]) < First(raw, out[j])

(***************************************************************************)
(* Whatever lists clients send, the table holds normalised ones, so that   *)
(* a bookmark is a member of a collection once or not at all.              *)
(***************************************************************************)
MembershipsNormalized ==
    \A x \in collections : \E raw \in RawLists : IsNormalFormOf(x.content, raw)

(***************************************************************************)
(* The inbox follows its owner: a notification of which the owner was told *)
(* that it is marked read is, and one that is read was asked for by its    *)
(* owner, whatever other accounts sent, failed, or was in flight when the  *)
(* process died.                                                           *)
(***************************************************************************)
InboxFollowsOwner == acked \subseteq read /\ read \subseteq asked

(***************************************************************************)
(* What a list shows as read stays read, however old the answer is.        *)
(***************************************************************************)
ShownReadIsRead ==
    \A m \in Readers : mail[m].op = "list" =>
        \A n \in mail[m].shown : n.read => n.entry \in read

(***************************************************************************)
(* When the answer to a creation is on its way, its activity and its       *)
(* notification can already be listed, unless something failed:            *)
(* recordCreation runs before the answer, not after it.                    *)
(***************************************************************************)
AnsweredIsRecorded ==
    \A p \in Requests :
        /\ pc[p] = "respond" /\ req[p].op = "create" /\ reply[p].status = "ok"
        /\ faults = 0
        => LET e == <<req[p].owner, req[p].id>>
           IN  activities[e] = 1 /\ notifications[e] = 1

(***************************************************************************)
(* Unless something fails, every created row gets its two entries:         *)
(* "Creating a collection also records an entry in the activity feed and a *)
(* notification for the owner".  Checked where no row predates the feeds.  *)
(***************************************************************************)
CreationRecorded == C!CreationRecorded
=============================================================================
