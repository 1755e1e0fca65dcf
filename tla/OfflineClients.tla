--------------------------- MODULE OfflineClients ---------------------------
(***************************************************************************)
(* Offline-first devices that keep a copy of an account's rows over a      *)
(* network that loses, delays, repeats and reorders what it carries.  The  *)
(* server is ChangeFeed: each request takes effect at one instant.  The    *)
(* devices are not part of the repository; they do what the comments on    *)
(* Bookmark.Rev, on the sync header and cursor and on client-minted ids    *)
(* say that a client does, with one exception, the last of these:          *)
(*                                                                         *)
(*    - it sends an edit with an id it minted, or with the revision the    *)
(*      edit was based on, and sends it again while no answer comes;       *)
(*    - it starts from the full list: rows from before the revisions have  *)
(*      revision 0, and no cursor brings them;                             *)
(*    - it then pulls the rows after its cursor and takes them over in     *)
(*      the order in which they come, or stops half-way, and its cursor    *)
(*      is the revision of the last row it took;                           *)
(*    - it takes a row from any other answer if it is newer than the       *)
(*      cursor, and leaves the cursor where it is.                         *)
(*                                                                         *)
(* The comments do not say to leave it there.  By them the cursor is the   *)
(* highest revision the client has already seen, and the answer to a write *)
(* shows it one.  A device that takes them at their word is SeenSpec: it   *)
(* loses rows.  DSpec is what a client has to do instead.                  *)
(*                                                                         *)
(* An edit once sent may be delivered at any later time, any number of     *)
(* times; whether its answer arrives makes no difference to the server.    *)
(***************************************************************************)
EXTENDS ChangeFeed, FiniteSets

CONSTANTS
    Devices,
    Account(_),     \* whose rows a device keeps
    MaxEdits,       \* bound on edits sent
    MaxPulls,       \* bound on answers to pulls under way
    None            \* no cursor yet; the content of a deletion

ASSUME DeviceAssumption ==
    /\ \A d \in Devices : Account(d) \in Owners
    /\ MaxEdits \in Nat /\ MaxPulls \in Nat
    /\ None \notin Contents /\ None \notin 0..MaxRev

VARIABLES
    copy,       \* the rows a device holds
    cursor,     \* the revision it pulls from
    pulls,      \* answers to pulls on their way
    sent,       \* edits the network may deliver
    applied     \* edits that took effect, with the revision they were given

dvars == <<vars, copy, cursor, pulls, sent, applied>>
device == <<copy, cursor>>

-----------------------------------------------------------------------------
\* Mutant: the guard of the UPDATE is left out.
MatchesAny(e, x) == x.id = e.id /\ x.owner = Account(e.device)

\* The row that an edit of revision e.base applies to; 0 is no expectation.
Matches(e, x) ==
    x.id = e.id /\ x.owner = Account(e.device) /\ e.base \in {0, x.rev}

\* Mutant: no ORDER BY.
TakenInAnyOrder(rows) == SUBSET rows

\* ORDER BY rev ASC: the rows a device may have taken over when it stops.
Taken(rows) == {{x \in rows : x.rev <= k} : k \in 0..MaxRev}

\* The revision of the last of them, or the cursor there was.
Last(since, rows) ==
    CHOOSE c \in {IF since = None THEN 0 ELSE since} \cup {x.rev : x \in rows} :
        \A x \in rows : x.rev <= c

DInit ==
    /\ Init
    /\ copy = [d \in Devices |-> {}]
    /\ cursor = [d \in Devices |-> None]
    /\ pulls = {} /\ sent = {} /\ applied = {}

\* Writes of clients that keep no copy.
Others == Next /\ UNCHANGED <<device, pulls, sent, applied>>

\* A device makes an edit and sends it.
Submit(d) ==
    /\ Cardinality(sent) < MaxEdits
    /\ \/ \E i \in Ids, c \in Contents :
             /\ \A x \in history \cup sent : x.id # i
             /\ sent' = sent \cup {[device |-> d, op |-> "create", id |-> i,
                                    content |-> c, base |-> 0]}
       \/ \E x \in copy[d], c \in Contents :
             sent' = sent \cup {[device |-> d, op |-> "update", id |-> x.id,
                                 content |-> c, base |-> x.rev]}
       \/ \E x \in copy[d] :
             sent' = sent \cup {[device |-> d, op |-> "delete", id |-> x.id,
                                 content |-> None, base |-> x.rev]}
    /\ UNCHANGED <<vars, device, pulls, applied>>

\* The server receives an edit, for the first time or once more; one that it
\* refuses changes nothing.
Deliver(e) ==
    /\ \/ e.op = "create" /\ Create(e.id, Account(e.device), e.content)
       \/ e.op = "update" /\ \E x \in Table : Matches(e, x) /\ Revise(x, e.content)
       \/ e.op = "delete" /\ \E x \in Table : Matches(e, x) /\ Bury(x)
    /\ applied' = applied \cup
          {[edit |-> e, rev |-> x.rev] : x \in history' \ history}
    /\ UNCHANGED <<device, pulls, sent>>

\* The server answers a pull: the list to a device without a cursor, or the
\* rows after the cursor.
AnswerPull(d) ==
    /\ Cardinality(pulls) < MaxPulls
    /\ pulls' = pulls \cup
          {[device |-> d, since |-> cursor[d],
            rows |-> IF cursor[d] = None THEN Live(Account(d))
                     ELSE Delta(Account(d), cursor[d])]}
    /\ UNCHANGED <<vars, device, sent, applied>>

\* An answer arrives.  The device drops it if its cursor has moved meanwhile;
\* the list is in no order and taken as a whole.
Receive(m) ==
    /\ pulls' = pulls \ {m}
    /\ IF m.since # cursor[m.device]
       THEN UNCHANGED device
       ELSE \E rows \in IF m.since = None THEN {m.rows} ELSE Taken(m.rows) :
              /\ copy' = [copy EXCEPT ![m.device] = Patch(@, rows)]
              /\ cursor' = [cursor EXCEPT ![m.device] = Last(m.since, rows)]
    /\ UNCHANGED <<vars, sent, applied>>

\* The answer to a write or a get brings a row, however old it is by now.
Learn(d) ==
    /\ \E x \in history :
          /\ x.owner = Account(d) /\ cursor[d] # None /\ x.rev > cursor[d]
          /\ copy' = [copy EXCEPT ![d] = Patch(@, {x})]
    /\ UNCHANGED <<vars, cursor, pulls, sent, applied>>

\* The same by "the highest revision they have already seen": the answer to a
\* create or update of the device's own moves its cursor too.
LearnAndMoveOn(d) ==
    /\ \E a \in applied, x \in history :
          /\ a.edit.device = d /\ a.edit.id = x.id /\ a.rev = x.rev /\ ~x.deleted
          /\ cursor[d] # None /\ x.rev > cursor[d]
          /\ copy' = [copy EXCEPT ![d] = Patch(@, {x})]
          /\ cursor' = [cursor EXCEPT ![d] = x.rev]
    /\ UNCHANGED <<vars, pulls, sent, applied>>

\* The device loses what it held; answers to it may still be under way.
Reinstall(d) ==
    /\ copy' = [copy EXCEPT ![d] = {}]
    /\ cursor' = [cursor EXCEPT ![d] = None]
    /\ UNCHANGED <<vars, pulls, sent, applied>>

DNext ==
    \/ Others
    \/ \E d \in Devices : Submit(d) \/ AnswerPull(d) \/ Learn(d) \/ Reinstall(d)
    \/ \E e \in sent : Deliver(e)
    \/ \E m \in pulls : Receive(m)

DSpec == DInit /\ [][DNext]_dvars

\* A device whose cursor is the highest revision it has seen in any answer.
SeenNext ==
    \/ Others
    \/ \E d \in Devices :
          Submit(d) \/ AnswerPull(d) \/ LearnAndMoveOn(d) \/ Reinstall(d)
    \/ \E e \in sent : Deliver(e)
    \/ \E m \in pulls : Receive(m)

SeenSpec == DInit /\ [][SeenNext]_dvars

-----------------------------------------------------------------------------
(***************************************************************************)
(* A device is never more than one pull behind: whatever answers were      *)
(* lost, late, or taken over only in part, and whatever rows it learnt     *)
(* from other answers, applying the rows after its cursor to its copy      *)
(* gives exactly the live rows.  This is what makes it safe to stop        *)
(* anywhere in a delta that is ordered by revision.  It holds of devices   *)
(* whose cursor only pulls move (DSpec), not of SeenSpec.                  *)
(***************************************************************************)
OnePullBehind ==
    \A d \in Devices : cursor[d] # None =>
        Patch(copy[d], Delta(Account(d), cursor[d])) = Live(Account(d))

(***************************************************************************)
(* What the comment on the since parameter says: a client that passes the  *)
(* highest revision it has already seen fetches the rows it lacks.  A live *)
(* row is on the device or above its cursor.  SeenSpec violates it: the    *)
(* answer to a write is above rows that others wrote and the device has    *)
(* not pulled, and no later pull brings them unless they change again.     *)
(***************************************************************************)
PassedRowsAreHeld ==
    \A d \in Devices : cursor[d] # None =>
        \A x \in Live(Account(d)) : x \in copy[d] \/ x.rev > cursor[d]

(***************************************************************************)
(* An edit with a minted id or a revision takes effect at most once,       *)
(* however often the network delivers it and however late: a repeated      *)
(* create finds its id taken, even by the tombstone of a row deleted       *)
(* since; a repeated update finds another revision.                        *)
(***************************************************************************)
AppliedOnce ==
    \A a, b \in applied :
        /\ a.edit = b.edit
        /\ a.edit.op = "create" \/ a.edit.base > 0
        => a = b

(***************************************************************************)
(* An edit with a revision takes effect only on what its author saw: no    *)
(* version lies between the one it was based on and the one it made.       *)
(***************************************************************************)
AppliedToWhatWasSeen ==
    \A a \in applied : a.edit.base > 0 =>
        \A y \in history :
            y.id = a.edit.id => y.rev <= a.edit.base \/ y.rev >= a.rev
=============================================================================
