------------------------------ MODULE ChangeFeed ------------------------------
(***************************************************************************)
(* What one synchronised table (bookmarks, or collections) promises its    *)
(* clients, seen through the versions it has ever committed.               *)
(*                                                                         *)
(* A version is the content a row had when a write committed, together     *)
(* with the revision that write was given.  The database keeps only the    *)
(* newest version of each row; the promise to offline-first clients is     *)
(* about all of them: whatever revision a client last saw, the rows with a *)
(* greater revision bring its copy up to date.                             *)
(*                                                                         *)
(* This is the abstract specification; SyncedHistory shows that the        *)
(* request handlers implement it.                                          *)
(***************************************************************************)
EXTENDS Naturals

CONSTANTS
    Owners,     \* the accounts; every row belongs to one
    Ids,        \* primary keys, shared by all owners
    Contents,   \* everything a client writes into a row
    MaxRev,     \* bound on revisions
    Legacy      \* rows that predate revisions: ALTER TABLE gave them rev 0

Version == [id : Ids, owner : Owners, content : Contents,
            rev : 0..MaxRev, deleted : BOOLEAN]

ASSUME MaxRevAssumption == MaxRev \in Nat

ASSUME LegacyAssumption ==
    /\ Legacy \subseteq Version
    /\ \A x \in Legacy : x.rev = 0 /\ ~x.deleted
    /\ \A x, y \in Legacy : x.id = y.id => x = y

VARIABLE history    \* every version ever committed

vars == history

-----------------------------------------------------------------------------
\* The database keeps, of each id, the version with the greatest revision.
Newest(x) == \A y \in history : y.id = x.id => y.rev <= x.rev

Table == {x \in history : Newest(x)}

\* Mutant: MAX(rev) over the live rows only.
NextRevOfLive(o) ==
    {r \in 1..MaxRev :
        /\ \A x \in Table : x.owner = o /\ ~x.deleted => x.rev < r
        /\ r = 1 \/ \E x \in Table : x.owner = o /\ ~x.deleted /\ x.rev = r - 1}

\* COALESCE(MAX(rev), 0) + 1 over the owner's rows: one above all, and no gap.
NextRev(o) ==
    {r \in 1..MaxRev :
        /\ \A x \in history : x.owner = o => x.rev < r
        /\ r = 1 \/ \E x \in history : x.owner = o /\ x.rev = r - 1}

Init == history = Legacy

\* Mutant: only live rows keep their id.
CreateOverBuried(i, o, c) ==
    /\ \A x \in Table : x.id # i \/ x.deleted
    /\ \E r \in NextRev(o) :
          history' = history \cup
            {[id |-> i, owner |-> o, content |-> c, rev |-> r, deleted |-> FALSE]}

\* The primary key is global: an id used by any owner, live or not, is taken.
Create(i, o, c) ==
    /\ \A x \in history : x.id # i
    /\ \E r \in NextRev(o) :
          history' = history \cup
            {[id |-> i, owner |-> o, content |-> c, rev |-> r, deleted |-> FALSE]}

Revised(x, c, r) == [x EXCEPT !.content = c, !.rev = r]
\* Mutant: the revision is advanced a second time.
BuriedTwice(x, r) == [x EXCEPT !.rev = r + 1, !.deleted = TRUE]

Buried(x, r) == [x EXCEPT !.rev = r, !.deleted = TRUE]

Revise(x, c) ==
    /\ ~x.deleted
    /\ \E r \in NextRev(x.owner) :
          history' = history \cup {Revised(x, c, r)}

\* Deletion is soft: a tombstone with a revision of its own.
Bury(x) ==
    /\ ~x.deleted
    /\ \E r \in NextRev(x.owner) :
          history' = history \cup {Buried(x, r)}

Next ==
    \/ \E i \in Ids, o \in Owners, c \in Contents : Create(i, o, c)
    \/ \E x \in Table, c \in Contents : Revise(x, c)
    \/ \E x \in Table : Bury(x)

Spec == Init /\ [][Next]_vars

-----------------------------------------------------------------------------
\* Mutant: without tombstones.
DeltaOfLive(o, since) == {x \in Table : x.owner = o /\ x.rev > since /\ ~x.deleted}

\* Answer to ?since: rows changed after the cursor, tombstones included.
Delta(o, since) == {x \in Table : x.owner = o /\ x.rev > since}

\* Answer without a cursor: the live rows.
Live(o) == {x \in Table : x.owner = o /\ ~x.deleted}

\* The live rows as they stood when the owner's revision was c.
View(o, c) ==
    {x \in history :
        /\ x.owner = o
        /\ x.rev <= c
        /\ \A y \in history : y.id = x.id /\ y.rev <= c => y.rev <= x.rev
        /\ ~x.deleted}

\* What a client does with a delta: replace what it names, drop tombstones.
Patch(copy, delta) ==
    {x \in copy : \A y \in delta : y.id # x.id} \cup {y \in delta : ~y.deleted}

-----------------------------------------------------------------------------
\* The versions have the shape of the table's columns.
TypeOK == history \subseteq Version

(***************************************************************************)
(* Clients use the revision as a cursor and as a version number: two       *)
(* writes of one owner never get the same one, an id never changes hands,  *)
(* nothing follows a tombstone, and each row has a newest version.         *)
(***************************************************************************)
RevisionsIdentifyVersions ==
    /\ \A x, y \in history : x.owner = y.owner /\ x.rev = y.rev /\ x.rev # 0
                                => x = y
    /\ \A x, y \in history : x.id = y.id => x.owner = y.owner
    /\ \A x, y \in history : x.id = y.id /\ x.rev = y.rev => x = y
    /\ \A x, y \in history : x.id = y.id /\ x.deleted => y.rev <= x.rev
    /\ \A x \in history : \E y \in Table : y.id = x.id

(***************************************************************************)
(* A delta pull is complete: a client holding the live rows as of any      *)
(* revision c and applying the rows with a greater revision, tombstones    *)
(* included, then holds exactly the live rows: nothing missed, nothing     *)
(* resurrected (ListByOwnerSince against ListByOwner).                     *)
(***************************************************************************)
DeltaComplete ==
    \A o \in Owners, c \in 0..MaxRev :
        Patch(View(o, c), Delta(o, c)) = Live(o)
=============================================================================
