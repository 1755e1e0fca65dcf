-------------------------- MODULE ChangeFeed_proofs --------------------------
(***************************************************************************)
(* Proofs about ChangeFeed: what clients are promised holds for any set of *)
(* owners, ids and contents, any legacy rows and any bound on revisions.   *)
(***************************************************************************)
EXTENDS ChangeFeed, WellFoundedInduction, TLAPS

USE MaxRevAssumption

-----------------------------------------------------------------------------
\* Every change adds one version: of a new id, or after the newest one of an
\* id that is not deleted; and its revision tops those of its owner.
Added(new) ==
    /\ new \in Version
    /\ new.rev # 0
    /\ \A x \in history : x.owner = new.owner => x.rev < new.rev
    /\ \/ \A x \in history : x.id # new.id
       \/ \E x \in Table : x.id = new.id /\ x.owner = new.owner /\ ~x.deleted
    /\ history' = history \cup {new}

LEMMA NextRevTops ==
    ASSUME NEW o, NEW r \in NextRev(o)
    PROVE  /\ r \in 0..MaxRev /\ r # 0
           /\ \A x \in history : x.owner = o => x.rev < r
  BY DEF NextRev

LEMMA RevisedVersion ==
    ASSUME NEW x \in Version, NEW c \in Contents, NEW r \in 0..MaxRev
    PROVE  /\ Revised(x, c, r) \in Version
           /\ Revised(x, c, r).id = x.id
           /\ Revised(x, c, r).owner = x.owner
           /\ Revised(x, c, r).rev = r
  BY Zenon DEF Version, Revised

LEMMA BuriedVersion ==
    ASSUME NEW x \in Version, NEW r \in 0..MaxRev
    PROVE  /\ Buried(x, r) \in Version
           /\ Buried(x, r).id = x.id
           /\ Buried(x, r).owner = x.owner
           /\ Buried(x, r).rev = r
  BY Zenon DEF Version, Buried

LEMMA CreateAdds ==
    ASSUME NEW i \in Ids, NEW o \in Owners, NEW c \in Contents, Create(i, o, c)
    PROVE  \E new \in Version : Added(new) /\ new.id = i
<1>1. PICK r \in NextRev(o) : history' = history \cup
          {[id |-> i, owner |-> o, content |-> c, rev |-> r, deleted |-> FALSE]}
  BY DEF Create
<1> DEFINE new == [id |-> i, owner |-> o, content |-> c, rev |-> r,
                   deleted |-> FALSE]
<1>2. new \in Version
  BY NextRevTops DEF Version
<1>3. Added(new)
  BY <1>1, <1>2, NextRevTops DEF Create, Added
<1>. QED
  BY <1>2, <1>3

LEMMA ReviseAdds ==
    ASSUME TypeOK, NEW x \in Table, NEW c \in Contents, Revise(x, c)
    PROVE  \E new \in Version : Added(new) /\ new.id = x.id
<1>1. PICK r \in NextRev(x.owner) :
          history' = history \cup {Revised(x, c, r)}
  BY DEF Revise
<1>2. x \in Version /\ ~x.deleted
  BY DEF Revise, Table, TypeOK
<1> DEFINE new == Revised(x, c, r)
<1>3. /\ new \in Version /\ new.id = x.id /\ new.owner = x.owner
      /\ new.rev = r
  BY <1>2, NextRevTops, RevisedVersion
<1>4. Added(new)
  BY <1>1, <1>2, <1>3, NextRevTops DEF Added
<1>. QED
  BY <1>3, <1>4

LEMMA BuryAdds ==
    ASSUME TypeOK, NEW x \in Table, Bury(x)
    PROVE  \E new \in Version : Added(new) /\ new.id = x.id
<1>1. PICK r \in NextRev(x.owner) :
          history' = history \cup {Buried(x, r)}
  BY DEF Bury
<1>2. x \in Version /\ ~x.deleted
  BY DEF Bury, Table, TypeOK
<1> DEFINE new == Buried(x, r)
<1>3. /\ new \in Version /\ new.id = x.id /\ new.owner = x.owner
      /\ new.rev = r
  BY <1>2, NextRevTops, BuriedVersion
<1>4. Added(new)
  BY <1>1, <1>2, <1>3, NextRevTops DEF Added
<1>. QED
  BY <1>3, <1>4

LEMMA StepsAdd ==
    ASSUME TypeOK, [Next]_vars
    PROVE  history' = history \/ \E new \in Version : Added(new)
  BY CreateAdds, ReviseAdds, BuryAdds DEF Next, vars

-----------------------------------------------------------------------------
\* Versions have the table's columns in every reachable state.
THEOREM TypeCorrect == Spec => []TypeOK
<1>1. Init => TypeOK
  BY LegacyAssumption DEF Init, TypeOK
<1>2. TypeOK /\ [Next]_vars => TypeOK'
  BY StepsAdd DEF TypeOK, Added
<1>. QED
  BY <1>1, <1>2, PTL DEF Spec

LEMMA RevisionsStep ==
    ASSUME TypeOK, RevisionsIdentifyVersions, [Next]_vars
    PROVE  RevisionsIdentifyVersions'
<1>0. \A x \in history : x.rev \in 0..MaxRev
  BY DEF TypeOK, Version
<1>1. CASE history' = history
  BY <1>1 DEF RevisionsIdentifyVersions, Table, Newest
<1>2. ASSUME NEW new \in Version, Added(new) PROVE RevisionsIdentifyVersions'
  <2>1. /\ new.rev \in 1..MaxRev
        /\ history' = history \cup {new}
        /\ \A x \in history : x.owner = new.owner => x.rev < new.rev
    BY <1>2 DEF Added, Version
  <2>2. \A x \in history : x.id = new.id => x.owner = new.owner
    BY <1>2 DEF Added, RevisionsIdentifyVersions, Table
  <2>3. \A x \in history : x.id = new.id => ~x.deleted
    <3>1. CASE \A x \in history : x.id # new.id
      BY <3>1
    <3>2. ASSUME NEW y \in Table, y.id = new.id, ~y.deleted,
                 NEW x \in history, x.id = new.id, x.deleted
          PROVE  FALSE
      <4>1. y.rev <= x.rev /\ x.rev <= y.rev
        BY <3>2 DEF RevisionsIdentifyVersions, Table, Newest
      <4>2. y \in history /\ y.rev = x.rev
        BY <1>0, <4>1 DEF Table
      <4>. QED
        BY <3>2, <4>2 DEF RevisionsIdentifyVersions
    <3>. QED
      BY <1>2, <3>1, <3>2 DEF Added
  <2>4. \A x, y \in history' : x.owner = y.owner /\ x.rev = y.rev /\ x.rev # 0
            => x = y
    BY <1>0, <2>1 DEF RevisionsIdentifyVersions
  <2>5. \A x, y \in history' : x.id = y.id => x.owner = y.owner
    BY <2>1, <2>2 DEF RevisionsIdentifyVersions
  <2>6. \A x, y \in history' : x.id = y.id /\ x.rev = y.rev => x = y
    BY <1>0, <2>1, <2>2 DEF RevisionsIdentifyVersions
  <2>7. \A x, y \in history' : x.id = y.id /\ x.deleted => y.rev <= x.rev
    BY <1>0, <2>1, <2>2, <2>3 DEF RevisionsIdentifyVersions
  <2>8. \A x \in history' : \E y \in Table' : y.id = x.id
    <3>1. new \in Table'
      BY <1>0, <2>1, <2>2 DEF Table, Newest
    <3>2. \A y \in Table : y.id # new.id => y \in Table'
      BY <2>1 DEF Table, Newest
    <3>. QED
      BY <2>1, <3>1, <3>2 DEF RevisionsIdentifyVersions
  <2>. QED
    BY <2>4, <2>5, <2>6, <2>7, <2>8 DEF RevisionsIdentifyVersions
<1>. QED
  BY <1>1, <1>2, StepsAdd

(***************************************************************************)
(* A revision identifies a version of its owner, ids never change hands,   *)
(* and nothing follows a tombstone.                                        *)
(***************************************************************************)
THEOREM RevisionsCorrect == Spec => []RevisionsIdentifyVersions
<1>1. Init => RevisionsIdentifyVersions
  BY LegacyAssumption DEF Init, RevisionsIdentifyVersions, Table, Newest
<1>2. TypeOK /\ RevisionsIdentifyVersions /\ [Next]_vars
        => RevisionsIdentifyVersions'
  BY RevisionsStep
<1>. QED
  BY <1>1, <1>2, TypeCorrect, PTL DEF Spec

-----------------------------------------------------------------------------
\* A bounded set of revisions has a greatest one.
LEMMA BoundedSetHasMax ==
    ASSUME NEW N \in Nat, NEW S \in SUBSET (0..N), S # {}
    PROVE  \E m \in S : \A s \in S : s <= m
<1> DEFINE T == {t \in 0..N : N - t \in S}
<1>1. T \subseteq Nat /\ T # {}
  <2>1. PICK s \in S : s \in 0..N
    OBVIOUS
  <2>2. N - s \in 0..N /\ N - (N - s) = s
    BY <2>1
  <2>3. N - s \in T
    BY <2>1, <2>2
  <2>4. T \subseteq Nat
    OBVIOUS
  <2> HIDE DEF T
  <2>. QED
    BY <2>3, <2>4
<1> HIDE DEF T
<1> DEFINE R == OpToRel(<, Nat)
<1>2. IsWellFoundedOn(R, Nat)
  BY NatLessThanWellFounded
<1>3. \A x, y \in T : y < x => <<y, x>> \in R
  BY <1>1 DEF OpToRel
<1> HIDE DEF R
<1>4. PICK x \in T : \A y \in T : ~(<<y, x>> \in R)
  BY <1>1, <1>2, WFMin
<1>5. \A y \in T : ~(y < x)
  BY <1>3, <1>4
<1>6. x \in 0..N /\ N - x \in S
  BY DEF T
<1>7. ASSUME NEW s \in S PROVE s <= N - x
  <2>1. s \in 0..N /\ N - s \in 0..N /\ N - (N - s) = s
    OBVIOUS
  <2>2. N - s \in T
    BY <2>1 DEF T
  <2>. QED
    BY <1>5, <1>6, <2>1, <2>2
<1>. QED
  BY <1>6, <1>7

\* Of the versions of an id up to revision j, one is the newest.
LEMMA NewestUpTo ==
    ASSUME TypeOK, NEW x \in history, NEW j \in 0..MaxRev, x.rev <= j
    PROVE  \E z \in history :
              /\ z.id = x.id /\ z.rev <= j
              /\ \A y \in history : y.id = x.id /\ y.rev <= j => y.rev <= z.rev
<1> DEFINE S == {r \in 0..MaxRev :
                    \E y \in history : y.id = x.id /\ y.rev <= j /\ y.rev = r}
<1>0. \A y \in history : y.rev \in 0..MaxRev
  BY DEF TypeOK, Version
<1>1. x.rev \in S
  BY <1>0
<1>2. PICK m \in S : \A r \in S : r <= m
  <2>1. S \in SUBSET (0..MaxRev) /\ S # {}
    BY <1>1
  <2> HIDE DEF S
  <2>. QED
    BY <2>1, BoundedSetHasMax
<1>3. PICK z \in history : z.id = x.id /\ z.rev <= j /\ z.rev = m
  BY <1>2
<1>4. \A y \in history : y.id = x.id /\ y.rev <= j => y.rev \in S
  BY <1>0
<1>. QED
  BY <1>2, <1>3, <1>4

\* What Delta would have answered when the owner's revision was j.
Changes(o, c, j) ==
    {x \in history :
        /\ x.owner = o
        /\ x.rev > c /\ x.rev <= j
        /\ \A y \in history : y.id = x.id /\ y.rev <= j => y.rev <= x.rev}

(***************************************************************************)
(* The argument for pulls.  A row the client has, as of k, and that the    *)
(* changes after c do not name has no version between k and j, so it is    *)
(* the newest up to j; a live row the client lacks has one, so the changes *)
(* name it.  It does no harm that the changes start before k.              *)
(***************************************************************************)
LEMMA ChangesPatch ==
    ASSUME TypeOK, RevisionsIdentifyVersions, NEW o,
           NEW c \in 0..MaxRev, NEW k \in 0..MaxRev, NEW j \in 0..MaxRev,
           c <= k, k <= j
    PROVE  Patch(View(o, k), Changes(o, c, j)) = View(o, j)
<1>0. \A x \in history : x.rev \in 0..MaxRev
  BY DEF TypeOK, Version
<1>1. ASSUME NEW z \in View(o, k), \A y \in Changes(o, c, j) : y.id # z.id
      PROVE  z \in View(o, j)
  <2>1. /\ z \in history /\ z.owner = o /\ z.rev <= k /\ ~z.deleted
        /\ \A y \in history : y.id = z.id /\ y.rev <= k => y.rev <= z.rev
    BY DEF View
  <2>2. z.rev <= j
    BY <1>0, <2>1
  <2>3. PICK y \in history :
            /\ y.id = z.id /\ y.rev <= j
            /\ \A w \in history : w.id = z.id /\ w.rev <= j => w.rev <= y.rev
    BY <2>1, <2>2, NewestUpTo
  <2>4. y.owner = o
    BY <2>1, <2>3 DEF RevisionsIdentifyVersions
  <2>5. ~(y.rev > c)
    BY <1>1, <2>3, <2>4 DEF Changes
  <2>6. y.rev <= k
    BY <1>0, <2>3, <2>5
  <2>7. y.rev = z.rev
    BY <1>0, <2>1, <2>2, <2>3, <2>6
  <2>. QED
    BY <2>1, <2>2, <2>3, <2>7 DEF View
<1>2. ASSUME NEW z \in Changes(o, c, j), ~z.deleted
      PROVE  z \in View(o, j)
  BY <1>2 DEF Changes, View
<1>3. ASSUME NEW z \in View(o, j)
      PROVE  z \in Patch(View(o, k), Changes(o, c, j))
  <2>1. /\ z \in history /\ z.owner = o /\ z.rev <= j /\ ~z.deleted
        /\ \A y \in history : y.id = z.id /\ y.rev <= j => y.rev <= z.rev
    BY DEF View
  <2>2. CASE z.rev > c
    BY <2>1, <2>2 DEF Changes, Patch
  <2>3. CASE z.rev <= c
    <3>1. z \in View(o, k)
      BY <1>0, <2>1, <2>3 DEF View
    <3>2. \A y \in Changes(o, c, j) : y.id # z.id
      <4> SUFFICES ASSUME NEW y \in Changes(o, c, j), y.id = z.id PROVE FALSE
        OBVIOUS
      <4>1. y \in history /\ y.rev > c /\ y.rev <= z.rev
        BY <2>1 DEF Changes
      <4>. QED
        BY <1>0, <2>1, <2>3, <4>1
    <3>. QED
      BY <3>1, <3>2 DEF Patch
  <2>. QED
    BY <1>0, <2>1, <2>2, <2>3
<1>. QED
  BY <1>1, <1>2, <1>3 DEF Patch

\* Today is the revision that no other is above.
LEMMA Today ==
    ASSUME TypeOK, NEW o, NEW c
    PROVE  /\ Live(o) = View(o, MaxRev)
           /\ Delta(o, c) = Changes(o, c, MaxRev)
  BY DEF TypeOK, Version, Live, View, Delta, Changes, Table, Newest

\* A delta from any cursor not above the copy brings it up to date.
LEMMA DeltaPatches ==
    ASSUME TypeOK, RevisionsIdentifyVersions, NEW o,
           NEW c \in 0..MaxRev, NEW k \in 0..MaxRev, c <= k
    PROVE  Patch(View(o, k), Delta(o, c)) = Live(o)
  BY ChangesPatch, Today

-----------------------------------------------------------------------------
\* Revisions that the owner's rows have had, and none at all.
Reached(o, k) ==
    /\ k \in 0..MaxRev
    /\ k = 0 \/ \E x \in history : x.owner = o /\ x.rev = k

\* There is always one that all of the owner's rows are up to.
LEMMA LatestReached ==
    ASSUME TypeOK, NEW o
    PROVE  \E k \in 0..MaxRev :
              Reached(o, k) /\ \A x \in history : x.owner = o => x.rev <= k
<1> DEFINE S == {r \in 0..MaxRev :
                    r = 0 \/ \E x \in history : x.owner = o /\ x.rev = r}
<1>1. S \in SUBSET (0..MaxRev) /\ 0 \in S
  OBVIOUS
<1>2. PICK k \in S : \A r \in S : r <= k
  <2> HIDE DEF S
  <2>. QED
    BY <1>1, BoundedSetHasMax
<1>3. \A x \in history : x.owner = o => x.rev \in S
  BY DEF TypeOK, Version
<1>. QED
  BY <1>2, <1>3 DEF Reached

\* What was live, and what had changed, at a revision that has been reached
\* is settled: later versions do not alter it.
LEMMA PastStays ==
    ASSUME TypeOK, RevisionsIdentifyVersions, [Next]_vars,
           NEW o, NEW k, Reached(o, k), NEW c
    PROVE  /\ Reached(o, k)'
           /\ View(o, k)' = View(o, k)
           /\ Changes(o, c, k)' = Changes(o, c, k)
<1>0. \A x \in history : x.rev \in 0..MaxRev
  BY DEF TypeOK, Version
<1>1. CASE history' = history
  BY <1>1 DEF Reached, View, Changes
<1>2. ASSUME NEW new \in Version, Added(new)
      PROVE  /\ Reached(o, k)'
             /\ View(o, k)' = View(o, k)
             /\ Changes(o, c, k)' = Changes(o, c, k)
  <2>1. /\ history' = history \cup {new} /\ new.rev \in 1..MaxRev
        /\ \A x \in history : x.owner = new.owner => x.rev < new.rev
        /\ \A x \in history : x.id = new.id => x.owner = new.owner
    BY <1>2 DEF Added, RevisionsIdentifyVersions, Table, Version
  <2>2. Reached(o, k)'
    BY <2>1 DEF Reached
  <2>3. new.owner = o => ~(new.rev <= k)
    BY <1>0, <2>1 DEF Reached
  <2>4. \A x \in history : x.owner = o /\ x.id = new.id => ~(new.rev <= k)
    BY <2>1, <2>3
  <2>5. View(o, k)' = View(o, k)
    BY <2>1, <2>3, <2>4 DEF View
  <2>6. Changes(o, c, k)' = Changes(o, c, k)
    BY <2>1, <2>3, <2>4 DEF Changes
  <2>. QED
    BY <2>2, <2>5, <2>6
<1>. QED
  BY <1>1, <1>2, StepsAdd

\* What is answered now belongs to a revision that has been reached.
LEMMA TodayReached ==
    ASSUME TypeOK, RevisionsIdentifyVersions, NEW o
    PROVE  \E k \in 0..MaxRev :
              /\ Reached(o, k)
              /\ Live(o) = View(o, k)
              /\ \A c : Delta(o, c) = Changes(o, c, k)
<1>1. PICK k \in 0..MaxRev :
          Reached(o, k) /\ \A x \in history : x.owner = o => x.rev <= k
  BY LatestReached
<1>2. \A x, y \in history : x.id = y.id => x.owner = y.owner
  BY DEF RevisionsIdentifyVersions
<1>3. Live(o) = View(o, k)
  BY <1>1, <1>2 DEF Live, View, Table, Newest
<1>4. ASSUME NEW c PROVE Delta(o, c) = Changes(o, c, k)
  BY <1>1, <1>2 DEF Delta, Changes, Table, Newest
<1>. QED
  BY <1>1, <1>3, <1>4

\* A client that applies changes stands at the last revision among them.
LEMMA CursorOfChanges ==
    ASSUME TypeOK, RevisionsIdentifyVersions, NEW o, NEW h \in 0..MaxRev,
           NEW k, Reached(o, k),
           NEW c \in {h} \cup {x.rev : x \in Changes(o, h, k)},
           \A d \in {h} \cup {x.rev : x \in Changes(o, h, k)} : d <= c
    PROVE  /\ c \in 0..MaxRev
           /\ Patch(View(o, h), Changes(o, h, k)) = View(o, c)
<1>0. k \in 0..MaxRev /\ \A x \in history : x.rev \in 0..MaxRev
  BY DEF TypeOK, Version, Reached
<1>1. CASE k <= h
  <2>1. Changes(o, h, k) = {}
    BY <1>0, <1>1 DEF Changes
  <2>2. c = h
    BY <2>1
  <2>. QED
    BY <2>1, <2>2 DEF Patch
<1>2. CASE h < k
  <2>1. PICK x \in history : x.owner = o /\ x.rev = k
    BY <1>0, <1>2 DEF Reached
  <2>2. x \in Changes(o, h, k)
    BY <1>0, <1>2, <2>1 DEF Changes
  <2>3. k <= c
    BY <2>1, <2>2
  <2>4. c <= k
    BY <1>0, <1>2 DEF Changes
  <2>5. c \in 0..MaxRev
    BY <1>0 DEF Changes
  <2>6. c = k
    BY <1>0, <2>3, <2>4, <2>5
  <2>. QED
    BY <1>0, <1>2, <2>6, ChangesPatch
<1>. QED
  BY <1>0, <1>1, <1>2

(***************************************************************************)
(* Delta pulls are complete from every cursor, in every reachable state.   *)
(***************************************************************************)
THEOREM DeltaCorrect == Spec => []DeltaComplete
<1>1. TypeOK /\ RevisionsIdentifyVersions => DeltaComplete
  BY DeltaPatches DEF DeltaComplete
<1>. QED
  BY <1>1, TypeCorrect, RevisionsCorrect, PTL
=============================================================================
