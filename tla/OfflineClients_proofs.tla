------------------------ MODULE OfflineClients_proofs ------------------------
(***************************************************************************)
(* Proofs about OfflineClients: for any number of devices and accounts,    *)
(* and any number of edits and answers that the network delays, repeats    *)
(* and reorders, a device is one pull behind, and an edit takes effect     *)
(* once, on what its author saw.                                           *)
(***************************************************************************)
EXTENDS OfflineClients, ChangeFeed_proofs

USE MaxRevAssumption, DeviceAssumption

\* What a device sends: an id and content as the table has them, and the
\* revision of a row it holds.
EditOK(e) ==
    /\ e.device \in Devices /\ e.id \in Ids /\ e.base \in 0..MaxRev
    /\ e.op \in {"create", "update"} => e.content \in Contents
    /\ e.op = "create" => e.base = 0

\* An answer to a pull belongs to one revision that the owner has reached.
PullOK(m) ==
    /\ m.device \in Devices /\ m.since \in 0..MaxRev \cup {None}
    /\ \E k \in 0..MaxRev :
          /\ Reached(Account(m.device), k)
          /\ m.rows = IF m.since = None
                      THEN View(Account(m.device), k)
                      ELSE Changes(Account(m.device), m.since, k)

\* Of the rows up to its cursor c a device has what the table has, and
\* nothing that was there before; of later rows it may have any version.
Settled(o, c, held) ==
    \A z \in Table : z.owner = o /\ z.rev <= c =>
        \A x \in history : x.id = z.id => (x \in held <=> x = z /\ ~z.deleted)

CopyOK(o, c, held) ==
    /\ c = None => held = {}
    /\ \A x \in held : x \in history /\ x.owner = o /\ ~x.deleted
    /\ c # None => Reached(o, c) /\ Settled(o, c, held)

DTypeOK ==
    /\ copy \in [Devices -> SUBSET history]
    /\ cursor \in [Devices -> 0..MaxRev \cup {None}]
    /\ \A e \in sent : EditOK(e)

FInv == TypeOK /\ RevisionsIdentifyVersions

-----------------------------------------------------------------------------
\* Of each id the table holds one row.
LEMMA TableHasOne ==
    ASSUME FInv, NEW z \in Table, NEW y \in Table, z.id = y.id
    PROVE  z = y
<1>1. z.rev <= y.rev /\ y.rev <= z.rev /\ z \in history /\ y \in history
  BY DEF Table, Newest
<1>2. z.rev \in 0..MaxRev /\ y.rev \in 0..MaxRev
  BY <1>1 DEF FInv, TypeOK, Version
<1>. QED
  BY <1>1, <1>2 DEF FInv, RevisionsIdentifyVersions

\* What a device holds is one pull behind.
LEMMA SettledPulls ==
    ASSUME FInv, NEW o, NEW c \in 0..MaxRev, NEW held,
           \A x \in held : x \in history /\ x.owner = o /\ ~x.deleted,
           Settled(o, c, held)
    PROVE  Patch(held, Delta(o, c)) = Live(o)
<1>0. \A x \in history : x.rev \in 0..MaxRev
  BY DEF FInv, TypeOK, Version
<1>1. ASSUME NEW x \in held, \A y \in Delta(o, c) : y.id # x.id
      PROVE  x \in Live(o)
  <2>1. PICK z \in Table : z.id = x.id
    BY DEF FInv, RevisionsIdentifyVersions
  <2>2. z.owner = o
    BY <2>1 DEF FInv, RevisionsIdentifyVersions, Table
  <2>3. ~(z.rev > c)
    BY <1>1, <2>1, <2>2 DEF Delta
  <2>4. z.rev <= c
    BY <1>0, <2>1, <2>3 DEF Table
  <2>5. x = z /\ ~z.deleted
    BY <2>1, <2>2, <2>4 DEF Settled
  <2>. QED
    BY <2>1, <2>2, <2>5 DEF Live
<1>2. ASSUME NEW x \in Live(o)
      PROVE  x \in Patch(held, Delta(o, c))
  <2>1. x \in Table /\ x \in history /\ x.owner = o /\ ~x.deleted
    BY DEF Live, Table
  <2>2. CASE x.rev > c
    BY <2>1, <2>2 DEF Delta, Patch
  <2>3. CASE ~(x.rev > c)
    <3>1. x.rev <= c
      BY <1>0, <2>1, <2>3
    <3>2. x \in held
      BY <2>1, <3>1 DEF Settled
    <3>3. \A y \in Delta(o, c) : y.id # x.id
      BY <2>1, <2>3, TableHasOne DEF Delta
    <3>. QED
      BY <3>2, <3>3 DEF Patch
  <2>. QED
    BY <2>2, <2>3
<1>3. \A x \in Delta(o, c) : ~x.deleted => x \in Live(o)
  BY DEF Delta, Live
<1>. QED
  BY <1>1, <1>2, <1>3 DEF Patch

-----------------------------------------------------------------------------
\* A version that is new to the feed is above every cursor of its owner.
LEMMA CopyStays ==
    ASSUME FInv, [Next]_vars, NEW o, NEW c, NEW held, CopyOK(o, c, held)
    PROVE  CopyOK(o, c, held)'
<1>1. CASE history' = history
  BY <1>1 DEF CopyOK, Settled, Reached, Table, Newest
<1>2. ASSUME NEW new \in Version, Added(new), c # None
      PROVE  CopyOK(o, c, held)'
  <2>1. /\ history' = history \cup {new} /\ new.rev \in 1..MaxRev
        /\ \A x \in history : x.owner = new.owner => x.rev < new.rev
        /\ \A x \in history : x.id = new.id => x.owner = new.owner
    BY <1>2 DEF Added, FInv, RevisionsIdentifyVersions, Table, Version
  <2>2. Reached(o, c) /\ Settled(o, c, held)
    BY <1>2 DEF CopyOK
  <2>3. Reached(o, c)'
    BY <2>1, <2>2 DEF Reached
  <2>4. new.owner = o => ~(new.rev <= c)
    BY <2>1, <2>2 DEF Reached, FInv, TypeOK, Version
  <2>5. ASSUME NEW z \in Table', z.owner = o, z.rev <= c,
               NEW x \in history', x.id = z.id
        PROVE  x \in held <=> x = z /\ ~z.deleted
    <3>1. z \in history /\ z # new
      BY <2>1, <2>4, <2>5 DEF Table
    <3>2. z \in Table
      BY <2>1, <2>5, <3>1 DEF Table, Newest
    <3>3. x # new
      <4>1. new \in history' /\ ~(new.id = z.id /\ new.rev > z.rev)
        BY <2>1, <2>5, <3>1 DEF Table, Newest, FInv, TypeOK, Version
      <4>2. z.owner = new.owner => z.rev < new.rev
        BY <2>1, <3>1
      <4>3. z.rev \in 0..MaxRev
        BY <3>1 DEF FInv, TypeOK, Version
      <4>. QED
        BY <2>1, <2>5, <3>1, <4>1, <4>2, <4>3
    <3>. QED
      BY <2>1, <2>2, <2>5, <3>2, <3>3 DEF Settled
  <2>6. Settled(o, c, held)'
    BY <2>5 DEF Settled
  <2>. QED
    BY <1>2, <2>1, <2>3, <2>6 DEF CopyOK
<1>3. CASE c = None
  BY <1>3 DEF CopyOK
<1>. QED
  BY <1>1, <1>2, <1>3, StepsAdd DEF FInv

\* A row from another answer does not disturb what is settled.
LEMMA CopyLearns ==
    ASSUME FInv, NEW o, NEW c \in 0..MaxRev, NEW held, CopyOK(o, c, held),
           NEW x \in history, x.owner = o, x.rev > c
    PROVE  CopyOK(o, c, Patch(held, {x}))
<1>0. \A y \in history : y.rev \in 0..MaxRev
  BY DEF FInv, TypeOK, Version
<1>1. ASSUME NEW z \in Table, z.rev <= c PROVE z.id # x.id
  BY <1>0, <1>1 DEF Table, Newest
<1>2. ASSUME NEW z \in Table, z.owner = o, z.rev <= c,
             NEW y \in history, y.id = z.id
      PROVE  y \in Patch(held, {x}) <=> y = z /\ ~z.deleted
  <2>1. y.id # x.id
    BY <1>1, <1>2
  <2>2. y \in Patch(held, {x}) <=> y \in held
    BY <2>1 DEF Patch
  <2>. QED
    BY <1>2, <2>2 DEF CopyOK, Settled
<1>3. Settled(o, c, Patch(held, {x}))
  BY <1>2 DEF Settled
<1>. QED
  BY <1>3 DEF CopyOK, Patch

-----------------------------------------------------------------------------
\* Last is one of the revisions it may be, and no row taken is above it.
LEMMA LastIs ==
    ASSUME NEW since \in 0..MaxRev \cup {None}, NEW S,
           \A x \in S : x.rev \in 0..MaxRev
    PROVE  /\ \/ Last(since, S) = IF since = None THEN 0 ELSE since
              \/ \E x \in S : Last(since, S) = x.rev
           /\ \A x \in S : x.rev <= Last(since, S)
<1> DEFINE R == {IF since = None THEN 0 ELSE since} \cup {x.rev : x \in S}
<1>1. R \in SUBSET (0..MaxRev) /\ R # {}
  OBVIOUS
<1>2. \E m \in R : \A r \in R : r <= m
  <2> HIDE DEF R
  <2>. QED
    BY <1>1, BoundedSetHasMax
<1>3. \E c \in R : \A x \in S : x.rev <= c
  BY <1>2
<1>4. Last(since, S) = CHOOSE c \in R : \A x \in S : x.rev <= c
  BY DEF Last
<1>5. Last(since, S) \in R /\ \A x \in S : x.rev <= Last(since, S)
  <2> HIDE DEF R
  <2>. QED
    BY <1>3, <1>4
<1>. QED
  BY <1>5

\* The full list, taken as a whole.
LEMMA CopyFromList ==
    ASSUME FInv, NEW o, NEW k, Reached(o, k), NEW S, S = View(o, k)
    PROVE  /\ Last(None, S) \in 0..MaxRev
           /\ CopyOK(o, Last(None, S), Patch({}, S))
<1> DEFINE c == Last(None, S)
<1>0. k \in 0..MaxRev /\ \A x \in history : x.rev \in 0..MaxRev
  BY DEF FInv, TypeOK, Version, Reached
<1>1. \A x \in S : x \in history /\ x.owner = o /\ ~x.deleted /\ x.rev <= k
  BY DEF View
<1>2. /\ c = 0 \/ \E x \in S : c = x.rev
      /\ \A x \in S : x.rev <= c
  BY <1>0, <1>1, LastIs
<1> HIDE DEF c
<1>3. c \in 0..MaxRev /\ c <= k
  BY <1>0, <1>1, <1>2
<1>4. Reached(o, c)
  BY <1>1, <1>2, <1>3 DEF Reached
<1>5. Patch({}, S) = S
  BY <1>1 DEF Patch
<1>6. ASSUME NEW z \in Table, z.owner = o, z.rev <= c,
             NEW x \in history, x.id = z.id
      PROVE  x \in S <=> x = z /\ ~z.deleted
  <2>1. z \in history /\ \A y \in history : y.id = z.id => y.rev <= z.rev
    BY DEF Table, Newest
  <2>2. z.rev <= k
    BY <1>0, <1>3, <1>6, <2>1
  <2>3. ~z.deleted => z \in S
    BY <1>6, <2>1, <2>2 DEF View
  <2>4. ASSUME x \in S PROVE x = z
    <3>1. z.rev <= x.rev /\ x.rev <= z.rev
      BY <1>6, <2>1, <2>2, <2>4 DEF View
    <3>2. x.rev = z.rev
      BY <1>0, <2>1, <3>1
    <3>. QED
      BY <1>6, <2>1, <3>2 DEF FInv, RevisionsIdentifyVersions
  <2>. QED
    BY <1>1, <2>3, <2>4
<1>7. Settled(o, c, S)
  BY <1>6 DEF Settled
<1>8. CopyOK(o, c, Patch({}, S))
  BY <1>1, <1>3, <1>4, <1>5, <1>7 DEF CopyOK
<1>. QED
  BY <1>3, <1>8 DEF c

\* The changes after the cursor, up to where the device stops.
LEMMA CopyFromChanges ==
    ASSUME FInv, NEW o, NEW since \in 0..MaxRev, NEW held,
           CopyOK(o, since, held), NEW k, Reached(o, k),
           NEW S, NEW stop \in 0..MaxRev,
           S = {x \in Changes(o, since, k) : x.rev <= stop}
    PROVE  /\ Last(since, S) \in 0..MaxRev
           /\ CopyOK(o, Last(since, S), Patch(held, S))
<1> DEFINE c == Last(since, S)
<1>0. k \in 0..MaxRev /\ \A x \in history : x.rev \in 0..MaxRev
  BY DEF FInv, TypeOK, Version, Reached
<1>1. \A x \in S : /\ x \in history /\ x.owner = o
                   /\ x.rev > since /\ x.rev <= k /\ x.rev <= stop
  BY DEF Changes
<1>2. /\ c = since \/ \E x \in S : c = x.rev
      /\ \A x \in S : x.rev <= c
  BY <1>0, <1>1, LastIs
<1> HIDE DEF c
<1>3. c \in 0..MaxRev /\ since # None
  BY <1>0, <1>1, <1>2
<1>4. Reached(o, c)
  BY <1>1, <1>2, <1>3 DEF Reached, CopyOK
<1>5. ASSUME NEW z \in Table, z.owner = o, z.rev <= c,
             NEW x \in history, x.id = z.id
      PROVE  x \in Patch(held, S) <=> x = z /\ ~z.deleted
  <2>1. z \in history /\ \A y \in history : y.id = z.id => y.rev <= z.rev
    BY DEF Table, Newest
  <2>2. CASE z.rev <= since
    <3>1. \A y \in S : y.id # z.id
      BY <1>0, <1>1, <2>1, <2>2
    <3>2. x \in Patch(held, S) <=> x \in held
      BY <1>5, <3>1 DEF Patch
    <3>. QED
      BY <1>3, <1>5, <2>2, <3>2 DEF CopyOK, Settled
  <2>3. CASE ~(z.rev <= since)
    <3>1. c # since
      BY <1>5, <2>3
    <3>2. c <= k /\ c <= stop
      BY <1>1, <1>2, <3>1
    <3>3. z.rev > since /\ z.rev <= k /\ z.rev <= stop
      BY <1>0, <1>3, <1>5, <2>1, <2>3, <3>2
    <3>4. z \in S
      BY <1>5, <2>1, <3>3 DEF Changes
    <3>5. ASSUME NEW y \in S, y.id = z.id PROVE y = z
      <4>1. y \in history /\ z.rev <= y.rev /\ y.rev <= z.rev
        BY <2>1, <3>3, <3>5 DEF Changes
      <4>2. y.rev = z.rev
        BY <1>0, <2>1, <4>1
      <4>. QED
        BY <2>1, <3>5, <4>1, <4>2 DEF FInv, RevisionsIdentifyVersions
    <3>. QED
      BY <1>5, <3>4, <3>5 DEF Patch
  <2>. QED
    BY <2>2, <2>3
<1>6. Settled(o, c, Patch(held, S))
  BY <1>5 DEF Settled
<1>7. CopyOK(o, c, Patch(held, S))
  BY <1>1, <1>3, <1>4, <1>6 DEF CopyOK, Patch
<1>. QED
  BY <1>3, <1>7 DEF c

-----------------------------------------------------------------------------
CopiesOK == \A d \in Devices : CopyOK(Account(d), cursor[d], copy[d])

PullsOK == \A m \in pulls : PullOK(m)

DInv == FInv /\ DTypeOK /\ CopiesOK /\ PullsOK

\* Whatever a device or the network does, the feed takes a step of its own.
LEMMA FeedSteps ==
    ASSUME DInv, [DNext]_dvars
    PROVE  [Next]_vars
<1>1. ASSUME NEW e \in sent, Deliver(e) PROVE Next
  <2>1. EditOK(e) /\ Account(e.device) \in Owners
    BY DEF DInv, DTypeOK, EditOK
  <2>2. CASE e.op = "create" /\ Create(e.id, Account(e.device), e.content)
    BY <2>1, <2>2 DEF EditOK, Next
  <2>3. CASE e.op = "update" /\ \E x \in Table : Revise(x, e.content)
    BY <2>1, <2>3 DEF EditOK, Next
  <2>4. CASE \E x \in Table : Bury(x)
    BY <2>4 DEF Next
  <2>. QED
    BY <1>1, <2>2, <2>3, <2>4 DEF Deliver
<1>2. CASE Others
  BY <1>2 DEF Others
<1>3. CASE \/ \E d \in Devices : Submit(d) \/ AnswerPull(d) \/ Learn(d) \/ Reinstall(d)
           \/ \E m \in pulls : Receive(m)
  BY <1>3 DEF Submit, AnswerPull, Learn, Reinstall, Receive
<1>4. CASE UNCHANGED dvars
  BY <1>4 DEF dvars
<1>. QED
  BY <1>1, <1>2, <1>3, <1>4 DEF DNext

\* What a step does to one device: nothing, or one of three things.
LEMMA CopySteps ==
    ASSUME DInv, [DNext]_dvars, NEW d \in Devices
    PROVE  /\ copy'[d] \in SUBSET history'
           /\ cursor'[d] \in 0..MaxRev \cup {None}
           /\ CopyOK(Account(d), cursor[d], copy[d])'
<1> DEFINE o == Account(d)
           Done == /\ copy'[d] \in SUBSET history'
                   /\ cursor'[d] \in 0..MaxRev \cup {None}
                   /\ CopyOK(o, cursor[d], copy[d])'
<1>0. /\ copy \in [Devices -> SUBSET history]
      /\ cursor \in [Devices -> 0..MaxRev \cup {None}]
      /\ CopyOK(o, cursor[d], copy[d]) /\ FInv
  BY DEF DInv, DTypeOK, CopiesOK
\* The feed may have moved, the device has not.
<1>1. ASSUME copy'[d] = copy[d], cursor'[d] = cursor[d] PROVE Done
  <2>1. ASSUME NEW c, c = cursor[d], NEW held, held = copy[d]
        PROVE  CopyOK(o, cursor[d], copy[d])'
    <3>1. CopyOK(o, c, held)'
      BY <1>0, <2>1, CopyStays, FeedSteps
    <3>. QED
      BY <1>1, <2>1, <3>1 DEF CopyOK, Settled
  <2>2. history \subseteq history'
    BY FeedSteps, StepsAdd DEF DInv, FInv, Added
  <2>. QED
    BY <1>0, <1>1, <2>1, <2>2
\* The device has moved, the feed has not.
<1>2. ASSUME UNCHANGED history, NEW c \in 0..MaxRev \cup {None}, NEW held,
             cursor'[d] = c, copy'[d] = held, CopyOK(o, c, held)
      PROVE  Done
  <2>1. CopyOK(o, cursor[d], copy[d])'
    BY <1>2 DEF CopyOK, Settled, Reached, Table, Newest
  <2>2. held \subseteq history
    BY <1>2 DEF CopyOK
  <2>. QED
    BY <1>2, <2>1, <2>2
<1>3. ASSUME Learn(d) PROVE Done
  <2>1. PICK x \in history :
            /\ x.owner = o /\ cursor[d] # None /\ x.rev > cursor[d]
            /\ copy' = [copy EXCEPT ![d] = Patch(@, {x})]
    BY <1>3 DEF Learn
  <2>2. ASSUME NEW c, c = cursor[d], NEW held, held = copy[d]
        PROVE  CopyOK(o, c, Patch(held, {x}))
    BY <1>0, <2>1, <2>2, CopyLearns
  <2>3. /\ cursor'[d] = cursor[d] /\ copy'[d] = Patch(copy[d], {x})
        /\ UNCHANGED history
    BY <1>0, <1>3, <2>1 DEF Learn, vars
  <2>. QED
    BY <1>0, <1>2, <2>2, <2>3
<1>4. ASSUME Reinstall(d) PROVE Done
  <2>1. UNCHANGED history /\ cursor'[d] = None /\ copy'[d] = {}
    BY <1>0, <1>4 DEF Reinstall, vars
  <2>2. CopyOK(o, None, {})
    BY DEF CopyOK
  <2>. QED
    BY <1>2, <2>1, <2>2
<1>5. ASSUME NEW m \in pulls, Receive(m), m.device = d, m.since = cursor[d]
      PROVE  Done
  <2>1. PICK S \in (IF m.since = None THEN {m.rows} ELSE Taken(m.rows)) :
            /\ copy' = [copy EXCEPT ![m.device] = Patch(@, S)]
            /\ cursor' = [cursor EXCEPT ![m.device] = Last(m.since, S)]
    BY <1>5 DEF Receive
  <2>2. PICK k \in 0..MaxRev :
            /\ Reached(o, k)
            /\ m.rows = IF m.since = None THEN View(o, k)
                                          ELSE Changes(o, m.since, k)
    BY <1>5 DEF DInv, PullsOK, PullOK
  <2>3. ASSUME NEW held, held = copy[d]
        PROVE  /\ Last(m.since, S) \in 0..MaxRev
               /\ CopyOK(o, Last(m.since, S), Patch(held, S))
    <3>1. CASE m.since = None
      <4>1. held = {} /\ S = View(o, k)
        BY <1>0, <1>5, <2>1, <2>2, <2>3, <3>1 DEF CopyOK
      <4>. QED
        BY <1>0, <2>2, <3>1, <4>1, CopyFromList
    <3>2. CASE m.since # None
      <4>1. m.since \in 0..MaxRev
        BY <1>0, <1>5, <3>2
      <4>2. PICK stop \in 0..MaxRev : S = {x \in m.rows : x.rev <= stop}
        BY <2>1, <3>2 DEF Taken
      <4>3. S = {x \in Changes(o, m.since, k) : x.rev <= stop}
        BY <2>2, <3>2, <4>2
      <4>4. CopyOK(o, m.since, held)
        BY <1>0, <1>5, <2>3
      <4>. QED
        BY <1>0, <2>2, <4>1, <4>3, <4>4, CopyFromChanges
    <3>. QED
      BY <3>1, <3>2
  <2>4. /\ UNCHANGED history /\ cursor'[d] = Last(m.since, S)
        /\ copy'[d] = Patch(copy[d], S)
    BY <1>0, <1>5, <2>1 DEF Receive, vars
  <2>. QED
    BY <1>2, <2>3, <2>4
<1>6. ASSUME NEW m \in pulls, Receive(m), ~(m.device = d /\ m.since = cursor[d])
      PROVE  copy'[d] = copy[d] /\ cursor'[d] = cursor[d]
  BY <1>0, <1>6 DEF Receive, device
<1>7. ASSUME NEW f \in Devices, f # d, Learn(f) \/ Reinstall(f)
      PROVE  copy'[d] = copy[d] /\ cursor'[d] = cursor[d]
  BY <1>0, <1>7 DEF Learn, Reinstall
<1>8. CASE \/ Others \/ UNCHANGED dvars \/ \E e \in sent : Deliver(e)
           \/ \E f \in Devices : Submit(f) \/ AnswerPull(f)
  BY <1>1, <1>8 DEF Others, Deliver, Submit, AnswerPull, device, dvars
<1>. QED
  BY <1>1, <1>3, <1>4, <1>5, <1>6, <1>7, <1>8 DEF DNext

LEMMA SentStep ==
    ASSUME DInv, [DNext]_dvars, NEW e \in sent'
    PROVE  EditOK(e)
<1>1. ASSUME NEW d \in Devices, Submit(d) PROVE EditOK(e)
  <2>1. CASE e \in sent
    BY <2>1 DEF DInv, DTypeOK
  <2>2. ASSUME NEW i \in Ids, NEW c \in Contents,
               e = [device |-> d, op |-> "create", id |-> i, content |-> c, base |-> 0]
        PROVE  EditOK(e)
    BY <2>2 DEF EditOK
  <2>3. ASSUME NEW x \in copy[d], NEW op \in {"update", "delete"}, NEW c,
               op = "update" => c \in Contents,
               e = [device |-> d, op |-> op, id |-> x.id, content |-> c, base |-> x.rev]
        PROVE  EditOK(e)
    <3>1. x \in Version
      BY DEF DInv, DTypeOK, FInv, TypeOK
    <3>. QED
      BY <2>3, <3>1 DEF EditOK, Version
  <2>. QED
    BY <1>1, <2>1, <2>2, <2>3 DEF Submit
<1>2. CASE sent' = sent
  BY <1>2 DEF DInv, DTypeOK
<1>. QED
  BY <1>1, <1>2
  DEF DNext, Others, AnswerPull, Learn, Reinstall, Deliver, Receive, dvars

LEMMA PullsStep ==
    ASSUME DInv, [DNext]_dvars, NEW m \in pulls'
    PROVE  PullOK(m)'
<1>1. CASE m \in pulls
  <2>1. /\ m.device \in Devices /\ m.since \in 0..MaxRev \cup {None}
        /\ \E k \in 0..MaxRev :
              /\ Reached(Account(m.device), k)
              /\ m.rows = IF m.since = None
                          THEN View(Account(m.device), k)
                          ELSE Changes(Account(m.device), m.since, k)
    BY <1>1 DEF DInv, PullsOK, PullOK
  <2>2. PICK k \in 0..MaxRev :
              /\ Reached(Account(m.device), k)
              /\ m.rows = IF m.since = None
                          THEN View(Account(m.device), k)
                          ELSE Changes(Account(m.device), m.since, k)
    BY <2>1
  <2>3. /\ Reached(Account(m.device), k)'
        /\ View(Account(m.device), k)' = View(Account(m.device), k)
        /\ Changes(Account(m.device), m.since, k)'
              = Changes(Account(m.device), m.since, k)
    BY <2>2, FeedSteps, PastStays DEF DInv, FInv
  <2>. QED
    BY <2>1, <2>2, <2>3 DEF PullOK
<1>2. ASSUME NEW d \in Devices, AnswerPull(d), m \notin pulls
      PROVE  PullOK(m)'
  <2>1. /\ m.device = d /\ m.since = cursor[d]
        /\ m.rows = IF cursor[d] = None THEN Live(Account(d))
                    ELSE Delta(Account(d), cursor[d])
        /\ UNCHANGED history
    BY <1>2 DEF AnswerPull, vars
  <2>2. PICK k \in 0..MaxRev :
            /\ Reached(Account(d), k)
            /\ Live(Account(d)) = View(Account(d), k)
            /\ \A c : Delta(Account(d), c) = Changes(Account(d), c, k)
    BY TodayReached DEF DInv, FInv
  <2>3. m.since \in 0..MaxRev \cup {None}
    BY <2>1 DEF DInv, DTypeOK
  <2>4. PullOK(m)
    BY <2>1, <2>2, <2>3 DEF PullOK
  <2>. QED
    BY <2>1, <2>4 DEF PullOK, Reached, View, Changes
<1>3. CASE pulls' \subseteq pulls
  BY <1>1, <1>3
<1>. QED
  BY <1>1, <1>2, <1>3
  DEF DNext, Others, Submit, Learn, Reinstall, Deliver, Receive, dvars

LEMMA DInvStep ==
    ASSUME DInv, [DNext]_dvars
    PROVE  DInv'
<1>1. FInv'
  <2>1. TypeOK /\ RevisionsIdentifyVersions /\ [Next]_vars
    BY FeedSteps DEF DInv, FInv
  <2>2. TypeOK'
    BY <2>1, StepsAdd DEF TypeOK, Added, Version
  <2>. QED
    BY <2>1, <2>2, RevisionsStep DEF FInv
<1>2. DTypeOK'
  <2>1. /\ copy \in [Devices -> SUBSET history]
        /\ cursor \in [Devices -> 0..MaxRev \cup {None}]
    BY DEF DInv, DTypeOK
  <2>2. /\ copy' = [d \in Devices |-> copy'[d]]
        /\ cursor' = [d \in Devices |-> cursor'[d]]
    <3>1. CASE UNCHANGED device
      BY <2>1, <3>1 DEF device
    <3>2. CASE \E d \in Devices : Learn(d) \/ Reinstall(d)
      BY <2>1, <3>2 DEF Learn, Reinstall
    <3>3. CASE \E m \in pulls : Receive(m)
      BY <2>1, <3>3 DEF Receive, device
    <3>. QED
      BY <3>1, <3>2, <3>3
      DEF DNext, Others, Submit, AnswerPull, Deliver, device, dvars
  <2>3. \A d \in Devices : /\ copy'[d] \in SUBSET history'
                           /\ cursor'[d] \in 0..MaxRev \cup {None}
    BY CopySteps
  <2>4. copy' \in [Devices -> SUBSET history']
    BY <2>2, <2>3
  <2>5. cursor' \in [Devices -> 0..MaxRev \cup {None}]
    BY <2>2, <2>3
  <2>. QED
    BY <2>4, <2>5, SentStep DEF DTypeOK
<1>. QED
  BY <1>1, <1>2, CopySteps, PullsStep DEF DInv, CopiesOK, PullsOK

LEMMA DInvHolds == DSpec => []DInv
<1>1. DInit => DInv
  <2> SUFFICES ASSUME DInit PROVE DInv
    OBVIOUS
  <2>1. /\ Init /\ pulls = {} /\ sent = {}
        /\ copy = [d \in Devices |-> {}] /\ cursor = [d \in Devices |-> None]
    BY DEF DInit
  <2>2. TypeOK /\ RevisionsIdentifyVersions
    BY <2>1, LegacyAssumption
    DEF Init, TypeOK, RevisionsIdentifyVersions, Table, Newest
  <2>3. DTypeOK
    BY <2>1 DEF DTypeOK
  <2>4. CopiesOK /\ PullsOK
    BY <2>1 DEF CopiesOK, PullsOK, CopyOK
  <2>. QED
    BY <2>2, <2>3, <2>4 DEF DInv, FInv
<1>2. DInv /\ [DNext]_dvars => DInv'
  BY DInvStep
<1>. QED
  BY <1>1, <1>2, PTL DEF DSpec

(***************************************************************************)
(* A device is one pull behind, always: whatever was lost, late, repeated, *)
(* taken over in part or learnt from another answer.                       *)
(***************************************************************************)
THEOREM PullsBringUpToDate == DSpec => []OnePullBehind
<1>1. ASSUME DInv, NEW d \in Devices, cursor[d] # None
      PROVE  Patch(copy[d], Delta(Account(d), cursor[d])) = Live(Account(d))
  <2>1. /\ cursor[d] \in 0..MaxRev /\ FInv
        /\ \A x \in copy[d] : x \in history /\ x.owner = Account(d) /\ ~x.deleted
        /\ Settled(Account(d), cursor[d], copy[d])
    BY <1>1 DEF DInv, DTypeOK, CopiesOK, CopyOK
  <2>. QED
    BY <2>1, SettledPulls
<1>2. DInv => OnePullBehind
  BY <1>1 DEF OnePullBehind
<1>. QED
  BY <1>2, DInvHolds, PTL

-----------------------------------------------------------------------------
\* What an edit that took effect left behind: a version, and if it named a
\* revision, nothing between the two.
AppliedOK(a) ==
    /\ a = [edit |-> a.edit, rev |-> a.rev]
    /\ \E v \in history : v.id = a.edit.id /\ v.rev = a.rev
    /\ a.edit.base \in 0..MaxRev
    /\ a.edit.base > 0 =>
          /\ a.edit.base < a.rev
          /\ \A y \in history : y.id = a.edit.id =>
                y.rev <= a.edit.base \/ y.rev >= a.rev

CreatedOnce ==
    \A a, b \in applied : a.edit = b.edit /\ a.edit.op = "create" => a = b

EditsOK == CreatedOnce /\ \A a \in applied : AppliedOK(a)

\* An edit that takes effect adds one version, of its id; it finds the id
\* unused, or the revision it named the newest.
LEMMA DeliverAdds ==
    ASSUME DInv, NEW e \in sent, Deliver(e)
    PROVE  \E new \in Version :
              /\ Added(new) /\ new.id = e.id
              /\ e.op = "create" => \A x \in history : x.id # e.id
              /\ e.base > 0 =>
                    \E x \in Table : x.id = e.id /\ x.rev = e.base
<1>1. EditOK(e) /\ Account(e.device) \in Owners /\ TypeOK
  BY DEF DInv, FInv, DTypeOK, EditOK
<1>2. CASE e.op = "create" /\ Create(e.id, Account(e.device), e.content)
  <2>1. ~(e.base > 0) /\ \A x \in history : x.id # e.id
    BY <1>1, <1>2 DEF EditOK, Create
  <2>. QED
    BY <1>1, <1>2, <2>1, CreateAdds DEF EditOK
<1>3. CASE e.op = "update" /\ \E x \in Table : Matches(e, x) /\ Revise(x, e.content)
  <2>1. PICK x \in Table : Matches(e, x) /\ Revise(x, e.content)
    BY <1>3
  <2>2. x.id = e.id /\ (e.base > 0 => x.rev = e.base)
    BY <1>1, <2>1 DEF Matches, EditOK
  <2>. QED
    BY <1>1, <1>3, <2>1, <2>2, ReviseAdds DEF EditOK
<1>4. CASE e.op = "delete" /\ \E x \in Table : Matches(e, x) /\ Bury(x)
  <2>1. PICK x \in Table : Matches(e, x) /\ Bury(x)
    BY <1>4
  <2>2. x.id = e.id /\ (e.base > 0 => x.rev = e.base)
    BY <1>1, <2>1 DEF Matches, EditOK
  <2>. QED
    BY <1>1, <1>4, <2>1, <2>2, BuryAdds
<1>. QED
  BY <1>2, <1>3, <1>4 DEF Deliver

\* A version that is added tops those of its id.
LEMMA AddedTops ==
    ASSUME FInv, NEW new \in Version, Added(new)
    PROVE  /\ new \notin history
           /\ \A y \in history : y.id = new.id => y.rev < new.rev
<1>1. \A y \in history : y.id = new.id => y.owner = new.owner
  BY DEF Added, FInv, RevisionsIdentifyVersions, Table
<1>. QED
  BY <1>1 DEF Added, FInv, TypeOK, Version

LEMMA AppliedStays ==
    ASSUME FInv, [Next]_vars, NEW a, AppliedOK(a)
    PROVE  AppliedOK(a)'
<1>1. CASE history' = history
  BY <1>1 DEF AppliedOK
<1>2. ASSUME NEW new \in Version, Added(new) PROVE AppliedOK(a)'
  <2>1. history' = history \cup {new}
    BY <1>2 DEF Added
  <2>2. PICK v \in history : v.id = a.edit.id /\ v.rev = a.rev
    BY DEF AppliedOK
  <2>3. new.id = a.edit.id => new.rev >= a.rev
    BY <1>2, <2>2, AddedTops DEF FInv, TypeOK, Version
  <2>. QED
    BY <2>1, <2>2, <2>3 DEF AppliedOK
<1>. QED
  BY <1>1, <1>2, StepsAdd DEF FInv

LEMMA EditsStep ==
    ASSUME DInv, EditsOK, [DNext]_dvars
    PROVE  EditsOK'
<1>1. \A a \in applied : AppliedOK(a)'
  BY FeedSteps, AppliedStays DEF DInv, EditsOK
<1>2. CASE applied' = applied
  BY <1>1, <1>2 DEF EditsOK, CreatedOnce
<1>3. ASSUME NEW e \in sent, Deliver(e) PROVE EditsOK'
  <2>1. PICK new \in Version :
              /\ Added(new) /\ new.id = e.id
              /\ e.op = "create" => \A x \in history : x.id # e.id
              /\ e.base > 0 =>
                    \E x \in Table : x.id = e.id /\ x.rev = e.base
    BY <1>3, DeliverAdds
  <2>2. history' = history \cup {new} /\ new \notin history
    BY <2>1, AddedTops DEF DInv, Added
  <2> DEFINE done == [edit |-> e, rev |-> new.rev]
  <2>3. applied' = applied \cup {done}
    BY <1>3, <2>2 DEF Deliver
  <2>4. AppliedOK(done)'
    <3>1. done.edit = e /\ done.rev = new.rev
      OBVIOUS
    <3>2. e.base \in 0..MaxRev /\ new.rev \in 0..MaxRev
          /\ \A y \in history : y.rev \in 0..MaxRev
      BY DEF DInv, DTypeOK, EditOK, Version, FInv, TypeOK
    <3>3. ASSUME e.base > 0
          PROVE  /\ e.base < new.rev
                 /\ \A y \in history' : y.id = e.id =>
                        y.rev <= e.base \/ y.rev >= new.rev
      <4>1. PICK x \in Table : x.id = e.id /\ x.rev = e.base
        BY <2>1, <3>3
      <4>2. x \in history /\ \A y \in history : y.id = e.id => y.rev <= e.base
        BY <4>1 DEF Table, Newest
      <4>3. e.base < new.rev
        BY <2>1, <4>1, <4>2, AddedTops DEF DInv
      <4>. QED
        BY <2>2, <3>2, <4>2, <4>3
    <3> HIDE DEF done
    <3>4. done = [edit |-> done.edit, rev |-> done.rev]
      BY <3>1 DEF done
    <3>. QED
      BY <2>1, <2>2, <3>1, <3>2, <3>3, <3>4 DEF AppliedOK
  <2>5. ASSUME NEW a \in applied, e.op = "create" PROVE a.edit # e
    BY <2>1, <2>5 DEF EditsOK, AppliedOK
  <2>6. CreatedOnce'
    <3>1. done.edit = e
      OBVIOUS
    <3> HIDE DEF done
    <3>. QED
      BY <2>3, <2>5, <3>1 DEF EditsOK, CreatedOnce
  <2>. QED
    BY <1>1, <2>3, <2>4, <2>6 DEF EditsOK
<1>. QED
  BY <1>2, <1>3
  DEF DNext, Others, Submit, AnswerPull, Learn, Reinstall, Receive, dvars

LEMMA EditsHold == DSpec => []EditsOK
<1>1. DInit => EditsOK
  BY DEF DInit, EditsOK, CreatedOnce
<1>2. DInv /\ EditsOK /\ [DNext]_dvars => EditsOK'
  BY EditsStep
<1>. QED
  BY <1>1, <1>2, DInvHolds, PTL DEF DSpec

(***************************************************************************)
(* An edit that names a revision only ever follows that very revision.     *)
(***************************************************************************)
THEOREM EditsFollowWhatWasSeen == DSpec => []AppliedToWhatWasSeen
<1>1. EditsOK => AppliedToWhatWasSeen
  BY DEF EditsOK, AppliedOK, AppliedToWhatWasSeen
<1>. QED
  BY <1>1, EditsHold, PTL

(***************************************************************************)
(* An edit with a minted id or a revision takes effect at most once: two   *)
(* effects of one update would each have to come before the other.         *)
(***************************************************************************)
THEOREM EditsApplyOnce == DSpec => []AppliedOnce
<1>1. ASSUME DInv, EditsOK, NEW a \in applied, NEW b \in applied,
             a.edit = b.edit, a.edit.base > 0
      PROVE  a = b
  <2>1. PICK v \in history : v.id = a.edit.id /\ v.rev = a.rev
    BY <1>1 DEF EditsOK, AppliedOK
  <2>2. PICK w \in history : w.id = b.edit.id /\ w.rev = b.rev
    BY <1>1 DEF EditsOK, AppliedOK
  <2>3. a.rev <= a.edit.base \/ a.rev >= b.rev
    BY <1>1, <2>1 DEF EditsOK, AppliedOK
  <2>4. b.rev <= a.edit.base \/ b.rev >= a.rev
    BY <1>1, <2>2 DEF EditsOK, AppliedOK
  <2>5. /\ a.edit.base < a.rev /\ a.edit.base < b.rev
        /\ a.rev \in 0..MaxRev /\ b.rev \in 0..MaxRev
        /\ a.edit.base \in 0..MaxRev
    BY <1>1, <2>1, <2>2 DEF EditsOK, AppliedOK, DInv, FInv, TypeOK, Version
  <2>6. a.rev = b.rev
    BY <2>3, <2>4, <2>5
  <2>. QED
    BY <1>1, <2>6 DEF EditsOK, AppliedOK
<1>2. DInv /\ EditsOK => AppliedOnce
  BY <1>1 DEF EditsOK, CreatedOnce, AppliedOnce
<1>. QED
  BY <1>2, DInvHolds, EditsHold, PTL
=============================================================================
