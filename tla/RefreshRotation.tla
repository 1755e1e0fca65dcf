--------------------------- MODULE RefreshRotation ---------------------------
(***************************************************************************)
(* Refresh, sign-out and the issuing of a first token, from AuthService    *)
(* down to the statements of the SQL transaction in Rotate:                *)
(*                                                                         *)
(*   refresh   lookup, consume (DELETE), check (expiry, INSERT), commit,   *)
(*             sign                                                        *)
(*   signout   revoke (one DELETE)                                         *)
(*   signin    issue (one INSERT), once the credentials were verified      *)
(*                                                                         *)
(* The database is SQLite in its default rollback-journal mode.  A         *)
(* transaction reads under a SHARED lock it keeps, writes under the one    *)
(* RESERVED lock, and commits when no other transaction is reading; a      *)
(* lock that is not to be had ends the statement with SQLITE_BUSY.         *)
(***************************************************************************)
EXTENDS Naturals

CONSTANTS
    Tokens,     \* values of NewID; none is generated twice
    Users,      \* accounts
    Requests,   \* slots for requests being served at the same time
    Ops,        \* operations the clients of this instance perform
    TTL,        \* lifetime of a refresh token
    MaxTime,    \* bound on the clock
    MaxFaults,  \* bound on failed statements, failed signatures and crashes
    SharedBlocksCommit, \* TRUE as in SQLite; FALSE for an engine where only
                        \* writers exclude each other, so that single use
                        \* rests on Rotate's own check of the DELETE
    None,       \* no token, no user
    Unknown     \* a token the server never issued

ASSUME ConstantsAssumption ==
    /\ TTL \in Nat /\ MaxTime \in Nat /\ MaxFaults \in Nat
    /\ SharedBlocksCommit \in BOOLEAN
    /\ Ops \subseteq {"refresh", "signout", "signin"}
    /\ None \notin Tokens /\ Unknown \notin Tokens /\ None # Unknown
    /\ None \notin Users

Times == 0..(MaxTime + TTL)

Stored == [token : Tokens, user : Users, expires : Times]

VARIABLES
    tokens,     \* the refresh_tokens table
    issued,     \* what it ever held: the ids that NewID will not make again
    known,      \* tokens that reached a client in a reply
    pc,         \* next step of each request
    req,        \* what it asked for
    tx,         \* its local state: the row it read, the row it will store
    reply,      \* what it will be answered
    now,        \* the clock
    faults      \* failures so far

vars == <<tokens, issued, known, pc, req, tx, reply, now, faults>>
db == <<tokens, issued>>

NoRow == [token |-> None, user |-> None, expires |-> 0]
NoRequest == [op |-> "none", token |-> None, user |-> None]
NoTx == [from |-> NoRow, new |-> None, expires |-> 0]
NoReply == [status |-> "none", token |-> None]

\* A refresh without a token is refused at once; a sign-out without one is
\* answered at once.
ClientRequests ==
    {r \in [op : Ops, token : known \cup {None, Unknown}, user : Users \cup {None}] :
        /\ r.op = "signin" => r.token = None
        /\ r.user # None <=> r.op = "signin"}

\* Mutant: an id generator that may repeat an id no longer in the table.
TokensNotStored ==
    Tokens \ ({s.token : s \in tokens} \cup {tx[p].new : p \in Requests})

FreshTokens ==
    Tokens \ ({s.token : s \in issued} \cup {tx[p].new : p \in Requests})

-----------------------------------------------------------------------------
\* Transactions holding the RESERVED lock, and those holding a SHARED one.
Writing(p) == pc[p] \in {"check", "commit"}
Reading(p) == pc[p] = "consume" \/ Writing(p)

CanWrite(p) == \A q \in Requests \ {p} : ~Writing(q)

CanCommit(p) ==
    SharedBlocksCommit => \A q \in Requests \ {p} : ~Reading(q)

Goto(p, step) == pc' = [pc EXCEPT ![p] = step]

\* The handler returns; a transaction that has not committed rolls back.
Answer(p, status, token) ==
    /\ Goto(p, "respond")
    /\ tx' = [tx EXCEPT ![p] = NoTx]
    /\ reply' = [reply EXCEPT ![p] = [status |-> status, token |-> token]]

Row(t) == {s \in tokens : s.token = t}

Init ==
    /\ tokens = {} /\ issued = {} /\ known = {}
    /\ pc = [p \in Requests |-> "idle"]
    /\ req = [p \in Requests |-> NoRequest]
    /\ tx = [p \in Requests |-> NoTx]
    /\ reply = [p \in Requests |-> NoReply]
    /\ now = 0
    /\ faults = 0

\* The handler, up to its first statement.  NewID and the expiry of the new
\* token are computed before the transaction begins.
Receive(p) ==
    /\ pc[p] = "idle"
    /\ \E r \in ClientRequests :
          /\ req' = [req EXCEPT ![p] = r]
          /\ \/ /\ r.op = "refresh" /\ r.token = None
                /\ Answer(p, "bad_request", None)
             \/ /\ r.op = "signout" /\ r.token = None
                /\ Answer(p, "ok", None)
             \/ /\ r.op = "signout" /\ r.token # None
                /\ Goto(p, "revoke") /\ UNCHANGED <<tx, reply>>
             \/ /\ r.op = "signin" \/ (r.op = "refresh" /\ r.token # None)
                /\ \E t \in FreshTokens :
                      tx' = [tx EXCEPT ![p] =
                                [from |-> NoRow, new |-> t, expires |-> now + TTL]]
                /\ Goto(p, IF r.op = "refresh" THEN "lookup" ELSE "issue")
                /\ UNCHANGED reply
    /\ UNCHANGED <<db, known, now, faults>>

\* BEGIN; SELECT: the transaction now holds a SHARED lock.
Lookup(p) ==
    /\ pc[p] = "lookup"
    /\ \/ Row(req[p].token) = {} /\ Answer(p, "unrecognized", None)
       \/ /\ \E s \in Row(req[p].token) : tx' = [tx EXCEPT ![p].from = s]
          /\ Goto(p, "consume") /\ UNCHANGED reply
    /\ UNCHANGED <<db, known, req, now, faults>>

\* Mutant: the number of rows removed is not looked at.
ConsumeUnchecked(p) ==
    /\ pc[p] = "consume"
    /\ CanWrite(p)
    /\ Goto(p, "check")
    /\ UNCHANGED <<db, known, req, tx, reply, now, faults>>

\* DELETE: takes the RESERVED lock; it must have removed exactly one row.
Consume(p) ==
    /\ pc[p] = "consume"
    /\ CanWrite(p)
    /\ \/ Row(req[p].token) = {} /\ Answer(p, "unrecognized", None)
       \/ /\ Row(req[p].token) # {}
          /\ Goto(p, "check") /\ UNCHANGED <<tx, reply>>
    /\ UNCHANGED <<db, known, req, now, faults>>

\* Mutant: no look at the clock.
CheckNothing(p) ==
    /\ pc[p] = "check"
    /\ Goto(p, "commit")
    /\ UNCHANGED <<db, known, req, tx, reply, now, faults>>

\* time.Now().After(expires): the instant of expiry itself is in time.  Then
\* the user name is read and the successor inserted, unseen until the commit.
Check(p) ==
    /\ pc[p] = "check"
    /\ \/ now > tx[p].from.expires /\ Answer(p, "expired", None)
       \/ /\ now <= tx[p].from.expires
          /\ Goto(p, "commit") /\ UNCHANGED <<tx, reply>>
    /\ UNCHANGED <<db, known, req, now, faults>>

\* Mutant: the account is taken from the request, which carries none.
SuccessorOfNobody(p) ==
    [token |-> tx[p].new, user |-> req[p].user, expires |-> tx[p].expires]

Successor(p) ==
    [token |-> tx[p].new, user |-> tx[p].from.user, expires |-> tx[p].expires]

\* Mutant: the old token is not deleted.
CommitKeepingOld(p) ==
    /\ pc[p] = "commit"
    /\ CanCommit(p)
    /\ tokens' = tokens \cup {Successor(p)}
    /\ issued' = issued \cup {Successor(p)}
    /\ Goto(p, "sign")
    /\ UNCHANGED <<known, req, tx, reply, now, faults>>

Commit(p) ==
    /\ pc[p] = "commit"
    /\ CanCommit(p)
    /\ tokens' = (tokens \ Row(req[p].token)) \cup {Successor(p)}
    /\ issued' = issued \cup {Successor(p)}
    /\ Goto(p, "sign")
    /\ UNCHANGED <<known, req, tx, reply, now, faults>>

Sign(p) ==
    /\ pc[p] = "sign"
    /\ Answer(p, "ok", tx[p].new)
    /\ UNCHANGED <<db, known, req, now, faults>>

\* A single INSERT, a transaction of its own.
Issue(p) ==
    /\ pc[p] = "issue"
    /\ CanWrite(p) /\ CanCommit(p)
    /\ LET new == [token |-> tx[p].new, user |-> req[p].user,
                   expires |-> tx[p].expires]
       IN  tokens' = tokens \cup {new} /\ issued' = issued \cup {new}
    /\ Answer(p, "ok", tx[p].new)
    /\ UNCHANGED <<known, req, now, faults>>

\* Mutant: every session of the account ends.
RevokeAccount(p) ==
    /\ pc[p] = "revoke"
    /\ CanWrite(p) /\ CanCommit(p)
    /\ tokens' = {s \in tokens : \A t \in Row(req[p].token) : s.user # t.user}
    /\ Answer(p, "ok", None)
    /\ UNCHANGED <<issued, known, req, now, faults>>

\* A single DELETE, a transaction of its own.
Revoke(p) ==
    /\ pc[p] = "revoke"
    /\ CanWrite(p) /\ CanCommit(p)
    /\ tokens' = tokens \ Row(req[p].token)
    /\ Answer(p, "ok", None)
    /\ UNCHANGED <<issued, known, req, now, faults>>

\* What a failed statement makes of the request: everything rolls back and
\* the answer is 500, but for Revoke, whose errors are ignored.
Fail(p) ==
    Answer(p, IF pc[p] = "revoke" THEN "ok" ELSE "server_error", None)

\* Mutant: within Rotate, wait for the lock however long it takes.
BusyPatient(p) ==
    /\ \/ pc[p] = "lookup" /\ \E q \in Requests \ {p} : pc[q] = "commit"
       \/ pc[p] \in {"issue", "revoke"} /\ ~(CanWrite(p) /\ CanCommit(p))
    /\ Fail(p)
    /\ UNCHANGED <<db, known, req, now, faults>>

\* SQLITE_BUSY: a lock held by another transaction is not to be had.
Busy(p) ==
    /\ \/ pc[p] = "lookup" /\ \E q \in Requests \ {p} : pc[q] = "commit"
       \/ pc[p] = "consume" /\ ~CanWrite(p)
       \/ pc[p] = "commit" /\ ~CanCommit(p)
       \/ pc[p] \in {"issue", "revoke"} /\ ~(CanWrite(p) /\ CanCommit(p))
    /\ Fail(p)
    /\ UNCHANGED <<db, known, req, now, faults>>

\* The answer reaches the client, or the connection is gone.
Respond(p) ==
    /\ pc[p] = "respond"
    /\ Goto(p, "idle")
    /\ req' = [req EXCEPT ![p] = NoRequest]
    /\ reply' = [reply EXCEPT ![p] = NoReply]
    /\ known' \in {known, known \cup ({reply[p].token} \ {None})}
    /\ UNCHANGED <<db, tx, now, faults>>

\* Any statement, or the signing of the access token, fails.
Fault(p) ==
    /\ faults < MaxFaults
    /\ faults' = faults + 1
    /\ pc[p] \notin {"idle", "respond"}
    /\ Fail(p)
    /\ UNCHANGED <<db, known, req, now>>

\* The process dies: transactions under way are rolled back at the next start.
Crash ==
    /\ faults < MaxFaults
    /\ faults' = faults + 1
    /\ pc' = [p \in Requests |-> "idle"]
    /\ req' = [p \in Requests |-> NoRequest]
    /\ tx' = [p \in Requests |-> NoTx]
    /\ reply' = [p \in Requests |-> NoReply]
    /\ UNCHANGED <<db, known, now>>

Tick ==
    /\ now < MaxTime
    /\ now' = now + 1
    /\ UNCHANGED <<db, known, pc, req, tx, reply, faults>>

Serve(p) ==
    \/ Lookup(p) \/ Consume(p) \/ Check(p) \/ Commit(p) \/ Sign(p)
    \/ Issue(p) \/ Revoke(p) \/ Busy(p) \/ Respond(p)

Next ==
    \/ \E p \in Requests : Receive(p) \/ Serve(p) \/ Fault(p)
    \/ Crash \/ Tick

\* A statement comes back in the end, with SQLITE_BUSY if with nothing else.
Fairness == \A p \in Requests : WF_vars(Serve(p))

Spec == Init /\ [][Next]_vars

FairSpec == Spec /\ Fairness

-----------------------------------------------------------------------------
Steps == {"idle", "lookup", "consume", "check", "commit", "sign", "issue",
          "revoke", "respond"}

Statuses == {"none", "ok", "bad_request", "unrecognized", "expired", "server_error"}

\* The types of the variables; what a transaction read was really stored.
TypeOK ==
    /\ issued \subseteq Stored /\ tokens \subseteq issued
    /\ known \subseteq Tokens
    /\ pc \in [Requests -> Steps]
    /\ req \in [Requests -> [op : Ops \cup {"none"},
                             token : Tokens \cup {None, Unknown},
                             user : Users \cup {None}]]
    /\ tx \in [Requests -> [from : issued \cup {NoRow},
                            new : Tokens \cup {None}, expires : Times]]
    /\ reply \in [Requests -> [status : Statuses, token : Tokens \cup {None}]]
    /\ now \in 0..MaxTime
    /\ faults \in 0..MaxFaults

(***************************************************************************)
(* A token on its way to the client, in the answer to a refresh or to a    *)
(* sign-in, is in the table: whatever the other requests did or whichever  *)
(* of their transactions failed meanwhile, it can be used when it arrives. *)
(***************************************************************************)
RepliedTokenIsStored ==
    \A p \in Requests :
        reply[p].token # None => \E s \in tokens : s.token = reply[p].token

(***************************************************************************)
(* Requests never wait for each other forever.  Two refreshes that both    *)
(* hold a SHARED lock cannot both go on, neither gives way on its own:     *)
(* SQLITE_BUSY and the rollback of Rotate's deferred call resolve it.      *)
(***************************************************************************)
Answered == \A p \in Requests : pc[p] # "idle" ~> pc[p] = "idle"

(***************************************************************************)
(* What the README says of sign-out: it revokes the provided refresh       *)
(* token; always returns 204.                                              *)
(***************************************************************************)
SignOutRevokes ==
    \A p \in Requests :
        req[p].op = "signout" /\ pc[p] = "respond"
            => \A s \in tokens : s.token # req[p].token
=============================================================================
