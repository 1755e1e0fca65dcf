---------------------------- MODULE SyncedHistory ----------------------------
(***************************************************************************)
(* SyncedTable with a history variable: every version the table ever held. *)
(* The table overwrites rows in place, and what it promises to clients is  *)
(* about what a row was before; the history makes that sayable, and is the *)
(* state of ChangeFeed, which the handlers are shown to implement.         *)
(***************************************************************************)
EXTENDS SyncedTable

VARIABLE history

hvars == <<vars, history>>

HInit == Init /\ history = rows

HNext == Next /\ history' = history \cup rows'

HSpec == HInit /\ [][HNext]_hvars

Feed == INSTANCE ChangeFeed

-----------------------------------------------------------------------------
(***************************************************************************)
(* The handlers implement the change feed: what the statements of all      *)
(* requests do to the table is a sequence of creates, revisions and        *)
(* burials, each with the next revision of its owner.                      *)
(***************************************************************************)
ImplementsFeed == Feed!Spec

(***************************************************************************)
(* The table is what the feed promises it to be: of each id the newest     *)
(* version, and nothing else.                                              *)
(***************************************************************************)
TableIsNewest == rows = Feed!Table

(***************************************************************************)
(* Every row in a reply is a version that was really committed, with the   *)
(* revision it was committed under, and belongs to the account that asked; *)
(* in particular an update answers with its new revision, not with the one *)
(* it read before it wrote.                                                *)
(***************************************************************************)
RepliesAreVersions ==
    \A p \in Requests : \A x \in reply[p].rows :
        /\ x \in history
        /\ x.owner = req[p].owner
        /\ req[p].op # "list" => x.id = req[p].id
        /\ req[p].op \in {"create", "update"} => x.content = req[p].content

(***************************************************************************)
(* A write that echoed a revision succeeds only if nothing was written to  *)
(* the row since that revision, whoever wrote it and however long the      *)
(* request was under way: no update is lost.  Revision 0 is not a guard.   *)
(***************************************************************************)
NoLostUpdate ==
    [][\A p \in Requests :
          /\ pc[p] \in {"Update", "Delete"} /\ pc'[p] = "respond"
          /\ reply'[p].status = "ok"
          /\ req[p].header \in 1..MaxRev
          => \A x \in history : x.id = req[p].id => x.rev <= req[p].header]_hvars

\* What a client holds after the answer to a list: a full list replaces its
\* copy, a delta patches the copy it had at its cursor.
CopyAfter(p) ==
    IF req[p].header = None
    THEN reply[p].rows
    ELSE Feed!Patch(Feed!View(req[p].owner, req[p].header), reply[p].rows)

\* The highest revision that pulls have brought it.
CursorsAfter(p) ==
    LET seen == {x.rev : x \in reply[p].rows} \cup
                    (IF req[p].header = None THEN {0} ELSE {req[p].header})
    IN  {c \in seen : \A d \in seen : d <= c}

(***************************************************************************)
(* Pulling is safe at any distance: when the answer to a list, delayed for *)
(* as long as it may be, reaches the client, one more pull from the        *)
(* highest revision that answer brought, or else the cursor it was asked   *)
(* with, brings its copy to exactly the live rows.  (Revisions seen in the *)
(* answers to writes are no such cursor: see OfflineClients!SeenSpec.)     *)
(***************************************************************************)
NextPullConverges ==
    \A p \in Requests :
        req[p].op = "list" /\ reply[p].status = "ok" =>
            \A c \in CursorsAfter(p) :
                Feed!Patch(CopyAfter(p), Since(req[p].owner, c))
                    = Live(req[p].owner)

(***************************************************************************)
(* A delta leads to a state that was: after applying it the client holds   *)
(* the live rows exactly as they stood at the revision that is its new     *)
(* cursor, never a mixture of two moments.                                 *)
(***************************************************************************)
DeltaIsSnapshot ==
    \A p \in Requests :
        req[p].op = "list" /\ reply[p].status = "ok" /\ req[p].header # None =>
            \A c \in CursorsAfter(p) :
                CopyAfter(p) = Feed!View(req[p].owner, c)
=============================================================================
