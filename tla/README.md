# A verification of the simple backend server

TLA+ models of this Go server, model-checked with TLC and, for what matters
most, proved with TLAPS. The server keeps bookmarks and collections of accounts
for offline-first clients in one SQLite file; every request is served by a
goroutine of its own, and the only things that are atomic are SQL statements
and the one explicit transaction, `Rotate`. The models are about that: what
requests do to each other between their statements, and what clients can rely
on.

File references are to the repository; `src/` stands for its root.

## Inventory

| Component | State | Operations | Modules |
|---|---|---|---|
| Bookmarks | table `bookmarks` | create, update, delete, get, list, list since | `SyncedTable`, `SyncedHistory`, `SyncedOutcomes` |
| Collections | table `collections` | as bookmarks | `Collections` over `SyncedTable` |
| Activity feed, notifications | tables `activities`, `notifications` | written by creations; list, mark read | `SyncedTable`, `Collections` |
| Synchronisation protocol | revisions, tombstones, the cursors and copies of clients | revision assignment, delta pull, `X-Expected-Rev` | `ChangeFeed`, `SyncedHistory`, `OfflineClients` |
| Refresh tokens | table `refresh_tokens`, SQLite's locks | issue, rotate, revoke | `TokenStore`, `RefreshRotation`, `RefreshHistory` |
| Accounts | table `users` | register, sign in, change password | `Accounts`, `AccountsOutcomes` |
| Access tokens | none (signed JWT) | sign, parse, authentication middleware | `Sessions` |
| Migration | the schema | `CREATE TABLE IF NOT EXISTS`, guarded `ALTER TABLE` | `Migration`, `Server` |
| Uploads | files | parse, create, copy, answer a URL; serve | `Uploads`, `Server` |
| Router, DTOs, identifiers, `main` | none | routing, wire format, wiring | as guards and inputs of the others |

How they interact. A handler (`internal/transport/httpapi`) checks the request
and calls one method of a service (`internal/service`), which calls
repositories (`internal/storage/sqlite`), each call one SQL statement, except
`Rotate` (a transaction of five) and `writeMiss` (a second statement after one
that matched nothing). A creation of a bookmark also writes two feed entries,
best-effort. Services keep no state; everything is in the database, shared by
all goroutines through a connection pool. `database/sql` opens the file
`data.db` without pragmas: rollback journal, deferred transactions, no busy
timeout, so that a lock that is not to be had fails the statement at once. (In
the models it may also be waited for; a timeout would change nothing else.)

What is hard here, and what correctness means:

* **Revisions.** `rev` is `MAX(rev) + 1` over the owner's rows, and is both a
  version number and a pull cursor. Correct: two writes of an owner never share
  one; every version a client could have missed is above its cursor; applying a
  delta gives the live rows, with nothing missed and nothing resurrected.
* **Optimistic concurrency.** `Update` reads, then writes in a later statement.
  Correct: a write that echoes a revision never overwrites a newer version.
* **Refusals by two statements.** `writeMiss` asks why nothing matched after the
  fact. Correct: a refusal was due at some instant of the request.
* **Unreliable networks.** Edits made offline arrive late, twice or never, and
  their answers too. Correct: an edit takes effect at most once and only on what
  its author saw, and a device is never more than one pull behind (if only pulls
  move its cursor).
* **Feeds and inbox.** Three statements, no transaction, and an inbox that is
  read meanwhile. Correct: never an entry without its row or a second entry;
  every row gets its entries, before its creation is answered, if nothing fails;
  what an owner was told is marked read is.
* **Rotation.** Concurrent refreshes of one token, of several tokens that block
  each other, sign-outs in between, `SQLITE_BUSY`, crashes, expiry. Correct: a
  token is exchanged at most once and never comes back; what is sent to a client
  is in the table; nobody waits for ever.
* **Credentials.** bcrypt takes its time between reading a hash and writing
  another. Correct: what is accepted was right at some instant of the request.
* **Sessions.** Access tokens are not stored. Correct: they outlive the end of a
  session by less than their lifetime.
* **Start-up.** `addSyncColumns` looks and alters in two statements, per column,
  without a transaction. Correct: no process serves an incomplete schema, after
  any deaths and whoever else migrates, and all come to serve.
* **Uploads.** Files are served while they are written. Correct: who was answered
  a URL finds the whole file there.

`PROJECT.json` lists these as hazards, each at its line.

## Modules

| Module | What it is | Code |
|---|---|---|
| `ChangeFeed` | abstract: the versions a synchronised table has committed, and what a pull from any cursor brings | `domain/bookmark.go`, the SQL of `sqlite/bookmark.go` |
| `SyncedTable` | the bookmark endpoints: one action per repository call | `httpapi/bookmark.go`, `request.go`, `service/bookmark.go`, `sqlite/bookmark.go` |
| `SyncedHistory` | `SyncedTable` with the history of versions; implements `ChangeFeed` | |
| `SyncedOutcomes` | `SyncedTable` with the answers an atomic implementation could have given | |
| `OfflineClients` | devices and an unreliable network before `ChangeFeed` | the comments on `rev`, `since` and client-minted ids |
| `Collections` | an instance of `SyncedTable` on `collections`, the inbox beside it, `normalizeTags` | `httpapi/collection.go`, `notification.go`, `service/collection.go`, `sqlite/collection.go`, `notification.go`, `activity.go` |
| `TokenStore` | abstract: tokens issued, exchanged, withdrawn, each in one step | `domain/user.go` |
| `RefreshRotation` | refresh, sign-out and sign-in down to the statements and locks | `httpapi/auth.go`, `service/auth.go`, `sqlite/token.go` |
| `RefreshHistory` | `RefreshRotation` with the exchanges; implements `TokenStore` | |
| `Sessions` | `RefreshHistory` with the access tokens that clients were given | `security/jwt.go`, `middleware.go` |
| `Accounts` | register, sign-in, change-password: one action per repository call | `httpapi/auth.go`, `service/auth.go`, `sqlite/user.go` |
| `AccountsOutcomes` | `Accounts` with the answers an atomic implementation could have given | |
| `Migration` | what a process does before it serves, statement by statement | `sqlite/sqlite.go` |
| `Uploads` | the upload handler and the directory it writes | `httpapi/upload.go` |
| `Server` | processes that migrate, serve uploads and die, over one working directory | `main.go` |
| `*_proofs` | theorems and proofs of the module they are named after; `RefreshHistory_proofs` also of `TokenStore` and `Sessions`, `SyncedTable_proofs` of `SyncedOutcomes`, `Accounts_proofs` of `AccountsOutcomes` | |
| `MC*` | small instances for TLC | |

Conventions. `pc[p]` is the repository call that request `p` makes next, under
the name it has in the code; `req[p]` what it asked for; `reply[p]` what it will
be answered, from the moment that is decided until `Respond`. Between the
decision and `Respond` everybody else may run: an answer can be old when it
arrives. A slot whose answer was given serves another request. A request's
local variables are in `req`, `reply` or `tx`. A failing statement changes
nothing and is answered 500, except where the code ignores errors
(`recordCreation`, `Revoke`). `Crash` empties all slots and keeps what was
committed. `mail`, `up` and `at` are what `pc`, `req` and `reply` are, for
requests to the inbox, uploads, and processes that start. The operators
commented "Mutant" are plausible bugs, one for each property; none is used by a
specification.

Abstractions. A bookmark's title, URL, tags and so on are one `content`;
`None` is one that `validateBookmark` rejects. A header or cursor is a number,
`None` (missing) or `Malformed`. A name or password is `Blank` if the handlers
take it for missing; `Spaces` are passwords that only the change-password
handler, which trims, takes for missing. An id is a key that clients choose or `NewID`
makes; the latter is one that nobody else uses. JSON that does not parse is a
rejected request like the others. In `RefreshRotation` the instant of the
comparison with the clock and the INSERT are one step (`Check`), both under the
write lock and unseen by others. A hash is the password it was made of. An
element of a list of names is what it trims to and whether there was anything to
trim. A file is one value, `Partial` from `os.Create` to the end of `io.Copy`.
The columns of a table are those that migration adds, and `id` for the others.

Composition. `Collections` is an instance of `SyncedTable`, and what is proved
of the one table is proved to hold of the other; the two tables share nothing but
the feeds, whose entries of one kind the other never touches (a collection's
list of bookmarks is not checked against the table of bookmarks), and are
therefore not put side by side. `OfflineClients` runs over `ChangeFeed` and not
over `SyncedTable`: `SyncedHistory` shows that the handlers implement
`ChangeFeed`, so that each request takes effect at one instant, and a request
whose answer is late is there a delivery. The clients are external; they do
what the comments in the source say they do, except for one thing. By the
comments the cursor is "the highest revision they have already seen"
(`request.go:14-15`; `domain/bookmark.go:8-9`: "the last seen"). The answers to
writes show revisions too, and a device that follows them (`SeenSpec`) loses
rows: the run `highest_seen` is the counterexample. The devices of `DSpec`, of
which the other properties and the theorems speak, move their cursor by pulls
only; that is what a client has to do, and what the comments do not say.

## What the runs check

| Run | Instance | What it shows |
|---|---|---|
| `offline_clients` | 1 device whose cursor only pulls move, among other writers of 2 accounts, 2 ids, revisions to 3, one old row, 2 edits, 2 pulls under way | delta pulls from every cursor are complete; the device is never more than one pull behind; edits take effect once, on what was seen |
| `synced_table` | 2 accounts contending for 2 ids, 2 contents, revisions to 3, 2 requests, all operations, 1 failure or crash | the handlers implement the feed; replies are committed versions; no guarded update is lost; feeds match rows. Pulls: the table holds the newest versions; an answer of any age can be applied, and the next pull converges; a delta is a snapshot |
| `outcomes` | 1 account, 1 id, 3 requests | a refusal was due at an instant, with the exception below |
| `collections` | 2 accounts, 1 id, 1 request to collections and 2 to the inbox, all operations, 1 failure or crash, fairness | creations are recorded before they are answered; the inbox does what its owner was told; lists are normalised |
| `refresh_locks` | 1 account, 3 tokens, 2 requests, all operations, tokens that expire at the next instant, clock to 1, 1 failure or crash, fairness | the transaction is atomic; tokens sent are stored; gone is gone; expiry chains; access tokens end with their session; read locks in each other's way are resolved by `SQLITE_BUSY` |
| `refresh_guard` | 1 account, 3 tokens, 3 requests, no read locks, 1 failure or crash | single use rests on the row count of the DELETE alone |
| `accounts` | 2 names, 4 passwords (one too long for bcrypt, one of white space), 2 requests, 1 failure or crash | answers are due at an instant; passwords change only by a request that knew one |
| `server` | 2 processes, an upload slot each, 2 contents, 2 names, 3 failures or deaths, three old schemas, fairness | no process serves an incomplete schema; all come to serve; answered URLs keep their files |
| `delete_race`, `legacy_echo`, `highest_seen`, `sign_out` | | counterexamples, see below |

Why the bounds are enough. What the requests of the code do to each other is
pairwise: one is between two of its statements while another commits. Two slots
give every pair in every interleaving, and since slots are reused, an
unbounded number of requests after each other. Three slots are used where three
parties matter: a refusal of two statements with two writers around it, three
holders of one token. `MaxRev` (in `Room`) lets a row be created, updated and
buried, or one row be created and two requests write at once, with all requests
still finding a revision; `Room` keeps requests out before the bound instead of
cutting them short, so that no property holds for lack of revisions. In
`synced_table` there is no row from before the revisions, so that accounts, ids
and contents are alike and symmetry keeps the instance small; what revision 0
means to a pull is in `offline_clients`, and to a guard in `legacy_echo`. In
`refresh_locks` a token lives to the end of the instant it was made in (`TTL` 0) and the clock
moves once (`MaxTime`), so that it may move between any two statements, and
both sides of an expiry occur; an access token lives one instant longer, so that
one can be accepted after its session. `collections` has one slot for
collections, since what they do to each other is `SyncedTable`'s and proved
there, and revisions to 2: one is created, then written or buried. The inbox
has two slots, so that one marks while another lists. In `offline_clients` three
revisions let a row be created, edited by another and edited or buried again
while an edit of the device and two of its pulls are under way. One failure or
crash at any point, three where starts fail each other; more only repeat them.
The theorems below hold for every value of these constants.

In `refresh_guard` the constant `SharedBlocksCommit` is FALSE. Under SQLite's
read locks a second refresh cannot reach its DELETE after the first committed,
so the check of the row count, which the comment in `Rotate` speaks of, is
never put to the test; on an engine without them it is all there is.

### Counterexamples

* `delete_race`: a delete without `X-Expected-Rev` of a row that does not exist;
  its UPDATE matches nothing; another request creates the row; `writeMiss` finds
  it and answers 409. `request.go` says that without the header a write
  proceeds unconditionally, `domain/bookmark.go` that a missing row is
  `ErrNotFound`. (An update is not exposed: `GetOwned` comes first.)
* `legacy_echo`: a row from before the revision column is served with `rev` 0;
  a client that echoes it after somebody else has updated the row overwrites
  that update, since `expectedRev == 0` means no expectation. `domain/bookmark.go` says a mismatch
  is a conflict. The `NoLostUpdate` that holds is about revisions above 0.
* `highest_seen`: a device has pulled; another client of the account creates a
  row, revision 1; the device creates one of its own, and the answer shows
  revision 2, the highest it has seen. It pulls from 2 from now on, and gets the
  row of revision 1 only if somebody changes it again. `request.go` says that
  clients pass the highest revision they have already seen. With a cursor that
  only pulls move, nothing is missed (`OnePullBehind`, proved).
* `sign_out`: a sign-out while another request's transaction holds a lock: its
  DELETE fails with `SQLITE_BUSY`, `Revoke` ignores that, the answer is 204 and
  the token still works. The README says sign-out revokes the token.

A remark that is not a counterexample, as no document says the opposite: a row
from before the revision column has revision 0, so that `?since=0` does not
bring it. `OnePullBehind` holds of devices that start from the full list; with
a first pull from 0 it fails at once.

## Fairness

Only the three liveness properties use any: `Answered` and `CreationRecorded`
weak fairness of each request's own steps (`Serve`). A goroutine that is
runnable is scheduled, and a SQL statement returns, with `SQLITE_BUSY` if with
nothing else, since there is no busy timeout. Nothing is assumed of clients (`Receive`), of failures, crashes or the
clock. `Busy` is part of `Serve`: a request that cannot have a lock is refused;
with a busy timeout of infinity (`BusyPatient`) `Answered` fails. `AllServe`
needs weak fairness of each process's statements and of its start: whoever
operates the server starts it again when it ends, as a supervisor does. That is
an assumption about the operator, not about the code; the code's part is that
only finitely many starts fail.

## What is proved

Every safety property that a passing run checks is also a theorem: for every value of
the constants, from the named assumptions about them only (revisions are
naturals, model values differ, rows from before the migration are live, have
revision 0 and distinct ids, lists are finite). `PROJECT.json` names them all.
Each proof module gives the inductive invariant and why it is needed:

* `ChangeFeed_proofs`: `TypeOK`, `RevisionsIdentifyVersions`, `DeltaComplete`.
  `RevisionsIdentifyVersions` is inductive together with `TypeOK`; the completeness of deltas follows from it: of each id, the view at
  the cursor and the delta between them hold the newest version. The lemmas
  after it say what clients build on: the versions up to a revision that was
  reached never change (`PastStays`), so that an old answer is still the view
  of its moment, and patching that view with the changes since gives today's
  (`DeltaPatches`).
* `SyncedTable_proofs`: `TypeOK` (with `Fits`: a request stands only at calls
  that serve its operation, which is what makes it inductive),
  `KeysIdentifyRows`, `RowsOnlyAdvance`, `FeedsMatchRows` and, of
  `SyncedOutcomes`, `RefusalsAreDue`. `FeedsMatchRows` needs that at most one
  request is between the insert of a row and the end of its `recordCreation`,
  and that the entries it has still to write are not there (`FeedsInductive`).
  `RefusalsAreDue` needs `Due`: what a request found out at an earlier call is
  one of its moments, as rows do not come back and revisions do not repeat.
* `SyncedHistory_proofs`: `TableIsNewest`, `ImplementsFeed`, `NoLostUpdate`,
  `RepliesAreVersions`, `DeltaIsSnapshot`, `NextPullConverges`. The invariant
  `HInv` relates the table to the history: each version in the history is one
  of a row of the table or older than it. Each write maps to a step of
  `ChangeFeed`, every other step to a stutter, so that the lemmas about the feed
  apply: the answer to a list is a view or a delta of a moment that was reached
  (`Pulled`), and stays one while the table moves on.
* `OfflineClients_proofs`: `OnePullBehind`, `AppliedToWhatWasSeen`,
  `AppliedOnce`, of devices whose cursor only pulls move. In `DInv`, a copy agrees with the view at its cursor, every
  answer under way is a delta of a moment that was reached (`CopiesOK`,
  `PullsOK`); of an edit, however often it is sent, at most one version was made
  and it follows the version the user saw (`EditsOK`).
* `Collections_proofs`: what is proved of `SyncedTable` is carried over through
  the instance (`TableStep`: to the table, a step is one of `SyncedTable`, or a
  fault elsewhere); then `AnsweredIsRecorded`, `InboxFollowsOwner` and
  `ShownReadIsRead`, from `InboxInv`: a mark names a notification that exists or
  nothing, and its owner's wish is on record, before anything is marked.
  `MembershipsNormalized` is an induction over the turns of `normalizeTags`'
  loop (`NormalTurn`): what is left after n turns is the normal form of the
  first n elements, for a list of any length.
* `RefreshHistory_proofs`: `TypeOK`, `ImplementsStore`, `SingleUse`,
  `GoneIsGone`, `RepliedTokenIsStored`, `ExpiryChains` and, of `Sessions`,
  `AccessEndsWithSession`, with and without read locks. The invariant `IInv`:
  tokens that have been made and are not yet stored are fresh and differ from
  each other; one transaction at a time is between its DELETE and its commit;
  the row it read is still in the table. With it `Commit` is the abstract
  `Rotate`, `Issue` and `Revoke` are themselves, and the rest stutters.
  `SingleUse` is proved of the abstract store (`StoreSingleUse`) and inherited.
  `RepliedTokenIsStored` needs that a token is held by one request from `NewID`
  to its answer, and that nobody else can name it.
* `Accounts_proofs`: `TypeOK`, `OneAccountPerName`, `PasswordsChangeByProof` and,
  of `AccountsOutcomes`, `AnswersAreDue`. The invariant `AInv` says what the call
  at which a request stands tells of it (`Verified`): one about to write a
  password is a complete change request with a password that can be hashed, and
  accepting it was right at one of its moments. `MoveStep` carries it over every
  step in which a request moves on, `ReceiveStep` and `ClearStep` over those in
  which requests come and go.
* `Server_proofs`: `ServesCompleteSchema` and `UrlsServeWholeFiles`. The first
  from `Past`: the tables and columns before the statement at which a process
  stands are there; since nothing drops one, only the process that moves has
  something to show (`SchemaStep`). The second from `Fits` and `Own`: the file
  under a name is as far as its upload, and a name under way belongs to one
  upload and was told nobody (`OneMoves`).

Each invariant was first checked by TLC on the instance of its run. Induction
over numbers (the greatest revision of a set, the turns of a loop) is done with
`WFMin` of the library, as the search for a least counterexample, since its
induction rules take an operator, which the provers cannot instantiate.

Only model-checked: the three liveness properties, `Answered`,
`CreationRecorded` and `AllServe`. TLAPS does not prove liveness under fairness
here. That the handlers of `OfflineClients` are those of `SyncedTable` is a chain
of two results, not one theorem: the handlers implement `ChangeFeed`, and the
devices are right over `ChangeFeed`.

## Assumptions about the outside

* SQLite serialises statements; a statement that fails changes nothing.
* A `Commit` that fails with `SQLITE_BUSY` has released its locks: the deferred
  `Rollback` is a no-op by then (`database/sql` considers the transaction done),
  so this is up to the driver, and nothing here is checked about the other case.
* `NewID` (192 random bits) never repeats, in one process or two.
* The host keeps what was written: no power failure, and `Close` of an upload
  (whose error the code drops) does not lose what `Write` accepted.
* A process that ends leaves no lock on the database file.
* `middleware.Timeout` sets a deadline that no repository call looks at (they
  take no context): it may change an answer, not what is done.

## Not modelled, and why

* The content of answers beyond what the properties tell apart: JSON, error
  messages, CORS, `/health`, logging. They have no state.
* Signatures and the parsing of the `Authorization` header: the middleware
  accepts what the issuer signed, until it expires.
* Rows whose JSON columns do not parse: the server writes none.
* The expiry of refresh tokens that nobody presents again: the code never
  removes them, so there is nothing to model.

## What is left, in this order

1. An abstract specification of the accounts (names, each with one password,
   changed by who knows it) and `Accounts` as an implementation of it;
   `PasswordsChangeByProof` is its most important consequence.
2. The same for `Server`: an atomic migration and an atomic upload.
3. A theorem in place of the chain of two results between `OfflineClients` and
   `SyncedTable`: devices whose requests are those of the handlers.
