------------------------------- MODULE Accounts -------------------------------
(***************************************************************************)
(* Registering, signing in and changing a password, from the handlers down *)
(* to the repository calls.  Each call is one SQL statement; the requests  *)
(* of other clients run between them:                                      *)
(*                                                                         *)
(*    register   users.Create, issueTokens                                 *)
(*    signin     FindByUsername, issueTokens                               *)
(*    change     PasswordHash, UpdatePassword                              *)
(*                                                                         *)
(* Hashing and comparing are pure and belong to the call before them.  A   *)
(* hash stands for the password it was made of.  What becomes of the       *)
(* refresh tokens that are issued here is in RefreshRotation.              *)
(***************************************************************************)
EXTENDS Naturals

CONSTANTS
    Names,      \* usernames; accounts are never removed, so a name stands
                \* for the id its account got from NewID as well
    Passwords,
    TooLong,    \* passwords that bcrypt refuses to hash
    Spaces,     \* passwords of nothing but white space
    Blank,      \* a missing username or password
    Requests,   \* slots for requests being served at the same time
    MaxFaults   \* bound on failed statements and crashes

ASSUME ConstantsAssumption ==
    /\ TooLong \subseteq Passwords /\ Spaces \subseteq Passwords
    /\ Blank \notin Names \cup Passwords
    /\ MaxFaults \in Nat

VARIABLES
    users,      \* the table: [name, password]
    sessions,   \* accounts that were given a refresh token
    pc,         \* next call of each request
    req,        \* what it asked for
    reply,      \* status it will be answered
    faults      \* failures so far

vars == <<users, sessions, pc, req, reply, faults>>
stored == <<users, sessions>>

NoRequest == [op |-> "none", name |-> Blank, password |-> Blank, new |-> Blank]

Known == {u.name : u \in users}

\* A change comes with an access token, so from an account that exists;
\* password is then the current one.
ClientRequests ==
    {r \in [op : {"register", "signin", "change"}, name : Names \cup {Blank},
            password : Passwords \cup {Blank}, new : Passwords \cup {Blank}] :
        /\ r.op = "change" => r.name \in Known
        /\ r.op # "change" => r.new = Blank}

\* All three handlers refuse a missing password, but only the change trims
\* first: a password of white space can be registered and never changed.
Incomplete(r) ==
    \/ r.name = Blank \/ r.password = Blank
    \/ r.op = "change" /\ {r.password, r.new} \cap (Spaces \cup {Blank}) # {}

\* Without a username or password: 400, but 401 from a sign-in.
Complaint(r) == IF r.op = "signin" THEN "invalid_credentials" ELSE "bad_request"

\* The repository call that each handler makes first.
FirstCalls == {<<"register", "Create">>, <<"signin", "FindByUsername">>,
               <<"change", "PasswordHash">>}

\* The hash that was read is one of this password.
Holds(name, password) == [name |-> name, password |-> password] \in users

Goto(p, call) == pc' = [pc EXCEPT ![p] = call]

Answer(p, status) ==
    /\ Goto(p, "respond")
    /\ reply' = [reply EXCEPT ![p] = status]

-----------------------------------------------------------------------------
Init ==
    /\ users = {} /\ sessions = {}
    /\ pc = [p \in Requests |-> "idle"]
    /\ req = [p \in Requests |-> NoRequest]
    /\ reply = [p \in Requests |-> "none"]
    /\ faults = 0

\* A registration hashes its password before it touches the table.
Receive(p) ==
    /\ pc[p] = "idle"
    /\ \E r \in ClientRequests :
          /\ req' = [req EXCEPT ![p] = r]
          /\ \/ Incomplete(r) /\ Answer(p, Complaint(r))
             \/ /\ ~Incomplete(r)
                /\ r.op = "register" /\ r.password \in TooLong
                /\ Answer(p, "server_error")
             \/ /\ ~Incomplete(r)
                /\ ~(r.op = "register" /\ r.password \in TooLong)
                /\ \E first \in FirstCalls :
                      first[1] = r.op /\ Goto(p, first[2])
                /\ UNCHANGED reply
    /\ UNCHANGED <<stored, faults>>

\* Mutant: the column is not UNIQUE.
CreateAnyway(p) ==
    /\ pc[p] = "Create"
    /\ users' = users \cup {[name |-> req[p].name, password |-> req[p].password]}
    /\ Goto(p, "issueTokens")
    /\ UNCHANGED <<sessions, req, reply, faults>>

\* INSERT into a table whose username is UNIQUE.
Create(p) ==
    /\ pc[p] = "Create"
    /\ \/ /\ req[p].name \in Known
          /\ Answer(p, "conflict") /\ UNCHANGED users
       \/ /\ req[p].name \notin Known
          /\ users' = users \cup {[name |-> req[p].name, password |-> req[p].password]}
          /\ Goto(p, "issueTokens") /\ UNCHANGED reply
    /\ UNCHANGED <<sessions, req, faults>>

\* Mutant: the account is looked up and its hash not compared.
FindByUsernameOnly(p) ==
    /\ pc[p] = "FindByUsername"
    /\ IF req[p].name \in Known
       THEN Goto(p, "issueTokens") /\ UNCHANGED reply
       ELSE Answer(p, "invalid_credentials")
    /\ UNCHANGED <<stored, req, faults>>

FindByUsername(p) ==
    /\ pc[p] = "FindByUsername"
    /\ IF Holds(req[p].name, req[p].password)
       THEN Goto(p, "issueTokens") /\ UNCHANGED reply
       ELSE Answer(p, "invalid_credentials")
    /\ UNCHANGED <<stored, req, faults>>

\* Sign, NewID and the INSERT of the refresh token.
IssueTokens(p) ==
    /\ pc[p] = "issueTokens"
    /\ sessions' = sessions \cup {req[p].name}
    /\ Answer(p, "ok")
    /\ UNCHANGED <<users, req, faults>>

\* Mutant: the current password is not compared.
PasswordHashUnchecked(p) ==
    /\ pc[p] = "PasswordHash"
    /\ Goto(p, "UpdatePassword")
    /\ UNCHANGED <<stored, req, reply, faults>>

\* The current password is compared, then the new one hashed.
PasswordHash(p) ==
    /\ pc[p] = "PasswordHash"
    /\ \/ /\ ~Holds(req[p].name, req[p].password)
          /\ Answer(p, "invalid_credentials")
       \/ /\ Holds(req[p].name, req[p].password)
          /\ req[p].new \in TooLong /\ Answer(p, "server_error")
       \/ /\ Holds(req[p].name, req[p].password)
          /\ req[p].new \notin TooLong
          /\ Goto(p, "UpdatePassword") /\ UNCHANGED reply
    /\ UNCHANGED <<stored, req, faults>>

\* UPDATE ... WHERE id = ?: not a word of the password that was compared.
UpdatePassword(p) ==
    /\ pc[p] = "UpdatePassword"
    /\ users' = {u \in users : u.name # req[p].name}
                    \cup {[name |-> req[p].name, password |-> req[p].new]}
    /\ Answer(p, "ok")
    /\ UNCHANGED <<sessions, req, faults>>

Respond(p) ==
    /\ pc[p] = "respond"
    /\ Goto(p, "idle")
    /\ req' = [req EXCEPT ![p] = NoRequest]
    /\ reply' = [reply EXCEPT ![p] = "none"]
    /\ UNCHANGED <<stored, faults>>

\* Mutant: a registration whose tokens cannot be issued is rolled back, with
\* the account that has the name then.
FaultUndoing(p) ==
    /\ faults < MaxFaults
    /\ faults' = faults + 1
    /\ pc[p] \notin {"idle", "respond"}
    /\ users' = IF pc[p] = "issueTokens"
                THEN {u \in users : u.name # req[p].name} ELSE users
    /\ Answer(p, "server_error")
    /\ UNCHANGED <<sessions, req>>

\* A statement, or the signing of the access token, fails: 500.  Nothing is
\* undone: the account of a registration stays when its tokens are not issued.
Fault(p) ==
    /\ faults < MaxFaults
    /\ faults' = faults + 1
    /\ pc[p] \notin {"idle", "respond"}
    /\ Answer(p, "server_error")
    /\ UNCHANGED <<stored, req>>

\* The process dies; committed statements stay.
Crash ==
    /\ faults < MaxFaults
    /\ faults' = faults + 1
    /\ pc' = [p \in Requests |-> "idle"]
    /\ req' = [p \in Requests |-> NoRequest]
    /\ reply' = [p \in Requests |-> "none"]
    /\ UNCHANGED stored

Serve(p) ==
    \/ Create(p) \/ FindByUsername(p) \/ IssueTokens(p)
    \/ PasswordHash(p) \/ UpdatePassword(p) \/ Respond(p)

Next ==
    \/ \E p \in Requests : Receive(p) \/ Serve(p) \/ Fault(p)
    \/ Crash

Spec == Init /\ [][Next]_vars

-----------------------------------------------------------------------------
Calls == {"idle", "Create", "FindByUsername", "issueTokens", "PasswordHash",
          "UpdatePassword", "respond"}

Statuses == {"none", "ok", "bad_request", "invalid_credentials", "conflict",
             "server_error"}

\* Accounts are complete and have a password that can be hashed; a request
\* that got past its first call names an account of the table.
TypeOK ==
    /\ users \subseteq [name : Names, password : Passwords \ TooLong]
    /\ sessions \subseteq Known
    /\ pc \in [Requests -> Calls]
    /\ \A p \in Requests : req[p] \in ClientRequests \cup {NoRequest}
    /\ \A p \in Requests :
          pc[p] \in {"issueTokens", "PasswordHash", "UpdatePassword"}
              => req[p].name \in Known
    /\ reply \in [Requests -> Statuses]
    /\ faults \in 0..MaxFaults

(***************************************************************************)
(* However registrations race, a username has one account and one          *)
(* password: of those that ask for it at once only one gets past the       *)
(* UNIQUE column.                                                          *)
(***************************************************************************)
OneAccountPerName == \A u, v \in users : u.name = v.name => u = v
=============================================================================
