------------------------------ MODULE Migration ------------------------------
(***************************************************************************)
(* What the server does before it serves: migrate creates the tables that  *)
(* are missing, then addSyncColumns adds the columns that a database from  *)
(* before the synchronisation protocol lacks, each after a look at the     *)
(* table.  There is no transaction around it.  Several processes may do it *)
(* at once on one file, each may die anywhere and is started again; a      *)
(* statement that fails ends the process (log.Fatalf).                     *)
(***************************************************************************)
EXTENDS Naturals, Sequences

CONSTANTS
    Processes,
    OldSchemas,     \* what the file may hold before the first start
    MaxFaults       \* bound on failed statements and crashes

VARIABLES
    schema,     \* the tables and columns there are, as pairs
    at,         \* the statement each process comes to next
    faults      \* failures so far

mvars == <<schema, at, faults>>

-----------------------------------------------------------------------------
\* The tables, in the order in which they are created, and the columns that
\* were added later, in the order of cols.  "id" stands for all other columns.
Tables == <<"users", "refresh_tokens", "bookmarks", "collections",
            "activities", "notifications">>

SyncColumns == <<<<"bookmarks", "rev">>, <<"bookmarks", "deleted_at">>,
                 <<"collections", "rev">>, <<"collections", "deleted_at">>>>

SyncColumnsOf(t) == {SyncColumns[i] : i \in {j \in 1..4 : SyncColumns[j][1] = t}}

NewTable(t) == {<<t, "id">>} \cup SyncColumnsOf(t)

Complete == UNION {NewTable(Tables[i]) : i \in 1..6}

ASSUME OldSchemasAssumption ==
    /\ MaxFaults \in Nat
    /\ \A old \in OldSchemas :
          /\ old \subseteq Complete
          /\ \A c \in old : <<c[1], "id">> \in old

\* Statements 1 to 6 create; 7, 9, 11, 13 look for a column, and the one after
\* each adds it; a process at 15 serves, one at 0 is down.
Serving == 15
Column(k) == SyncColumns[(k - 5) \div 2]

Goto(p, k) == at' = [at EXCEPT ![p] = k]

\* Mutant: one look per table.
FoundByTable(k) == <<Column(k)[1], "rev">> \in schema

\* columnExists
Found(k) == Column(k) \in schema

MInit ==
    /\ schema \in OldSchemas
    /\ at = [p \in Processes |-> 0]
    /\ faults = 0

Start(p) == at[p] = 0 /\ Goto(p, 1) /\ UNCHANGED <<schema, faults>>

\* CREATE TABLE IF NOT EXISTS
CreateTable(p) ==
    /\ at[p] \in 1..6
    /\ LET t == Tables[at[p]]
       IN  schema' = IF <<t, "id">> \in schema THEN schema
                     ELSE schema \cup NewTable(t)
    /\ Goto(p, at[p] + 1)
    /\ UNCHANGED faults

\* Mutant: the ALTER is not guarded.
DontLook(p) ==
    /\ at[p] \in {7, 9, 11, 13}
    /\ Goto(p, at[p] + 1)
    /\ UNCHANGED <<schema, faults>>

\* PRAGMA table_info, a statement of its own
LookForColumn(p) ==
    /\ at[p] \in {7, 9, 11, 13}
    /\ Goto(p, IF Found(at[p]) THEN at[p] + 2 ELSE at[p] + 1)
    /\ UNCHANGED <<schema, faults>>

\* ALTER TABLE ... ADD COLUMN; it fails if the column is there by now.
AddColumn(p) ==
    /\ at[p] \in {8, 10, 12, 14}
    /\ schema' = schema \cup {Column(at[p] - 1)}
    /\ Goto(p, IF Found(at[p] - 1) THEN 0 ELSE at[p] + 1)
    /\ UNCHANGED faults

\* A statement fails, ListenAndServe does, or the process is killed.
Die(p) ==
    /\ faults < MaxFaults
    /\ faults' = faults + 1
    /\ at[p] # 0
    /\ Goto(p, 0)
    /\ UNCHANGED schema

Proceed(p) == Start(p) \/ CreateTable(p) \/ LookForColumn(p) \/ AddColumn(p)

MNext == \E p \in Processes : Proceed(p) \/ Die(p)

\* A process runs, and whoever operates it starts it again.
MFairness == \A p \in Processes : WF_mvars(Proceed(p))

MSpec == MInit /\ [][MNext]_mvars

MFairSpec == MSpec /\ MFairness

-----------------------------------------------------------------------------
(***************************************************************************)
(* A process serves only a complete schema: after any sequence of deaths   *)
(* between two statements, by it or by others that migrate the same file,  *)
(* every statement of the repositories finds its tables and columns.       *)
(***************************************************************************)
ServesCompleteSchema ==
    \A p \in Processes : at[p] = Serving => schema = Complete

(***************************************************************************)
(* Every process comes to serve in the end.  Two that migrate one file     *)
(* may make each other fail on a column that the other added first; since  *)
(* a column is added once, and the next attempt finds it, this ends.       *)
(***************************************************************************)
AllServe == <>[](\A p \in Processes : at[p] = Serving)
=============================================================================
