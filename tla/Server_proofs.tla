---------------------------- MODULE Server_proofs ----------------------------
(***************************************************************************)
(* Theorems of Server and of the two modules it composes: no process       *)
(* serves an incomplete schema, and answered URLs keep their files, for    *)
(* any number of processes, deaths, uploads, files and names.              *)
(***************************************************************************)
EXTENDS Server, TLAPS

\* What follows from where a process stands: the tables and columns before it
\* are there.
Past(p) ==
    /\ at[p] \in 0..15
    /\ \A i \in 1..6 : i < at[p] => <<Tables[i], "id">> \in schema
    /\ \A i \in 1..4 : 6 + 2 * i < at[p] => SyncColumns[i] \in schema

SchemaInv ==
    /\ schema \subseteq Complete
    /\ at \in [Processes -> 0..15]
    /\ \A p \in Processes : Past(p)

\* The complete schema, column by column.
LEMMA CompleteIs ==
    \A c : c \in Complete <=>
        \/ \E i \in 1..6 : c = <<Tables[i], "id">>
        \/ \E i \in 1..4 : c = SyncColumns[i]
<1>1. \A i \in 1..4 : \E j \in 1..6 : SyncColumns[i][1] = Tables[j]
  <2>1. SyncColumns[1][1] = Tables[3] /\ SyncColumns[2][1] = Tables[3]
    BY DEF SyncColumns, Tables
  <2>2. SyncColumns[3][1] = Tables[4] /\ SyncColumns[4][1] = Tables[4]
    BY DEF SyncColumns, Tables
  <2> QED BY <2>1, <2>2
<1>2. \A i \in 1..4 : SyncColumns[i] \in SyncColumnsOf(SyncColumns[i][1])
  BY DEF SyncColumnsOf
<1> QED BY <1>1, <1>2 DEF Complete, NewTable, SyncColumnsOf

\* The four ALTER statements and the columns they add.
LEMMA Columns ==
    /\ \A k \in {7, 9, 11, 13} : \E i \in 1..4 :
          k = 5 + 2 * i /\ Column(k) = SyncColumns[i]
<1>1. (7 - 5) \div 2 = 1 /\ (9 - 5) \div 2 = 2
  OBVIOUS
<1>2. (11 - 5) \div 2 = 3 /\ (13 - 5) \div 2 = 4
  OBVIOUS
<1> QED BY <1>1, <1>2 DEF Column

LEMMA SchemaInit == ASSUME MInit PROVE SchemaInv
BY OldSchemasAssumption DEF MInit, SchemaInv, Past

\* Nothing is ever dropped from the schema, so only the process that moves
\* has something new to show.
LEMMA SchemaStep ==
    ASSUME SchemaInv, NEW p \in Processes, NEW k \in 0..15,
           Goto(p, k),
           schema \subseteq schema', schema' \subseteq Complete,
           \A i \in 1..6 : i < k => <<Tables[i], "id">> \in schema',
           \A i \in 1..4 : 6 + 2 * i < k => SyncColumns[i] \in schema'
    PROVE  SchemaInv'
<1>1. at' \in [Processes -> 0..15]
  BY DEF SchemaInv, Goto
<1>2. ASSUME NEW q \in Processes PROVE Past(q)'
  <2>1. CASE q = p
    <3>1. at'[q] = k
      BY <2>1 DEF SchemaInv, Goto
    <3> QED BY <3>1 DEF Past
  <2>2. CASE q # p
    <3>1. at'[q] = at[q] /\ Past(q)
      BY <2>2 DEF SchemaInv, Goto
    <3> QED BY <3>1 DEF Past
  <2> QED BY <2>1, <2>2
<1> QED BY <1>1, <1>2 DEF SchemaInv

LEMMA SchemaNext == ASSUME SchemaInv, [Next]_vars PROVE SchemaInv'
<1>0. schema \subseteq Complete /\ \A p \in Processes : Past(p)
  BY DEF SchemaInv
<1>2. ASSUME NEW p \in Processes, Start(p) PROVE SchemaInv'
  <2>1. Goto(p, 1) /\ schema' = schema
    BY <1>2 DEF Start
  <2> QED BY <1>0, SchemaStep, <2>1
<1>3. ASSUME NEW p \in Processes, CreateTable(p) PROVE SchemaInv'
  <2>1. PICK k \in 1..6 : at[p] = k /\ Goto(p, k + 1)
    BY <1>3 DEF CreateTable
  <2>2. schema \subseteq schema' /\ <<Tables[k], "id">> \in schema'
    BY <1>3, <2>1 DEF CreateTable, NewTable
  <2>3. schema' \subseteq Complete
    BY <1>0, <1>3, <2>1 DEF CreateTable, Complete
  <2>4. \A i \in 1..6 : i < k + 1 => <<Tables[i], "id">> \in schema'
    BY <1>0, <2>1, <2>2 DEF Past
  <2> QED BY <1>0, SchemaStep, <2>1, <2>2, <2>3, <2>4
<1>4. ASSUME NEW p \in Processes, LookForColumn(p) PROVE SchemaInv'
  <2>1. PICK i \in 1..4 : at[p] = 5 + 2 * i /\ Column(at[p]) = SyncColumns[i]
    BY <1>4, Columns DEF LookForColumn
  <2>2. schema' = schema
    BY <1>4 DEF LookForColumn
  <2>3. CASE Found(at[p])
    <3>1. Goto(p, 7 + 2 * i)
      BY <1>4, <2>1, <2>3 DEF LookForColumn
    <3>2. \A j \in 1..4 : 6 + 2 * j < 7 + 2 * i => SyncColumns[j] \in schema
      BY <2>1, <2>3, <1>0 DEF Past, Found
    <3>3. \A j \in 1..6 : j < 7 + 2 * i => <<Tables[j], "id">> \in schema
      BY <1>0, <2>1 DEF Past
    <3> QED BY <1>0, SchemaStep, <2>2, <3>1, <3>2, <3>3
  <2>4. CASE ~Found(at[p])
    <3>1. Goto(p, 6 + 2 * i)
      BY <1>4, <2>1, <2>4 DEF LookForColumn
    <3>2. /\ \A j \in 1..4 : 6 + 2 * j < 6 + 2 * i => SyncColumns[j] \in schema
          /\ \A j \in 1..6 : j < 6 + 2 * i => <<Tables[j], "id">> \in schema
      BY <1>0, <2>1 DEF Past
    <3> QED BY <1>0, SchemaStep, <2>2, <3>1, <3>2
  <2> QED BY <2>3, <2>4
<1>5. ASSUME NEW p \in Processes, AddColumn(p) PROVE SchemaInv'
  <2>1. PICK i \in 1..4 : at[p] = 6 + 2 * i /\ Column(at[p] - 1) = SyncColumns[i]
    <3>1. at[p] - 1 \in {7, 9, 11, 13}
      BY <1>5 DEF AddColumn
    <3> QED BY <3>1, Columns
  <2>2. schema' = schema \cup {SyncColumns[i]}
    BY <1>5, <2>1 DEF AddColumn
  <2>3. schema \subseteq schema' /\ schema' \subseteq Complete
    BY <1>0, <2>2, CompleteIs
  <2>4. CASE Found(at[p] - 1)
    <3>1. Goto(p, 0)
      BY <1>5, <2>4 DEF AddColumn
    <3> QED BY <1>0, SchemaStep, <2>3, <3>1
  <2>5. CASE ~Found(at[p] - 1)
    <3>1. Goto(p, 7 + 2 * i)
      BY <1>5, <2>1, <2>5 DEF AddColumn
    <3>2. /\ \A j \in 1..4 : 6 + 2 * j < 7 + 2 * i => SyncColumns[j] \in schema'
          /\ \A j \in 1..6 : j < 7 + 2 * i => <<Tables[j], "id">> \in schema'
      BY <1>0, <2>1, <2>2 DEF Past
    <3> QED BY <1>0, SchemaStep, <2>3, <3>1, <3>2
  <2> QED BY <2>4, <2>5
<1>6. ASSUME NEW p \in Processes, Die(p) PROVE SchemaInv'
  <2>1. Goto(p, 0) /\ schema' = schema
    BY <1>6 DEF Die
  <2> QED BY <1>0, SchemaStep, <2>1
<1>7. CASE UNCHANGED mvars
  BY <1>7 DEF mvars, SchemaInv, Past
<1> QED
  BY <1>2, <1>3, <1>4, <1>5, <1>6, <1>7
  DEF Next, Boot, Kill, Serve, Proceed, vars

(***************************************************************************)
(* However many processes migrate one file at once, and wherever they die  *)
(* and start again, one that serves finds every table and column.          *)
(***************************************************************************)
THEOREM SchemaComplete == Spec => []ServesCompleteSchema
<1>1. Init => SchemaInv
  BY SchemaInit DEF Init
<1>2. SchemaInv /\ [Next]_vars => SchemaInv'
  BY SchemaNext
<1>3. SchemaInv => ServesCompleteSchema
  BY CompleteIs DEF SchemaInv, Past, ServesCompleteSchema, Serving
<1> QED BY <1>1, <1>2, <1>3, PTL DEF Spec

-----------------------------------------------------------------------------
Steps == {"idle", "MkdirAll", "Create", "Copy", "respond"}

Statuses == {"none", "ok", "file_too_large", "invalid_body", "invalid_file",
             "server_error"}

Upload == [step : Steps, file : Files \cup {None}, name : Names \cup {None},
           status : Statuses]

\* What the step of an upload tells of its file and name.
Fits(u) ==
    /\ up[u].step = "MkdirAll" => up[u].file \in Files
    /\ up[u].step \in {"Create", "Copy"} => up[u].file \in Files /\ up[u].name \in Names
    /\ up[u].step = "respond" /\ up[u].status = "ok" =>
          /\ up[u].file \in Files /\ up[u].name \in Names
          /\ disk[up[u].name] = up[u].file

\* A name under way belongs to one upload and was told nobody.
Own(u) ==
    /\ \A w \in Uploads : w # u /\ up[u].name # None => up[w].name # up[u].name
    /\ \A t \in told : up[u].name # t.name

UploadInv ==
    /\ disk \in [Names -> Files \cup {None, Partial}]
    /\ up \in [Uploads -> Upload]
    /\ told \subseteq [name : Names, file : Files]
    /\ \A t \in told : disk[t.name] = t.file
    /\ \A u \in Uploads : Fits(u) /\ Own(u)

LEMMA UploadInit == ASSUME UInit PROVE UploadInv
<1>1. \A u \in Uploads : up[u] = NoUpload
  BY DEF UInit
<1>2. \A u \in Uploads : Fits(u) /\ Own(u)
  BY <1>1, FilesAssumption DEF UInit, Fits, Own, NoUpload
<1>3. NoUpload \in Upload
  BY DEF NoUpload, Upload, Steps, Statuses
<1> QED BY <1>2, <1>3 DEF UInit, UploadInv

\* Only upload u moves, and only the file under its name changes.
LEMMA OneMoves ==
    ASSUME UploadInv, NEW u \in Uploads,
           NEW step \in Steps, NEW file \in Files \cup {None},
           NEW name \in Names \cup {None}, NEW status \in Statuses,
           Become(u, step, file, name, status),
           told' = told,
           disk' \in [Names -> Files \cup {None, Partial}],
           \A n \in Names : n # name => disk'[n] = disk[n],
           \/ name = up[u].name
           \/ /\ disk' = disk /\ disk[name] = None
              /\ \A w \in Uploads : up[w].name # name,
           step = "MkdirAll" => file \in Files,
           step \in {"Create", "Copy"} => file \in Files /\ name \in Names,
           step = "respond" /\ status = "ok" =>
               file \in Files /\ name \in Names /\ disk'[name] = file
    PROVE  UploadInv'
<1> DEFINE r == [step |-> step, file |-> file, name |-> name, status |-> status]
<1>1. /\ r \in Upload
      /\ r.step = step /\ r.file = file /\ r.name = name /\ r.status = status
  BY DEF Upload
<1>2. up' = [up EXCEPT ![u] = r]
  BY DEF Become
<1> HIDE DEF r
<1>3. up' \in [Uploads -> Upload] /\ up'[u] = r
      /\ \A w \in Uploads : w # u => up'[w] = up[w]
  BY <1>1, <1>2 DEF UploadInv
<1>4. \A t \in told : t.name \in Names /\ t.file \in Files /\ t.name # name
  <2>1. \A t \in told : t.name \in Names /\ t.file \in Files
                         /\ disk[t.name] = t.file /\ up[u].name # t.name
    BY DEF UploadInv, Own
  <2> QED BY <2>1, FilesAssumption
<1>5. \A t \in told' : disk'[t.name] = t.file
  BY <1>4 DEF UploadInv
<1>6. \A w \in Uploads : w # u /\ name # None => up[w].name # name
  BY DEF UploadInv, Own
<1>7. Fits(u)'
  BY <1>1, <1>3 DEF Fits
<1>8. Own(u)'
  BY <1>1, <1>3, <1>4, <1>6 DEF Own
<1>9. ASSUME NEW w \in Uploads, w # u PROVE Fits(w)' /\ Own(w)'
  <2>1. up'[w] = up[w] /\ Fits(w) /\ Own(w)
    BY <1>3, <1>9 DEF UploadInv
  <2>2. up[w].name \in Names => disk'[up[w].name] = disk[up[w].name]
    BY <1>6, <1>9, FilesAssumption
  <2>3. Fits(w)'
    BY <2>1, <2>2 DEF Fits
  <2>4. \A v \in Uploads : v # w /\ up[w].name # None => up'[v].name # up[w].name
    BY <1>1, <1>3, <1>6, <1>9, <2>1 DEF Own
  <2> QED BY <2>1, <2>3, <2>4 DEF Own
<1> QED BY <1>3, <1>5, <1>7, <1>8, <1>9 DEF UploadInv

LEMMA UploadNext == ASSUME UploadInv, [Next]_vars PROVE UploadInv'
<1>0. /\ disk \in [Names -> Files \cup {None, Partial}]
      /\ \A u \in Uploads : /\ Fits(u) /\ Own(u)
                             /\ up[u].file \in Files \cup {None}
                             /\ up[u].name \in Names \cup {None}
      /\ NoUpload.file = None /\ NoUpload.name = None
  BY DEF UploadInv, Upload, NoUpload
<1>1. ASSUME NEW u \in Uploads, ReceiveUpload(u) PROVE UploadInv'
  <2>0. up[u].file = None /\ up[u].name = None /\ UNCHANGED <<disk, told>>
    BY <1>0, <1>1 DEF ReceiveUpload
  <2>1. ASSUME NEW status \in {"file_too_large", "invalid_body", "invalid_file"},
               AnswerUpload(u, status)
        PROVE  UploadInv'
    <3>1. Become(u, "respond", None, None, status) /\ status # "ok"
      BY <2>0, <2>1 DEF AnswerUpload
    <3> QED BY <1>0, <2>0, <3>1, OneMoves DEF Steps, Statuses
  <2>2. ASSUME NEW f \in Files, Become(u, "MkdirAll", f, None, "none")
        PROVE  UploadInv'
    BY <1>0, <2>0, <2>2, OneMoves DEF Steps, Statuses
  <2> QED BY <1>1, <2>1, <2>2 DEF ReceiveUpload
<1>2. ASSUME NEW u \in Uploads, NameUpload(u) PROVE UploadInv'
  <2>1. PICK n \in FreshNames : Become(u, "Create", up[u].file, n, "none")
    BY <1>2 DEF NameUpload
  <2>2. up[u].file \in Files /\ UNCHANGED <<disk, told>>
    BY <1>0, <1>2 DEF NameUpload, Fits
  <2>3. n \in Names /\ disk[n] = None /\ \A w \in Uploads : up[w].name # n
    BY DEF FreshNames
  <2> QED BY <1>0, <2>1, <2>2, <2>3, OneMoves DEF Steps, Statuses
<1>3. ASSUME NEW u \in Uploads, CreateFile(u) PROVE UploadInv'
  <2>1. /\ Become(u, "Copy", up[u].file, up[u].name, "none") /\ told' = told
        /\ disk' = [disk EXCEPT ![up[u].name] = Partial]
        /\ up[u].file \in Files /\ up[u].name \in Names
    BY <1>0, <1>3 DEF CreateFile, Fits
  <2>2. /\ disk' \in [Names -> Files \cup {None, Partial}]
        /\ \A n \in Names : n # up[u].name => disk'[n] = disk[n]
    BY <1>0, <2>1
  <2> QED BY <2>1, <2>2, OneMoves DEF Steps, Statuses
<1>4. ASSUME NEW u \in Uploads, CopyFile(u) PROVE UploadInv'
  <2>1. /\ Become(u, "respond", up[u].file, up[u].name, "ok") /\ told' = told
        /\ disk' = [disk EXCEPT ![up[u].name] = up[u].file]
        /\ up[u].file \in Files /\ up[u].name \in Names
    BY <1>0, <1>4 DEF CopyFile, AnswerUpload, Fits
  <2>2. /\ disk' \in [Names -> Files \cup {None, Partial}]
        /\ disk'[up[u].name] = up[u].file
        /\ \A n \in Names : n # up[u].name => disk'[n] = disk[n]
    BY <1>0, <2>1
  <2> QED BY <2>1, <2>2, OneMoves DEF Steps, Statuses
<1>5. ASSUME NEW u \in Uploads, FailUpload(u) PROVE UploadInv'
  <2>1. /\ Become(u, "respond", up[u].file, up[u].name, "server_error")
        /\ UNCHANGED <<disk, told>>
    BY <1>5 DEF FailUpload, AnswerUpload
  <2> QED BY <1>0, <2>1, OneMoves DEF Steps, Statuses
<1>6. ASSUME NEW S \in SUBSET Uploads, DropUploads(S) PROVE UploadInv'
  <2>1. /\ UNCHANGED <<disk, told>> /\ up' \in [Uploads -> Upload]
        /\ \A w \in Uploads : up'[w] \in {NoUpload, up[w]}
    <3>1. NoUpload \in Upload
      BY DEF NoUpload, Upload, Steps, Statuses
    <3> QED BY <1>6, <3>1 DEF DropUploads, UploadInv
  <2>2. \A w \in Uploads : Fits(w)' /\ Own(w)'
    <3>1. NoUpload.step = "idle"
      BY DEF NoUpload
    <3>2. \A t \in told : t.name # None
      BY FilesAssumption DEF UploadInv
    <3> QED BY <1>0, <2>1, <3>1, <3>2 DEF Fits, Own
  <2> QED BY <2>1, <2>2 DEF UploadInv
<1>7. ASSUME NEW u \in Uploads, RespondUpload(u) PROVE UploadInv'
  <2> DEFINE t == [name |-> up[u].name, file |-> up[u].file]
  <2>1. up' = [up EXCEPT ![u] = NoUpload] /\ disk' = disk /\ up[u].step = "respond"
        /\ told' = IF up[u].status = "ok" THEN told \cup {t} ELSE told
    BY <1>7 DEF RespondUpload
  <2>2. t.name = up[u].name /\ t.file = up[u].file
        /\ (t.name \in Names /\ t.file \in Files => t \in [name : Names, file : Files])
    OBVIOUS
  <2> HIDE DEF t
  <2>3. up' \in [Uploads -> Upload] /\ up'[u] = NoUpload
        /\ \A w \in Uploads : w # u => up'[w] = up[w]
    <3>1. NoUpload \in Upload
      BY DEF NoUpload, Upload, Steps, Statuses
    <3> QED BY <2>1, <3>1 DEF UploadInv
  <2>4. up[u].status = "ok" =>
            t \in [name : Names, file : Files] /\ disk[t.name] = t.file
    BY <1>0, <2>1, <2>2 DEF Fits
  <2>5. /\ told' \subseteq [name : Names, file : Files]
        /\ \A s \in told' : disk'[s.name] = s.file
    BY <2>1, <2>4 DEF UploadInv
  <2>6. \A s \in told' : s.name \in Names /\ s.name # None
    BY <2>5, FilesAssumption
  <2>7. Fits(u)' /\ Own(u)'
    <3>1. NoUpload.step = "idle"
      BY DEF NoUpload
    <3> QED BY <1>0, <2>3, <2>6, <3>1 DEF Fits, Own
  <2>8. ASSUME NEW w \in Uploads, w # u PROVE Fits(w)' /\ Own(w)'
    <3>1. up'[w] = up[w] /\ Fits(w) /\ Own(w) /\ Own(u)
      BY <1>0, <2>3, <2>8
    <3>2. Fits(w)'
      BY <2>1, <3>1 DEF Fits
    <3>3. \A s \in told' : up[w].name # s.name
      BY <2>1, <2>2, <2>6, <2>8, <3>1 DEF Own
    <3>4. \A v \in Uploads : v # w /\ up[w].name # None => up'[v].name # up[w].name
      BY <1>0, <2>3, <3>1 DEF Own
    <3> QED BY <3>1, <3>2, <3>3, <3>4 DEF Own
  <2> QED BY <2>3, <2>1, <2>5, <2>7, <2>8 DEF UploadInv
<1>8. CASE UNCHANGED uvars
  BY <1>0, <1>8 DEF uvars, UploadInv, Fits, Own
<1>9. ASSUME NEW p \in Processes, Kill(p) PROVE UploadInv'
  BY <1>6, <1>9 DEF Kill
<1> QED
  BY <1>1, <1>2, <1>3, <1>4, <1>5, <1>7, <1>8, <1>9
  DEF Next, Boot, Serve, UploadStep, vars

(***************************************************************************)
(* An answered URL serves the whole upload for ever, whatever other        *)
(* uploads do, fail or leave behind, in any number of processes over the   *)
(* directory.                                                              *)
(***************************************************************************)
THEOREM UrlsKept == Spec => []UrlsServeWholeFiles
<1>1. Init => UploadInv
  BY UploadInit DEF Init
<1>2. UploadInv /\ [Next]_vars => UploadInv'
  BY UploadNext
<1>3. UploadInv => UrlsServeWholeFiles
  BY DEF UploadInv, UrlsServeWholeFiles
<1> QED BY <1>1, <1>2, <1>3, PTL DEF Spec
=============================================================================
