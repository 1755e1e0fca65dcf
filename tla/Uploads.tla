------------------------------- MODULE Uploads -------------------------------
(***************************************************************************)
(* Uploads: the body is parsed whole, the file is created under a new      *)
(* name, copied, and its URL answered.  Files are served from the          *)
(* directory as they are at that moment, whether their upload is complete  *)
(* or not, and nothing removes one that was left incomplete.               *)
(***************************************************************************)
CONSTANTS
    Uploads,    \* slots for uploads being served at the same time
    Files,      \* contents
    Names,      \* values of NewID; none is generated twice
    None,       \* no file, no name
    Partial     \* what a file holds before its copy is complete

ASSUME FilesAssumption == None \notin Files \cup Names /\ Partial \notin Files \cup {None}

VARIABLES
    disk,       \* the uploads directory: what each name holds
    up,         \* the uploads under way
    told        \* the URLs that were answered, with what was uploaded

uvars == <<disk, up, told>>

NoUpload == [step |-> "idle", file |-> None, name |-> None, status |-> "none"]

Become(u, step, file, name, status) ==
    up' = [up EXCEPT ![u] =
              [step |-> step, file |-> file, name |-> name, status |-> status]]

AnswerUpload(u, status) == Become(u, "respond", up[u].file, up[u].name, status)

\* Mutant: files are stored under the name the client gave them.
ClientNames == Names

\* NewID
FreshNames ==
    {n \in Names : disk[n] = None /\ \A u \in Uploads : up[u].name # n}

-----------------------------------------------------------------------------
UInit ==
    /\ disk = [n \in Names |-> None]
    /\ up = [u \in Uploads |-> NoUpload]
    /\ told = {}

\* MaxBytesReader and ParseMultipartForm read the whole body first: one that
\* is too large, broken off or without a file never reaches the directory.
ReceiveUpload(u) ==
    /\ up[u] = NoUpload
    /\ \/ \E status \in {"file_too_large", "invalid_body", "invalid_file"} :
             AnswerUpload(u, status)
       \/ \E f \in Files :
             Become(u, "MkdirAll", f, None, "none")
    /\ UNCHANGED <<disk, told>>

\* MkdirAll, and NewID
NameUpload(u) ==
    /\ up[u].step = "MkdirAll"
    /\ \E n \in FreshNames :
          Become(u, "Create", up[u].file, n, "none")
    /\ UNCHANGED <<disk, told>>

\* os.Create makes the file, or empties the one there is.
CreateFile(u) ==
    /\ up[u].step = "Create"
    /\ disk' = [disk EXCEPT ![up[u].name] = Partial]
    /\ Become(u, "Copy", up[u].file, up[u].name, "none")
    /\ UNCHANGED told

\* io.Copy, when it comes to its end
CopyFile(u) ==
    /\ up[u].step = "Copy"
    /\ disk' = [disk EXCEPT ![up[u].name] = up[u].file]
    /\ AnswerUpload(u, "ok")
    /\ UNCHANGED told

\* A step fails: 500, and whatever was written stays.
FailUpload(u) ==
    /\ up[u].step \in {"MkdirAll", "Create", "Copy"}
    /\ AnswerUpload(u, "server_error")
    /\ UNCHANGED <<disk, told>>

RespondUpload(u) ==
    /\ up[u].step = "respond"
    /\ told' = IF up[u].status = "ok"
               THEN told \cup {[name |-> up[u].name, file |-> up[u].file]}
               ELSE told
    /\ up' = [up EXCEPT ![u] = NoUpload]
    /\ UNCHANGED disk

UploadStep(u) ==
    \/ ReceiveUpload(u) \/ NameUpload(u) \/ CreateFile(u)
    \/ CopyFile(u) \/ FailUpload(u) \/ RespondUpload(u)

\* The process that serves the uploads S dies.
DropUploads(S) ==
    /\ up' = [u \in Uploads |-> IF u \in S THEN NoUpload ELSE up[u]]
    /\ UNCHANGED <<disk, told>>

-----------------------------------------------------------------------------
(***************************************************************************)
(* Whoever was answered a URL finds under it what was uploaded, for ever:  *)
(* neither another upload, of this process or another, nor a copy that     *)
(* fails half-way or a process that dies can touch it.                     *)
(***************************************************************************)
UrlsServeWholeFiles == \A t \in told : disk[t.name] = t.file
=============================================================================
