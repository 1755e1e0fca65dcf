------------------------------- MODULE Server -------------------------------
(***************************************************************************)
(* Processes of the server over one working directory, which holds the     *)
(* database file and the uploads: each migrates before it serves, and one  *)
(* that dies takes its uploads under way with it.                          *)
(***************************************************************************)
EXTENDS Migration, Uploads

CONSTANT Host(_)    \* the process that serves an upload slot

ASSUME HostAssumption == \A u \in Uploads : Host(u) \in Processes

vars == <<mvars, uvars>>

-----------------------------------------------------------------------------
Init == MInit /\ UInit

Boot(p) == Proceed(p) /\ UNCHANGED uvars

Kill(p) == Die(p) /\ DropUploads({u \in Uploads : Host(u) = p})

Serve(u) == at[Host(u)] = Serving /\ UploadStep(u) /\ UNCHANGED mvars

Next ==
    \/ \E p \in Processes : Boot(p) \/ Kill(p)
    \/ \E u \in Uploads : Serve(u)

\* A process runs, and whoever operates it starts it again.
Fairness == \A p \in Processes : WF_vars(Boot(p))

Spec == Init /\ [][Next]_vars

FairSpec == Spec /\ Fairness
=============================================================================
