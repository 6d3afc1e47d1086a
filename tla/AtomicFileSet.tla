--------------------------- MODULE AtomicFileSet ---------------------------
(***************************************************************************)
(* What a client of a file-set job may rely on: the files of the manifest  *)
(* are replaced and removed all at once or not at all, and the outcome it  *)
(* is told is the one that happened.  FileTransaction implements this.     *)
(***************************************************************************)
CONSTANTS
    File,   \* the files of the manifest
    New     \* what the manifest makes of each of them

VARIABLES
    files,    \* the content of each file
    before,   \* the content when the job was prepared
    outcome   \* what was last reported

vars == <<files, before, outcome>>

Init ==
    /\ files \in [File -> {"old", "absent"}] /\ before = files
    /\ outcome = "none"

\* A new job is begun: what was reported of the last one is forgotten.
Begin == outcome' = "none" /\ UNCHANGED <<files, before>>

\* The job remembers what it found.
Prepare == outcome = "none" /\ before' = files /\ UNCHANGED <<files, outcome>>

\* The one step that changes files changes all of them.
Commit ==
    /\ outcome = "none" /\ files = before
    /\ files' = New
    /\ UNCHANGED <<before, outcome>>

\* An outcome is reported; a failed job may turn out as rolled back later.
ReportCommitted ==
    /\ outcome = "none" /\ files = New
    /\ outcome' = "committed" /\ UNCHANGED <<files, before>>

ReportRolledBack ==
    /\ outcome \in {"none", "failed"} /\ files = before
    /\ outcome' = "rolledBack" /\ UNCHANGED <<files, before>>

ReportFailed ==
    /\ outcome = "none" /\ files = before
    /\ outcome' = "failed" /\ UNCHANGED <<files, before>>

Next ==
    \/ Begin \/ Prepare \/ Commit
    \/ ReportCommitted \/ ReportRolledBack \/ ReportFailed

Spec == Init /\ [][Next]_vars
=============================================================================
