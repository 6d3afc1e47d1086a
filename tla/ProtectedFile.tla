--------------------------- MODULE ProtectedFile ---------------------------
(***************************************************************************)
(* The replacement of a protected service file in src/src/windows.rs:      *)
(* replace_service_file writes the new document next to the current one    *)
(* and swaps them with two renames, recover_service_file_replacement       *)
(* completes or undoes an interrupted replacement when the service starts. *)
(*                                                                         *)
(* A file is what is at its path, at path.new and at path.bak.  Only the   *)
(* service thread touches these files, so a replacement is one step; what  *)
(* a failure or a crash may leave is a set of files.                       *)
(***************************************************************************)

CONSTANTS
    Absent,   \* there is no file
    Torn,     \* a part of a document: it does not parse
    Tears     \* whether an interrupted write may leave one

ASSUME FilesOK == Absent # Torn /\ Tears \in BOOLEAN

FileOf(docs) == [path : docs \cup {Absent, Torn}, new : docs \cup {Absent, Torn},
                 bak : docs \cup {Absent, Torn}]
NoFile == [path |-> Absent, new |-> Absent, bak |-> Absent]

\* Mutant: a leftover backup does not keep a replacement from starting.
NewIsStale(f) == f.new # Absent

\* A replacement refuses to start over the leftovers of another one.
IsStale(f) == f.new # Absent \/ f.bak # Absent

\* The files between the calls of a replacement, and after the last one.
Written(f, doc) == [f EXCEPT !.new = doc]
Displaced(f, doc) == [path |-> Absent, new |-> doc, bak |-> f.path]
Activated(f, doc) == [path |-> doc, new |-> Absent, bak |-> f.path]
Replaced(doc) == [path |-> doc, new |-> Absent, bak |-> Absent]

PartlyWritten(f) == IF Tears THEN {Written(f, Torn)} ELSE {}

\* What a crash during replace_service_file may leave.
ReplaceCrashes(f, doc) ==
    IF IsStale(f) THEN {f}
    ELSE {f, Written(f, doc), Displaced(f, doc), Activated(f, doc), Replaced(doc)}
             \cup PartlyWritten(f)

\* What an error of replace_service_file may leave: the last one is a backup
\* that cannot be removed, after the new document was activated.
ReplaceErrors(f, doc) ==
    IF IsStale(f) THEN {f}
    ELSE {f, Written(f, doc), Displaced(f, doc)} \cup PartlyWritten(f)
             \cup (IF f.path # Absent THEN {Activated(f, doc)} ELSE {})

\* All three files exist: recover_service_file_replacement returns an error.
IsAmbiguous(f) == f.path # Absent /\ f.new # Absent /\ f.bak # Absent

\* A current file wins over the new one, the new file over the backup.
Recovered(f) ==
    CASE f.path # Absent                   -> Replaced(f.path)
      [] f.path = Absent /\ f.new # Absent -> Replaced(f.new)
      [] f.path = Absent /\ f.new = Absent -> Replaced(f.bak)

\* What an error or a crash during the recovery may leave.
RecoverFailures(f) ==
    IF IsAmbiguous(f) THEN {f}
    ELSE {f, Recovered(f)}
             \cup (IF f.path = Absent /\ f.new # Absent
                   THEN {[f EXCEPT !.path = f.new, !.new = Absent]} ELSE {})
=============================================================================
