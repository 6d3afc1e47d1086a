------------------------- MODULE RegistrationStore -------------------------
(***************************************************************************)
(* The registry of roots (src/src/roots.rs) and, in the same form, that of *)
(* registry scopes (src/src/registry_scopes.rs): register, unregister, the *)
(* save that each of them makes, and the load when the service starts.     *)
(*                                                                         *)
(* The file protocol resembles ProtectedFile but is its own: a save does   *)
(* not mind leftovers, and loading looks only at whether the path exists.  *)
(***************************************************************************)
EXTENDS ProtectedFile, FiniteSets, Naturals

CONSTANTS
    Id,          \* the IDs that may be registered
    MaxEntries   \* MAX_REGISTERED_ROOTS, MAX_REGISTERED_REGISTRY_SCOPES

ASSUME StoreOK ==
    /\ MaxEntries \in Nat
    /\ \A registry \in SUBSET Id : registry \notin {Absent, Torn}

VARIABLES
    file,      \* the registry file with its .new and .bak
    entries,   \* the registry in memory
    saving,    \* the registry that is being saved
    pc,        \* "down", "serving", or "saving" during a request
    expected,  \* bookkeeping: the registries a restart may find
    blind      \* bookkeeping: the start found only a backup, nothing saved since

vars == <<file, entries, saving, pc, expected, blind>>

Init ==
    /\ file = NoFile /\ entries = {} /\ saving = {}
    /\ pc = "serving" /\ expected = {{}} /\ blind = FALSE

\* A request changes a copy of the registry and saves it.
StartSave(registry) ==
    /\ saving' = registry
    /\ pc' = "saving" /\ expected' = expected \cup {registry}
    /\ UNCHANGED <<file, entries, blind>>

\* Mutant: the bound is checked after the entry was added.
RegisterOneMore(id) ==
    /\ pc = "serving" /\ id \notin entries /\ Cardinality(entries) <= MaxEntries
    /\ StartSave(entries \cup {id})

\* RegisterRoot, RegisterRegistryScope.
Register(id) ==
    /\ pc = "serving" /\ id \notin entries /\ Cardinality(entries) < MaxEntries
    /\ StartSave(entries \cup {id})

\* A scope, unlike a root, may be registered again with the same policy.
RegisterAgain(id) ==
    /\ pc = "serving" /\ id \in entries
    /\ StartSave(entries)

Unregister(id) ==
    /\ pc = "serving" /\ id \in entries
    /\ StartSave(entries \ {id})

-----------------------------------------------------------------------------
(* RootRegistry::save, RegistryScopeRegistry::save *)

\* The new document is complete, or partly written, next to the others.
WrittenNext(f, doc) == PartlyWritten(f) \cup {Written(f, doc)}

\* A stale backup makes place when there is a current file to back up.
BackupRemoved(f, doc) ==
    IF f.path # Absent THEN {[f EXCEPT !.new = doc, !.bak = Absent]} ELSE {}

\* Nothing is at the path until the second rename, nor after it when both that
\* rename and the one back fail.
BackedUp(f, doc) == IF f.path # Absent THEN Displaced(f, doc) ELSE Written(f, doc)

\* The second rename failed, and whatever backup there is was renamed back.
RenamedBack(f, doc) ==
    LET g == BackedUp(f, doc)
    IN  IF g.bak # Absent THEN {[g EXCEPT !.path = g.bak, !.bak = Absent]} ELSE {}

InPlace(f, doc) == [BackedUp(f, doc) EXCEPT !.path = doc, !.new = Absent]

SaveErrors(f, doc) ==
    {f, BackedUp(f, doc), InPlace(f, doc), Replaced(doc)} \cup WrittenNext(f, doc)
        \cup BackupRemoved(f, doc) \cup RenamedBack(f, doc)

\* Mutant: the new document is not renamed to the path.
SaveWithoutRename ==
    /\ pc = "saving"
    /\ file' = Written(file, saving)
    /\ entries' = saving /\ expected' = {saving} /\ blind' = FALSE
    /\ pc' = "serving"
    /\ UNCHANGED saving

Save ==
    /\ pc = "saving"
    /\ file' = Replaced(saving)
    /\ entries' = saving /\ expected' = {saving} /\ blind' = FALSE
    /\ pc' = "serving"
    /\ UNCHANGED saving

\* An error leaves the registry in memory as it was.
SaveFails ==
    /\ pc = "saving"
    /\ file' \in SaveErrors(file, saving)
    /\ pc' = "serving"
    /\ UNCHANGED <<entries, saving, expected, blind>>

-----------------------------------------------------------------------------
\* recover_service_state: a missing file is an empty registry; its backup, which
\* RootRegistry::load would read, is not looked at.
Stored(f) == IF f.path = Absent THEN {} ELSE f.path

Load ==
    /\ pc = "down" /\ file.path # Torn
    /\ entries' = Stored(file)
    /\ pc' = "serving" /\ blind' = (file.path = Absent /\ file.bak # Absent)
    /\ UNCHANGED <<file, saving, expected>>

Crash ==
    /\ pc # "down"
    /\ pc' = "down" /\ entries' = {}
    /\ file' \in IF pc = "saving" THEN SaveErrors(file, saving) ELSE {file}
    /\ UNCHANGED <<saving, expected, blind>>

Next ==
    \/ \E id \in Id : Register(id) \/ RegisterAgain(id) \/ Unregister(id)
    \/ Save \/ SaveFails \/ Load \/ Crash

Spec == Init /\ [][Next]_vars

-----------------------------------------------------------------------------
\* The files hold registries, and the one in memory never outgrows its bound.
TypeOK ==
    /\ file \in FileOf(SUBSET Id)
    /\ entries \subseteq Id /\ saving \subseteq Id /\ expected \subseteq SUBSET Id
    /\ blind \in BOOLEAN
    /\ pc \in {"down", "serving", "saving"}
    /\ Cardinality(entries) <= MaxEntries

\* What the service works with is the registry that was acknowledged last, or one
\* whose save was interrupted or failed since then, with one exception: after a
\* save cut short between its renames (or whose two renames failed) it may have
\* started with no registrations and the backup unread.  One of those registries
\* is always on disk, there at least as that backup (RootRegistry::save,
\* RootRegistry::load, recover_service_state).
RegistrationKept ==
    /\ pc = "serving" => entries \in expected \/ (blind /\ entries = {})
    /\ {} \in expected \/ {file.path, file.bak} \cap expected # {}

=============================================================================
