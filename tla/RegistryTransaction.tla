------------------------ MODULE RegistryTransaction ------------------------
(***************************************************************************)
(* ApplyRegistrySet of src/src/windows.rs: the values of one registered    *)
(* registry scope are set as one transaction.  The old values are written  *)
(* to a journal first, the accepted generation is saved after the values   *)
(* were set, and the journal is marked committed and removed at the end.   *)
(* Both the journal and the saved generations are protected files.         *)
(*                                                                         *)
(* The service thread does all of it; a call may fail, the service may     *)
(* crash anywhere, and it recovers when it is started again.               *)
(***************************************************************************)
EXTENDS ProtectedFile, Naturals

CONSTANTS
    Name,            \* the values of the scope
    MaxGeneration,   \* bound: generations of the signed registry sets
    SetsAfterDamage, \* bound: whether the model goes on with sets after damage
    MayUnregister    \* whether the scope may be unregistered

Content == 0..MaxGeneration
NoRecord == [generation |-> 0, digest |-> {}]
\* A digest stands for what the manifest sets: the names of its values.
Manifest == [generation : 1..MaxGeneration, digest : SUBSET Name \ {{}}]
Record == Manifest \cup {NoRecord}
\* The journal has its phase, and the values it sets as they were before.
Snapshot == UNION {[names -> Content] : names \in SUBSET Name}
JournalDoc == [phase : {"prepared", "committed"}, previous : Snapshot]

ASSUME RegistryOK ==
    /\ MaxGeneration \in Nat
    /\ SetsAfterDamage \in BOOLEAN /\ MayUnregister \in BOOLEAN
    /\ \A document \in JournalDoc \cup Record : document \notin {Absent, Torn}

VARIABLES
    \* persistent
    values,    \* every value: the generation that wrote it, or 0 if absent
    journal,   \* registry-transaction-v1.json
    saved,     \* registry-generations-v1.json
    scope,     \* whether the scope is registered
    \* the service thread
    pc,        \* the next step of the code
    manifest,  \* the registry set that is applied
    snapshot,  \* the values of the journal: those the manifest sets, before
    left,      \* the values still to be set or restored
    cause,     \* why values are being restored
    complete,  \* no part of the rollback has failed so far
    accepted,  \* registry_generations
    before,    \* previous_generations
    \* bookkeeping of the model
    base,      \* all values before the last set
    told,      \* the last answer to an ApplyRegistrySet
    acked,     \* the last generation that was answered as committed
    damaged    \* the journal does not tell the values before the last set

disk == <<values, journal, saved, scope>>
task == <<manifest, snapshot, left, cause, complete>>
memory == <<accepted, before>>
ghosts == <<base, told, acked, damaged>>
vars == <<disk, pc, task, memory, ghosts>>

Doc(phase) == [phase |-> phase, previous |-> snapshot]

Init ==
    /\ values \in [Name -> {0}]
    /\ journal = NoFile /\ saved = NoFile /\ scope = TRUE
    /\ pc = "serving" /\ manifest = NoRecord /\ snapshot = << >> /\ left = {}
    /\ cause = "set" /\ complete = TRUE
    /\ accepted = NoRecord /\ before = NoRecord
    /\ base = values /\ told = "none" /\ acked = 0 /\ damaged = FALSE

\* The locals of the transaction or of its recovery are dropped.
DropLocals ==
    snapshot' = << >> /\ left' = {} /\ cause' = "set" /\ complete' = TRUE /\ before' = NoRecord

Answer(outcome) == pc' = "serving" /\ told' = outcome /\ DropLocals

\* The values from before the set are lost, or will be taken for committed ones.
Damage == damaged' = TRUE /\ base' = [n \in Name |-> 0]

-----------------------------------------------------------------------------
(* process_request and apply_registry_set_transaction *)

\* The generation check of verify_registry_set.
IsAccepted(m) == m.generation > accepted.generation \/ m = accepted

\* There is a journal that recovery would still roll back.
Unfinished ==
    LET found == Recovered(journal).path
    IN  found \notin {Absent, Torn} /\ found.phase = "prepared"

\* The set is verified and the current values are snapshotted.  With no journal
\* left, they are what this set starts from, whatever was damaged before.
CreateRegistryTransaction(m) ==
    /\ pc = "serving" /\ scope /\ IsAccepted(m)
    /\ damaged => SetsAfterDamage
    /\ manifest' = m
    /\ snapshot' = [n \in m.digest |-> values[n]]
    /\ left' = m.digest /\ complete' = TRUE
    /\ base' = values
    /\ damaged' = (Unfinished /\ (damaged \/ values # base))
    /\ told' = "none"
    /\ pc' = "journal"
    /\ UNCHANGED <<disk, cause, memory, acked>>

\* Mutant: the values are set before the journal is written.
ApplyWithoutJournal ==
    /\ pc = "journal" /\ ~IsStale(journal)
    /\ pc' = "apply"
    /\ UNCHANGED <<disk, task, memory, ghosts>>

WriteRegistryTransaction ==
    /\ pc = "journal" /\ ~IsStale(journal)
    /\ journal' = Replaced(Doc("prepared"))
    /\ pc' = "apply"
    /\ UNCHANGED <<values, saved, scope, task, memory, ghosts>>

WriteRegistryTransactionFails ==
    /\ pc = "journal"
    /\ journal' \in ReplaceErrors(journal, Doc("prepared"))
    /\ Answer("error")
    /\ UNCHANGED <<values, saved, scope, manifest, accepted, base, acked, damaged>>

SetRegistryValue(n) ==
    /\ pc = "apply" /\ n \in left
    /\ values' = [values EXCEPT ![n] = manifest.generation]
    /\ left' = left \ {n}
    /\ UNCHANGED <<journal, saved, scope, pc, manifest, snapshot, cause, complete,
                   memory, ghosts>>

StartUndo(c) == pc' = "undo" /\ left' = DOMAIN snapshot /\ cause' = c

\* Mutant: a value that cannot be set ends the transaction.
LeaveValuesSet ==
    /\ pc = "apply" /\ left # {}
    /\ journal' = [journal EXCEPT !.path = Absent]
    /\ Answer("error")
    /\ UNCHANGED <<values, saved, scope, manifest, accepted, base, acked, damaged>>

SetRegistryValueFails ==
    /\ pc = "apply" /\ left # {}
    /\ StartUndo("set")
    /\ UNCHANGED <<disk, manifest, snapshot, complete, memory, ghosts>>

ValuesSet == pc = "apply" /\ left = {}

\* Mutant: the accepted generation is not saved.
AcceptInMemory ==
    /\ ValuesSet
    /\ before' = accepted /\ accepted' = manifest
    /\ pc' = "mark"
    /\ UNCHANGED <<disk, task, ghosts>>

\* GenerationRegistry::accept and save.
AcceptGeneration ==
    /\ ValuesSet /\ ~IsStale(saved)
    /\ saved' = Replaced(manifest)
    /\ before' = accepted /\ accepted' = manifest
    /\ pc' = "mark"
    /\ UNCHANGED <<values, journal, scope, task, ghosts>>

AcceptGenerationFails ==
    /\ ValuesSet
    /\ saved' \in ReplaceErrors(saved, manifest)
    /\ before' = accepted
    /\ pc' = "save_back"
    /\ UNCHANGED <<values, journal, scope, task, accepted, ghosts>>

MarkCommitted ==
    /\ pc = "mark" /\ ~IsStale(journal)
    /\ journal' = Replaced(Doc("committed"))
    /\ pc' = "remove"
    /\ UNCHANGED <<values, saved, scope, task, memory, ghosts>>

\* A marker whose write failed may be found by recovery all the same.
MarkCommittedFails ==
    /\ pc = "mark"
    /\ journal' \in ReplaceErrors(journal, Doc("committed"))
    /\ IF Recovered(journal').path = Doc("committed")
       THEN Damage ELSE UNCHANGED <<base, damaged>>
    /\ accepted' = before
    /\ pc' = "save_back"
    /\ UNCHANGED <<values, saved, scope, task, before, told, acked>>

\* remove_registry_transaction: nothing to do when the journal is not there.
Removed(f) == [f EXCEPT !.path = Absent]

RemoveCommitted ==
    /\ pc = "remove"
    /\ journal' = Removed(journal)
    /\ Answer("ok") /\ acked' = manifest.generation
    /\ UNCHANGED <<values, saved, scope, manifest, accepted, base, damaged>>

RemoveCommittedFails ==
    /\ pc = "remove"
    /\ Answer("incomplete")
    /\ UNCHANGED <<disk, manifest, accepted, base, acked, damaged>>

-----------------------------------------------------------------------------
(* Rollback *)

SaveBack ==
    /\ pc = "save_back" /\ ~IsStale(saved)
    /\ saved' = Replaced(before)
    /\ StartUndo("generation")
    /\ UNCHANGED <<values, journal, scope, manifest, snapshot, complete, memory, ghosts>>

SaveBackFails ==
    /\ pc = "save_back"
    /\ saved' \in ReplaceErrors(saved, before)
    /\ StartUndo("generation") /\ complete' = FALSE
    /\ UNCHANGED <<values, journal, scope, manifest, snapshot, memory, ghosts>>

RestoreRegistryValue(n) ==
    /\ pc \in {"undo", "recover_undo"} /\ n \in left
    /\ values' = [values EXCEPT ![n] = snapshot[n]]
    /\ left' = left \ {n}
    /\ UNCHANGED <<journal, saved, scope, pc, manifest, snapshot, cause, complete,
                   memory, ghosts>>

\* After a failed registry value the journal is kept for recovery ...
RestoreFailsAfterSet ==
    /\ pc = "undo" /\ cause = "set" /\ left # {}
    /\ Answer("incomplete")
    /\ UNCHANGED <<disk, manifest, accepted, base, acked, damaged>>

\* ... after a failed generation it is removed all the same.
RestoreFailsAfterGeneration ==
    /\ pc = "undo" /\ cause = "generation" /\ left # {}
    /\ left' = {} /\ complete' = FALSE /\ Damage
    /\ UNCHANGED <<disk, pc, manifest, snapshot, cause, memory, told, acked>>

RemoveAfterUndo ==
    /\ pc = "undo" /\ left = {}
    /\ journal' = Removed(journal)
    /\ Answer(IF complete THEN "error" ELSE "incomplete")
    /\ UNCHANGED <<values, saved, scope, manifest, accepted, base, acked, damaged>>

RemoveAfterUndoFails ==
    /\ pc = "undo" /\ left = {}
    /\ Answer("incomplete")
    /\ UNCHANGED <<disk, manifest, accepted, base, acked, damaged>>

-----------------------------------------------------------------------------
(* recover_service_state: registry_generations, then the journal *)

StartupFails == pc' = "down" /\ DropLocals /\ accepted' = NoRecord

\* The file is, or recovery makes it, a complete document or absent.
Readable(f) == ~IsAmbiguous(f) /\ Recovered(f).path # Torn

Stored(f) == IF f.path = Absent THEN NoRecord ELSE f.path

LoadGenerations ==
    /\ pc = "down" /\ Readable(saved)
    /\ saved' = Recovered(saved)
    /\ accepted' = Stored(saved')
    /\ pc' = "recover"
    /\ UNCHANGED <<values, journal, scope, task, before, ghosts>>

\* The file that recover_service_file_replacement leaves is no registry.
LoadGenerationsRefused ==
    /\ pc = "down" /\ ~Readable(saved)
    /\ saved' = IF IsAmbiguous(saved) THEN saved ELSE Recovered(saved)
    /\ StartupFails
    /\ UNCHANGED <<values, journal, scope, manifest, ghosts>>

NothingToRecover ==
    /\ pc = "recover" /\ Readable(journal) /\ Recovered(journal).path = Absent
    /\ journal' = Recovered(journal)
    /\ pc' = "serving"
    /\ UNCHANGED <<values, saved, scope, task, memory, ghosts>>

\* Mutant: the values of a transaction without marker are taken as they are.
RecoverNothingPrepared ==
    /\ pc = "recover" /\ Readable(journal) /\ Recovered(journal).path # Absent /\ scope
    /\ journal' = Recovered(journal)
    /\ snapshot' = journal'.path.previous
    /\ left' = {} /\ pc' = "recover_undo"
    /\ UNCHANGED <<values, saved, scope, manifest, cause, complete, memory, ghosts>>

\* Mutant: the commit marker is not expected by the recovery.
RecoverOnlyPrepared ==
    /\ pc = "recover" /\ Readable(journal) /\ Unfinished /\ scope
    /\ journal' = Recovered(journal)
    /\ snapshot' = journal'.path.previous
    /\ left' = DOMAIN snapshot'
    /\ pc' = "recover_undo"
    /\ UNCHANGED <<values, saved, scope, manifest, cause, complete, memory, ghosts>>

\* Only a prepared transaction is undone; a committed one is just removed.
RecoverRegistryTransaction ==
    /\ pc = "recover" /\ Readable(journal) /\ Recovered(journal).path # Absent /\ scope
    /\ journal' = Recovered(journal)
    /\ snapshot' = journal'.path.previous
    /\ left' = IF journal'.path.phase = "prepared" THEN DOMAIN snapshot' ELSE {}
    /\ pc' = "recover_undo"
    /\ UNCHANGED <<values, saved, scope, manifest, cause, complete, memory, ghosts>>

\* The journal does not parse, or its scope is not registered any more.
RecoverRefused ==
    /\ pc = "recover"
    /\ ~Readable(journal) \/ (Recovered(journal).path # Absent /\ ~scope)
    /\ journal' = IF IsAmbiguous(journal) THEN journal ELSE Recovered(journal)
    /\ StartupFails
    /\ UNCHANGED <<values, saved, scope, manifest, ghosts>>

RestoreFailsInRecovery ==
    /\ pc = "recover_undo" /\ left # {}
    /\ StartupFails
    /\ UNCHANGED <<disk, manifest, ghosts>>

RemoveRecovered ==
    /\ pc = "recover_undo" /\ left = {}
    /\ journal' = Removed(journal)
    /\ pc' = "serving" /\ DropLocals
    /\ UNCHANGED <<values, saved, scope, manifest, accepted, ghosts>>

RemoveRecoveredFails ==
    /\ pc = "recover_undo" /\ left = {}
    /\ StartupFails
    /\ UNCHANGED <<disk, manifest, ghosts>>

-----------------------------------------------------------------------------
\* What an interrupted step leaves of the two files.
InterruptedJournal ==
    CASE pc = "journal" -> ReplaceCrashes(journal, Doc("prepared"))
      [] pc = "mark"    -> ReplaceCrashes(journal, Doc("committed"))
      [] pc = "recover" -> RecoverFailures(journal)
      [] OTHER          -> {journal}

InterruptedSaved ==
    CASE ValuesSet        -> ReplaceCrashes(saved, manifest)
      [] pc = "save_back" -> ReplaceCrashes(saved, before)
      [] pc = "down"      -> RecoverFailures(saved)
      [] OTHER            -> {saved}

\* The service crashes, also while it starts, or a call of its recovery fails.
Crash ==
    /\ pc' = "down" /\ DropLocals
    /\ journal' \in InterruptedJournal /\ saved' \in InterruptedSaved
    /\ accepted' = NoRecord
    /\ UNCHANGED <<values, scope, manifest, ghosts>>

UnregisterScope ==
    /\ MayUnregister /\ pc = "serving" /\ scope
    /\ scope' = FALSE
    /\ UNCHANGED <<values, journal, saved, pc, task, memory, ghosts>>

RegisterScope ==
    /\ pc = "serving" /\ ~scope
    /\ scope' = TRUE
    /\ UNCHANGED <<values, journal, saved, pc, task, memory, ghosts>>

Request ==
    (\E m \in Manifest : CreateRegistryTransaction(m)) \/ UnregisterScope \/ RegisterScope

Step ==
    \/ WriteRegistryTransaction \/ (\E n \in Name : SetRegistryValue(n))
    \/ AcceptGeneration \/ MarkCommitted \/ RemoveCommitted
    \/ SaveBack \/ (\E n \in Name : RestoreRegistryValue(n)) \/ RemoveAfterUndo
    \/ LoadGenerations \/ LoadGenerationsRefused \/ NothingToRecover
    \/ RecoverRegistryTransaction \/ RecoverRefused \/ RemoveRecovered

\* A replacement that finds the leftovers of another one is refused.
Refusal ==
    \/ IsStale(journal) /\ (WriteRegistryTransactionFails \/ MarkCommittedFails)
    \/ IsStale(saved) /\ (AcceptGenerationFails \/ SaveBackFails)

Failure ==
    \/ WriteRegistryTransactionFails \/ SetRegistryValueFails
    \/ AcceptGenerationFails \/ MarkCommittedFails \/ RemoveCommittedFails
    \/ SaveBackFails \/ RestoreFailsAfterSet \/ RestoreFailsAfterGeneration
    \/ RemoveAfterUndoFails \/ RestoreFailsInRecovery \/ RemoveRecoveredFails

Next == Request \/ Step \/ Refusal \/ Failure \/ Crash

Spec == Init /\ [][Next]_vars

\* The service thread runs, and the service is started again.
FairSpec == Spec /\ WF_vars(Step \/ Refusal)

-----------------------------------------------------------------------------
Applied == [n \in Name |-> IF n \in manifest.digest THEN manifest.generation ELSE base[n]]

\* When the service serves and no journal is left to roll back, the values are
\* those from before the last set or those with all of it: never a part of it
\* (apply_registry_set_transaction, recover_registry_transaction).  Nothing is
\* said after damage: values that could not be restored although the journal was
\* then removed, a set on top of values that were not restored yet, or a marker
\* that is found although its write failed.
SetAllOrNothing == ~damaged /\ pc = "serving" /\ ~Unfinished => values \in {base, Applied}

\* A set that was answered as committed stays, also across later crashes and
\* recoveries; one that was answered with a plain error has changed nothing.
\* Damage is excepted, as above.
AnswerTruthful ==
    ~damaged => /\ told = "ok" => values = Applied
                /\ told = "error" => values = base

\* At every point where a crash may come, before the commit marker, recovery
\* would find the old value of everything that was changed, damage excepted.
UndoAvailable ==
    ~damaged /\ pc \in {"apply", "save_back", "undo", "mark"} =>
        \A f \in InterruptedJournal :
            LET found == Recovered(f).path
            IN  /\ found \notin {Absent, Torn}
                /\ \/ found.phase = "committed" /\ values = Applied
                   \/ \A n \in Name : values[n] # base[n] =>
                          n \in DOMAIN found.previous /\ found.previous[n] = base[n]

\* A generation that was answered as committed is never forgotten, so an older
\* set is refused also after later failed sets and restarts.
GenerationKept == pc = "serving" => accepted.generation >= acked

\* "protected replacement state is ambiguous" (recover_service_file_replacement)
\* is never met: no sequence of failures and crashes leaves all three files.
NeverAmbiguous == ~IsAmbiguous(journal) /\ ~IsAmbiguous(saved)

\* Once calls stop failing, the service can be started again, if the scope of the
\* journal is registered and both files can be read (recover_service_state).
RegistryRecoveryCompletes ==
    /\ <>[][Step \/ Refusal]_vars
    /\ <>[](scope /\ Readable(journal) /\ Readable(saved))
    => (pc = "down" ~> pc = "serving")
=============================================================================
