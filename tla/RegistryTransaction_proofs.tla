---------------------- MODULE RegistryTransaction_proofs ----------------------
(***************************************************************************)
(* The promises of RegistryTransaction, for any set of registry values and *)
(* any number of generations.                                              *)
(***************************************************************************)
EXTENDS RegistryTransaction, ProtectedFile_proofs

\* apply_registry_set_transaction is under way.
Working == {"journal", "apply", "mark", "remove", "save_back", "undo"}
Resting == {"serving", "down", "recover", "recover_undo"}

TypeInv ==
    /\ values \in [Name -> Content] /\ base \in [Name -> Content]
    /\ journal \in FileOf(JournalDoc) /\ saved \in FileOf(Record)
    /\ pc \in Working \cup Resting
    /\ manifest \in Record /\ accepted \in Record /\ before \in Record
    /\ acked \in Content
    /\ pc \in Working => manifest \in Manifest /\ snapshot \in [manifest.digest -> Content]
    /\ pc = "recover_undo" => snapshot \in Snapshot
    /\ pc \in Working \cup {"recover_undo"} => left \subseteq DOMAIN snapshot

\* The saved generation is never older than the one that was acknowledged, nor
\* is the one that a failed set would put back.
GenInv ==
    /\ Found(saved) \in Record => Found(saved).generation >= acked
    /\ Found(saved) = Absent => acked = 0
    /\ pc # "down" => accepted.generation >= acked
    /\ pc \in Working => manifest.generation >= acked
    /\ pc \in {"mark", "save_back"} => before.generation >= acked
    /\ pc \in {"mark", "remove"} => accepted = manifest /\ Found(saved) = manifest

\* The journal at every step of a transaction and of its recovery.
JournalInv ==
    /\ pc \in {"apply", "mark"} => journal = Replaced(Doc("prepared"))
    /\ pc \in {"save_back", "undo"} =>
           /\ journal.path = Doc("prepared") /\ journal.bak = Absent
           /\ journal.new \in {Absent, Torn, Doc("committed")}
    /\ pc = "remove" => journal = Replaced(Doc("committed"))
    /\ pc = "recover_undo" =>
           journal = Replaced(journal.path) /\ journal.path \in JournalDoc
           /\ snapshot = journal.path.previous

\* A journal that recovery would roll back, and the snapshot of the transaction
\* under way, hold the values from before the first unfinished set.
BaseInv ==
    /\ Unfinished => LET old == Found(journal).previous
                     IN  \A n \in DOMAIN old : old[n] = base[n]
    /\ pc \in Working => \A n \in manifest.digest : snapshot[n] = base[n]

\* The values at every step.
ValuesInv ==
    /\ pc = "journal" => values = base /\ left = manifest.digest
    /\ pc = "apply" =>
           \A n \in Name : values[n] = IF n \in manifest.digest \ left
                                       THEN manifest.generation ELSE base[n]
    /\ pc \in {"mark", "remove", "save_back"} => values = Applied
    /\ pc = "undo" => \A n \in Name : values[n] # base[n] => n \in left
    /\ pc = "recover_undo" /\ Unfinished => \A n \in Name : values[n] # base[n] => n \in left
    /\ pc = "recover_undo" /\ ~Unfinished => left = {}
    /\ pc \in {"serving", "down", "recover"} /\ Unfinished =>
           \A n \in Name : values[n] # base[n] => n \in DOMAIN Found(journal).previous
    /\ pc \in Resting /\ ~Unfinished => values \in {base, Applied}

\* What was answered stays true.
ToldInv ==
    /\ pc \in Working => told = "none"
    /\ told = "ok" => values = Applied /\ Found(journal) = Absent
    /\ told = "error" => values = base

FileInv ==
    /\ journal \in FileOf(JournalDoc) /\ saved \in FileOf(Record)
    /\ NeverAmbiguous

\* While nothing is damaged.
Sound == JournalInv /\ BaseInv /\ ValuesInv /\ ToldInv

IInv ==
    /\ TypeInv /\ NeverAmbiguous /\ GenInv
    /\ ~damaged => Sound

-----------------------------------------------------------------------------
(* The journal and the saved generations *)

LEMMA RemovedFile ==
    ASSUME NEW D, NEW f \in FileOf(D)
    PROVE  /\ Removed(f) \in FileOf(D) /\ ~IsAmbiguous(Removed(f))
           /\ Found(Removed(f)) = IF f.new # Absent THEN f.new ELSE f.bak
<1>1. Removed(f) \in FileOf(D)
  BY DEF Removed, FileOf
<1>2. Removed(f).path = Absent /\ Removed(f).new = f.new /\ Removed(f).bak = f.bak
  BY DEF Removed, FileOf
<1> QED BY <1>1, <1>2, FoundIs DEF IsAmbiguous

LEMMA RecoveredFile ==
    ASSUME NEW D, NEW f \in FileOf(D)
    PROVE  Recovered(f) \in FileOf(D) /\ ~IsAmbiguous(Recovered(f))
           /\ Found(Recovered(f)) = Found(f)
  BY FoundIs, FoundType, ReplacedFile

LEMMA RecordIsDocument ==
    ASSUME NEW r \in Record
    PROVE  /\ r \notin {Absent, Torn} /\ r.digest \subseteq Name
           /\ r.generation \in Content /\ r.generation \in Nat
  BY RegistryOK DEF Record, Manifest, NoRecord, Content

LEMMA SnapshotValues ==
    ASSUME NEW old \in Snapshot
    PROVE  /\ DOMAIN old \subseteq Name
           /\ \A n \in DOMAIN old : old[n] \in Content
  BY DEF Snapshot

\* The journal of the transaction under way is a document.
LEMMA DocIsDocument ==
    ASSUME TypeInv, pc \in Working, NEW phase \in {"prepared", "committed"}
    PROVE  /\ Doc(phase) \in JournalDoc /\ Doc(phase) \notin {Absent, Torn}
           /\ Doc(phase).phase = phase /\ Doc(phase).previous = snapshot
<1>1. snapshot \in Snapshot
  <2>1. manifest.digest \in SUBSET Name
    BY DEF TypeInv, Manifest
  <2> QED BY <2>1 DEF TypeInv, Snapshot
<1>2. Doc(phase) \in JournalDoc
  BY <1>1 DEF Doc, JournalDoc
<1> QED BY <1>2, RegistryOK DEF Doc

\* What an interrupted replacement of the journal leaves ...
LEMMA JournalReplaced ==
    ASSUME TypeInv, NeverAmbiguous, pc \in Working,
           NEW phase \in {"prepared", "committed"},
           NEW g \in ReplaceErrors(journal, Doc(phase)) \cup ReplaceCrashes(journal, Doc(phase))
    PROVE  /\ g \in FileOf(JournalDoc) /\ ~IsAmbiguous(g)
           /\ Found(g) \in {Found(journal), Doc(phase), Torn}
           /\ Found(g) = Torn => Found(journal) \in {Absent, Torn}
<1>1. g \in ReplaceCrashes(journal, Doc(phase))
  BY ErrorsAreCrashes
<1> QED BY <1>1, DocIsDocument, ReplaceInterrupted DEF TypeInv, NeverAmbiguous

\* ... and of the saved generation.
LEMMA SavedReplaced ==
    ASSUME TypeInv, NeverAmbiguous, NEW r \in Record,
           NEW g \in ReplaceErrors(saved, r) \cup ReplaceCrashes(saved, r)
    PROVE  /\ g \in FileOf(Record) /\ ~IsAmbiguous(g)
           /\ Found(g) \in {Found(saved), r, Torn}
<1>1. g \in ReplaceCrashes(saved, r)
  BY ErrorsAreCrashes
<1> QED BY <1>1, RecordIsDocument, ReplaceInterrupted DEF TypeInv, NeverAmbiguous

\* What a crash leaves of the journal ...
LEMMA JournalInterrupted ==
    ASSUME TypeInv, NeverAmbiguous, NEW g \in InterruptedJournal
    PROVE  /\ g \in FileOf(JournalDoc) /\ ~IsAmbiguous(g)
           /\ \/ Found(g) = Found(journal)
              \/ pc = "journal" /\ Found(g) \in {Doc("prepared"), Torn}
              \/ pc = "mark" /\ Found(g) = Doc("committed")
              \/ pc = "mark" /\ Found(g) = Torn /\ Found(journal) \in {Absent, Torn}
<1>1. CASE pc = "journal"
  <2>1. g \in ReplaceCrashes(journal, Doc("prepared"))
    BY <1>1 DEF InterruptedJournal
  <2> QED BY <1>1, <2>1, JournalReplaced DEF Working
<1>2. CASE pc = "mark"
  <2>1. g \in ReplaceCrashes(journal, Doc("committed"))
    BY <1>2 DEF InterruptedJournal
  <2> QED BY <1>2, <2>1, JournalReplaced DEF Working
<1>3. CASE pc = "recover"
  <2>1. g \in RecoverFailures(journal)
    BY <1>3 DEF InterruptedJournal
  <2> QED BY <2>1, RecoveryInterrupted DEF TypeInv, NeverAmbiguous
<1>4. CASE pc \notin {"journal", "mark", "recover"}
  <2>1. g = journal
    BY <1>4 DEF InterruptedJournal
  <2> QED BY <2>1 DEF TypeInv, NeverAmbiguous
<1> QED BY <1>1, <1>2, <1>3, <1>4

\* ... and of the saved generation.
LEMMA SavedInterrupted ==
    ASSUME TypeInv, NeverAmbiguous, NEW g \in InterruptedSaved
    PROVE  /\ g \in FileOf(Record) /\ ~IsAmbiguous(g)
           /\ \/ Found(g) \in {Found(saved), Torn}
              \/ pc = "apply" /\ Found(g) = manifest
              \/ pc = "save_back" /\ Found(g) = before
<1>1. CASE ValuesSet
  <2>1. g \in ReplaceCrashes(saved, manifest)
    BY <1>1 DEF InterruptedSaved, ValuesSet
  <2> QED BY <1>1, <2>1, SavedReplaced DEF TypeInv, ValuesSet
<1>2. CASE pc = "save_back"
  <2>1. g \in ReplaceCrashes(saved, before)
    BY <1>2 DEF InterruptedSaved, ValuesSet
  <2> QED BY <1>2, <2>1, SavedReplaced DEF TypeInv
<1>3. CASE pc = "down"
  <2>1. g \in RecoverFailures(saved)
    BY <1>3 DEF InterruptedSaved, ValuesSet
  <2> QED BY <2>1, RecoveryInterrupted DEF TypeInv, NeverAmbiguous
<1>4. CASE ~ValuesSet /\ pc \notin {"save_back", "down"}
  <2>1. g = saved
    BY <1>4 DEF InterruptedSaved
  <2> QED BY <2>1 DEF TypeInv, NeverAmbiguous
<1> QED BY <1>1, <1>2, <1>3, <1>4




\* A commit marker that failed, and will not be found, leaves the journal prepared.
LEMMA MarkFailed ==
    ASSUME TypeInv, pc = "mark", journal = Replaced(Doc("prepared")),
           NEW g \in ReplaceErrors(journal, Doc("committed")), Found(g) # Doc("committed"),
           g \in FileOf(JournalDoc)
    PROVE  g.path = Doc("prepared") /\ g.bak = Absent /\ g.new \in {Absent, Torn, Doc("committed")}
<1>1. Doc("prepared") \in JournalDoc /\ Doc("committed") \in JournalDoc
      /\ Doc("prepared") # Absent /\ Doc("committed") # Absent
  BY DocIsDocument DEF Working
<1>2. ~IsStale(journal) /\ journal.path = Doc("prepared")
  BY DEF Replaced, IsStale
<1>3. g \in ReplaceCrashes(journal, Doc("committed"))
  BY ErrorsAreCrashes
<1>4. \/ g.path = journal.path /\ g.new \in {Absent, Doc("committed"), Torn} /\ g.bak = Absent
      \/ g.path = Absent /\ g.new = Doc("committed") /\ g.bak = journal.path
      \/ g.path = Doc("committed") /\ g.new = Absent /\ g.bak \in {journal.path, Absent}
  BY <1>1, <1>2, <1>3, ReplaceStates DEF TypeInv
<1>5. Found(g) = IF g.path # Absent THEN g.path ELSE IF g.new # Absent THEN g.new ELSE g.bak
  BY FoundIs
<1> QED BY <1>1, <1>2, <1>4, <1>5






-----------------------------------------------------------------------------
(* Steps keep the invariant, conjunct by conjunct *)

\* Both files hold documents, and never all three of a replacement.
LEMMA FileStep == TypeInv /\ NeverAmbiguous /\ [Next]_vars => FileInv'
<1> SUFFICES ASSUME TypeInv, NeverAmbiguous, [Next]_vars PROVE FileInv'
  OBVIOUS
<1> USE DEF TypeInv, NeverAmbiguous, FileInv, Working, Resting, disk, task, memory,
        ghosts, vars
<1>1. ASSUME NEW m \in Manifest, CreateRegistryTransaction(m) PROVE FileInv'
  BY <1>1 DEF CreateRegistryTransaction
<1>2. CASE UnregisterScope
  BY <1>2 DEF UnregisterScope
<1>3. CASE RegisterScope
  BY <1>3 DEF RegisterScope
<1>4. CASE WriteRegistryTransaction
  BY <1>4, DocIsDocument, ReplacedFile DEF WriteRegistryTransaction
<1>5. CASE WriteRegistryTransactionFails
  BY <1>5, JournalReplaced DEF WriteRegistryTransactionFails, Answer, DropLocals
<1>6. ASSUME NEW n \in Name, SetRegistryValue(n) PROVE FileInv'
  BY <1>6 DEF SetRegistryValue
<1>7. CASE SetRegistryValueFails
  BY <1>7 DEF SetRegistryValueFails, StartUndo
<1>8. CASE AcceptGeneration
  BY <1>8, RecordIsDocument, ReplacedFile DEF AcceptGeneration, ValuesSet
<1>9. CASE AcceptGenerationFails
  BY <1>9, SavedReplaced DEF AcceptGenerationFails, ValuesSet
<1>10. CASE MarkCommitted
  BY <1>10, DocIsDocument, ReplacedFile DEF MarkCommitted
<1>11. CASE MarkCommittedFails
  BY <1>11, JournalReplaced DEF MarkCommittedFails
<1>12. CASE RemoveCommitted
  BY <1>12, RemovedFile DEF RemoveCommitted, Answer, DropLocals
<1>13. CASE RemoveCommittedFails
  BY <1>13 DEF RemoveCommittedFails, Answer, DropLocals
<1>14. CASE SaveBack
  BY <1>14, RecordIsDocument, ReplacedFile DEF SaveBack, StartUndo
<1>15. CASE SaveBackFails
  BY <1>15, SavedReplaced DEF SaveBackFails, StartUndo
<1>16. ASSUME NEW n \in Name, RestoreRegistryValue(n) PROVE FileInv'
  BY <1>16 DEF RestoreRegistryValue
<1>17. CASE RestoreFailsAfterSet
  BY <1>17 DEF RestoreFailsAfterSet, Answer, DropLocals
<1>18. CASE RestoreFailsAfterGeneration
  BY <1>18 DEF RestoreFailsAfterGeneration
<1>19. CASE RemoveAfterUndo
  BY <1>19, RemovedFile DEF RemoveAfterUndo, Answer, DropLocals
<1>20. CASE RemoveAfterUndoFails
  BY <1>20 DEF RemoveAfterUndoFails, Answer, DropLocals
<1>22. CASE LoadGenerations
  BY <1>22, RecoveredFile DEF LoadGenerations
<1>23. CASE LoadGenerationsRefused
  BY <1>23, RecoveredFile DEF LoadGenerationsRefused, StartupFails, DropLocals
<1>24. CASE NothingToRecover
  BY <1>24, RecoveredFile DEF NothingToRecover
<1>25. CASE RecoverRegistryTransaction
  BY <1>25, RecoveredFile DEF RecoverRegistryTransaction
<1>26. CASE RecoverRefused
  BY <1>26, RecoveredFile DEF RecoverRefused, StartupFails, DropLocals
<1>27. CASE RestoreFailsInRecovery
  BY <1>27 DEF RestoreFailsInRecovery, StartupFails, DropLocals
<1>28. CASE RemoveRecovered
  BY <1>28, RemovedFile DEF RemoveRecovered, DropLocals
<1>29. CASE RemoveRecoveredFails
  BY <1>29 DEF RemoveRecoveredFails, StartupFails, DropLocals
<1>30. CASE Crash
  BY <1>30, JournalInterrupted, SavedInterrupted DEF Crash, DropLocals
<1>31. CASE UNCHANGED vars
  BY <1>31
<1> QED BY <1>1, <1>2, <1>3, <1>4, <1>5, <1>6, <1>7, <1>8, <1>9, <1>10, <1>11,
           <1>12, <1>13, <1>14, <1>15, <1>16, <1>17, <1>18, <1>19, <1>20,
           <1>22, <1>23, <1>24, <1>25, <1>26, <1>27, <1>28, <1>29, <1>30, <1>31
           DEF Next, Request, Step, Refusal, Failure

LEMMA TypeStep == TypeInv /\ NeverAmbiguous /\ [Next]_vars => TypeInv'
<1> SUFFICES ASSUME TypeInv, NeverAmbiguous, [Next]_vars PROVE TypeInv'
  OBVIOUS
<1> USE DEF TypeInv, Working, Resting, disk, task, memory, ghosts, vars
<1>0. /\ journal' \in FileOf(JournalDoc) /\ saved' \in FileOf(Record)
      /\ NoRecord \in Record /\ [n \in Name |-> 0] \in [Name -> Content]
  BY FileStep, RegistryOK DEF FileInv, Record, Content
<1>1. ASSUME NEW m \in Manifest, CreateRegistryTransaction(m) PROVE TypeInv'
  <2>1. m \in Record /\ m.digest \subseteq Name
    BY RecordIsDocument DEF Record
  <2>2. snapshot' \in [m.digest -> Content]
    BY <1>1, <2>1 DEF CreateRegistryTransaction
  <2> QED BY <1>1, <1>0, <2>1, <2>2 DEF CreateRegistryTransaction
<1>2. CASE UnregisterScope
  BY <1>2, <1>0 DEF UnregisterScope
<1>3. CASE RegisterScope
  BY <1>3, <1>0 DEF RegisterScope
<1>4. CASE WriteRegistryTransaction
  BY <1>4, <1>0 DEF WriteRegistryTransaction
<1>5. CASE WriteRegistryTransactionFails
  BY <1>5, <1>0 DEF WriteRegistryTransactionFails, Answer, DropLocals
<1>6. ASSUME NEW n \in Name, SetRegistryValue(n) PROVE TypeInv'
  BY <1>6, <1>0, RecordIsDocument DEF SetRegistryValue
<1>7. CASE SetRegistryValueFails
  BY <1>7, <1>0 DEF SetRegistryValueFails, StartUndo
<1>8. CASE AcceptGeneration
  BY <1>8, <1>0 DEF AcceptGeneration, ValuesSet
<1>9. CASE AcceptGenerationFails
  BY <1>9, <1>0 DEF AcceptGenerationFails, ValuesSet
<1>10. CASE MarkCommitted
  BY <1>10, <1>0 DEF MarkCommitted
<1>11. CASE MarkCommittedFails
  BY <1>11, <1>0 DEF MarkCommittedFails, Damage
<1>12. CASE RemoveCommitted
  BY <1>12, <1>0, RecordIsDocument DEF RemoveCommitted, Answer, DropLocals
<1>13. CASE RemoveCommittedFails
  BY <1>13, <1>0 DEF RemoveCommittedFails, Answer, DropLocals
<1>14. CASE SaveBack
  BY <1>14, <1>0 DEF SaveBack, StartUndo
<1>15. CASE SaveBackFails
  BY <1>15, <1>0 DEF SaveBackFails, StartUndo
<1>16. ASSUME NEW n \in Name, RestoreRegistryValue(n) PROVE TypeInv'
  <2>1. snapshot[n] \in Content
    BY <1>16, SnapshotValues DEF RestoreRegistryValue
  <2>2. values' \in [Name -> Content]
    BY <1>16, <2>1 DEF RestoreRegistryValue
  <2> QED BY <1>16, <1>0, <2>2 DEF RestoreRegistryValue
<1>17. CASE RestoreFailsAfterSet
  BY <1>17, <1>0 DEF RestoreFailsAfterSet, Answer, DropLocals
<1>18. CASE RestoreFailsAfterGeneration
  BY <1>18, <1>0 DEF RestoreFailsAfterGeneration, Damage
<1>19. CASE RemoveAfterUndo
  BY <1>19, <1>0 DEF RemoveAfterUndo, Answer, DropLocals
<1>20. CASE RemoveAfterUndoFails
  BY <1>20, <1>0 DEF RemoveAfterUndoFails, Answer, DropLocals
<1>22. CASE LoadGenerations
  <2>1. Stored(saved') \in Record
    <3>1. Found(saved) \in Record \cup {Absent}
      BY <1>22, FoundType DEF LoadGenerations, Readable, Found
    <3>2. saved'.path = Found(saved)
      BY <1>22 DEF LoadGenerations, Found
    <3> QED BY <3>1, <3>2 DEF Stored, Record
  <2> QED BY <1>22, <1>0, <2>1 DEF LoadGenerations
<1>23. CASE LoadGenerationsRefused
  BY <1>23, <1>0 DEF LoadGenerationsRefused, StartupFails, DropLocals
<1>24. CASE NothingToRecover
  BY <1>24, <1>0 DEF NothingToRecover
<1>25. CASE RecoverRegistryTransaction
  <2>1. Found(journal) \in JournalDoc
    BY <1>25, FoundType DEF RecoverRegistryTransaction, Readable, Found
  <2>2. snapshot' \in Snapshot
    BY <1>25, <2>1 DEF RecoverRegistryTransaction, Found, JournalDoc
  <2> QED BY <1>25, <1>0, <2>2 DEF RecoverRegistryTransaction
<1>26. CASE RecoverRefused
  BY <1>26, <1>0 DEF RecoverRefused, StartupFails, DropLocals
<1>27. CASE RestoreFailsInRecovery
  BY <1>27, <1>0 DEF RestoreFailsInRecovery, StartupFails, DropLocals
<1>28. CASE RemoveRecovered
  BY <1>28, <1>0 DEF RemoveRecovered, DropLocals
<1>29. CASE RemoveRecoveredFails
  BY <1>29, <1>0 DEF RemoveRecoveredFails, StartupFails, DropLocals
<1>30. CASE Crash
  BY <1>30, <1>0 DEF Crash, DropLocals, Record
<1>31. CASE UNCHANGED vars
  BY <1>31, <1>0
<1> QED BY <1>1, <1>2, <1>3, <1>4, <1>5, <1>6, <1>7, <1>8, <1>9, <1>10, <1>11,
           <1>12, <1>13, <1>14, <1>15, <1>16, <1>17, <1>18, <1>19, <1>20,
           <1>22, <1>23, <1>24, <1>25, <1>26, <1>27, <1>28, <1>29, <1>30, <1>31
           DEF Next, Request, Step, Refusal, Failure

\* The acknowledged generation stays in memory and in the file.
LEMMA GenStep == TypeInv /\ NeverAmbiguous /\ GenInv /\ [Next]_vars => GenInv'
<1> SUFFICES ASSUME TypeInv, NeverAmbiguous, GenInv, [Next]_vars PROVE GenInv'
  OBVIOUS
<1> USE DEF TypeInv, GenInv, Working, Resting, disk, task, memory, ghosts, vars
<1>1. ASSUME NEW m \in Manifest, CreateRegistryTransaction(m) PROVE GenInv'
  <2>1. m \in Record
    BY DEF Record
  <2>2. m.generation >= accepted.generation
    BY <1>1, <2>1, RecordIsDocument DEF CreateRegistryTransaction, IsAccepted
  <2>3. m.generation >= acked
    BY <1>1, <2>1, <2>2, RecordIsDocument DEF CreateRegistryTransaction, Content
  <2> QED BY <1>1, <2>3 DEF CreateRegistryTransaction
<1>2. CASE UnregisterScope
  BY <1>2 DEF UnregisterScope
<1>3. CASE RegisterScope
  BY <1>3 DEF RegisterScope
<1>4. CASE WriteRegistryTransaction
  BY <1>4, DocIsDocument, ReplacedFile DEF WriteRegistryTransaction
<1>5. CASE WriteRegistryTransactionFails
  BY <1>5, JournalReplaced DEF WriteRegistryTransactionFails, Answer, DropLocals
<1>6. ASSUME NEW n \in Name, SetRegistryValue(n) PROVE GenInv'
  BY <1>6 DEF SetRegistryValue
<1>7. CASE SetRegistryValueFails
  BY <1>7 DEF SetRegistryValueFails, StartUndo
<1>8. CASE AcceptGeneration
  BY <1>8, RecordIsDocument, ReplacedFile DEF AcceptGeneration, ValuesSet
<1>9. CASE AcceptGenerationFails
  <2>1. Found(saved') \in {Found(saved), manifest, Torn}
    BY <1>9, SavedReplaced DEF AcceptGenerationFails
  <2> QED BY <1>9, <2>1, RecordIsDocument, FilesOK DEF AcceptGenerationFails, ValuesSet
<1>10. CASE MarkCommitted
  BY <1>10, DocIsDocument, ReplacedFile DEF MarkCommitted
<1>11. CASE MarkCommittedFails
  BY <1>11, JournalReplaced DEF MarkCommittedFails
<1>12. CASE RemoveCommitted
  <2>1. manifest.generation \in Nat
    BY RecordIsDocument
  <2> QED BY <1>12, <2>1, RecordIsDocument DEF RemoveCommitted, Answer, DropLocals
<1>13. CASE RemoveCommittedFails
  BY <1>13 DEF RemoveCommittedFails, Answer, DropLocals
<1>14. CASE SaveBack
  BY <1>14, RecordIsDocument, ReplacedFile DEF SaveBack, StartUndo
<1>15. CASE SaveBackFails
  <2>1. Found(saved') \in {Found(saved), before, Torn}
    BY <1>15, SavedReplaced DEF SaveBackFails
  <2> QED BY <1>15, <2>1, RecordIsDocument, FilesOK DEF SaveBackFails, StartUndo
<1>16. ASSUME NEW n \in Name, RestoreRegistryValue(n) PROVE GenInv'
  BY <1>16 DEF RestoreRegistryValue
<1>17. CASE RestoreFailsAfterSet
  BY <1>17 DEF RestoreFailsAfterSet, Answer, DropLocals
<1>18. CASE RestoreFailsAfterGeneration
  BY <1>18 DEF RestoreFailsAfterGeneration
<1>19. CASE RemoveAfterUndo
  BY <1>19, RemovedFile DEF RemoveAfterUndo, Answer, DropLocals
<1>20. CASE RemoveAfterUndoFails
  BY <1>20 DEF RemoveAfterUndoFails, Answer, DropLocals
<1>22. CASE LoadGenerations
  <2>1. Found(saved) \in Record \cup {Absent}
    BY <1>22, FoundType DEF LoadGenerations, Readable, Found
  <2>2. saved'.path = Found(saved) /\ Found(saved') = Found(saved)
    BY <1>22, RecoveredFile DEF LoadGenerations, Found
  <2>3. Stored(saved').generation >= acked
    BY <2>1, <2>2, RecordIsDocument DEF Stored, NoRecord
  <2> QED BY <1>22, <2>2, <2>3 DEF LoadGenerations
<1>23. CASE LoadGenerationsRefused
  BY <1>23, RecoveredFile DEF LoadGenerationsRefused, StartupFails, DropLocals
<1>24. CASE NothingToRecover
  BY <1>24, RecoveredFile DEF NothingToRecover
<1>25. CASE RecoverRegistryTransaction
  BY <1>25, RecoveredFile DEF RecoverRegistryTransaction
<1>26. CASE RecoverRefused
  BY <1>26, RecoveredFile DEF RecoverRefused, StartupFails, DropLocals
<1>27. CASE RestoreFailsInRecovery
  BY <1>27 DEF RestoreFailsInRecovery, StartupFails, DropLocals
<1>28. CASE RemoveRecovered
  BY <1>28, RemovedFile DEF RemoveRecovered, DropLocals
<1>29. CASE RemoveRecoveredFails
  BY <1>29 DEF RemoveRecoveredFails, StartupFails, DropLocals
<1>30. CASE Crash
  <2>1. \/ Found(saved') \in {Found(saved), Torn}
        \/ pc = "apply" /\ Found(saved') = manifest
        \/ pc = "save_back" /\ Found(saved') = before
    BY <1>30, SavedInterrupted DEF Crash
  <2> QED BY <1>30, <2>1, RecordIsDocument, FilesOK DEF Crash, DropLocals
<1>31. CASE UNCHANGED vars
  BY <1>31
<1> QED BY <1>1, <1>2, <1>3, <1>4, <1>5, <1>6, <1>7, <1>8, <1>9, <1>10, <1>11,
           <1>12, <1>13, <1>14, <1>15, <1>16, <1>17, <1>18, <1>19, <1>20,
           <1>22, <1>23, <1>24, <1>25, <1>26, <1>27, <1>28, <1>29, <1>30, <1>31
           DEF Next, Request, Step, Refusal, Failure

\* The journal at every step of a transaction.
LEMMA JournalStep ==
    ~damaged /\ ~damaged' /\ TypeInv /\ NeverAmbiguous /\ JournalInv /\ [Next]_vars => JournalInv'
<1> SUFFICES ASSUME ~damaged, ~damaged', TypeInv, NeverAmbiguous, JournalInv, [Next]_vars PROVE JournalInv'
  OBVIOUS
<1> USE DEF TypeInv, JournalInv, Working, Resting, disk, task, memory,
        ghosts, vars
<1>1. ASSUME NEW m \in Manifest, CreateRegistryTransaction(m) PROVE JournalInv'
  BY <1>1 DEF CreateRegistryTransaction
<1>2. CASE UnregisterScope
  BY <1>2 DEF UnregisterScope
<1>3. CASE RegisterScope
  BY <1>3 DEF RegisterScope
<1>4. CASE WriteRegistryTransaction
  BY <1>4 DEF WriteRegistryTransaction, Doc
<1>5. CASE WriteRegistryTransactionFails
  BY <1>5 DEF WriteRegistryTransactionFails, Answer, DropLocals
<1>6. ASSUME NEW n \in Name, SetRegistryValue(n) PROVE JournalInv'
  BY <1>6 DEF SetRegistryValue, Doc
<1>7. CASE SetRegistryValueFails
  <2>1. journal = Replaced(Doc("prepared")) /\ UNCHANGED <<journal, snapshot>> /\ pc' = "undo"
    BY <1>7 DEF SetRegistryValueFails, StartUndo
  <2> QED BY <2>1 DEF Replaced, Doc
<1>8. CASE AcceptGeneration
  BY <1>8 DEF AcceptGeneration, ValuesSet, Doc
<1>9. CASE AcceptGenerationFails
  <2>1. journal = Replaced(Doc("prepared")) /\ UNCHANGED <<journal, snapshot>> /\ pc' = "save_back"
    BY <1>9 DEF AcceptGenerationFails, ValuesSet
  <2> QED BY <2>1 DEF Replaced, Doc
<1>10. CASE MarkCommitted
  BY <1>10 DEF MarkCommitted, Doc
<1>11. CASE MarkCommittedFails
  <2>1. /\ pc = "mark" /\ pc' = "save_back" /\ snapshot' = snapshot
        /\ journal' \in ReplaceErrors(journal, Doc("committed")) /\ Found(journal') # Doc("committed")
    BY <1>11 DEF MarkCommittedFails, Damage, Found
  <2>2. journal' \in FileOf(JournalDoc)
    BY FileStep DEF FileInv
  <2>3. /\ journal'.path = Doc("prepared") /\ journal'.bak = Absent
        /\ journal'.new \in {Absent, Torn, Doc("committed")}
    BY <2>1, <2>2, MarkFailed
  <2> QED BY <2>1, <2>3 DEF Doc
<1>12. CASE RemoveCommitted
  BY <1>12 DEF RemoveCommitted, Answer, DropLocals
<1>13. CASE RemoveCommittedFails
  BY <1>13 DEF RemoveCommittedFails, Answer, DropLocals
<1>14. CASE SaveBack
  BY <1>14 DEF SaveBack, StartUndo, Doc
<1>15. CASE SaveBackFails
  BY <1>15 DEF SaveBackFails, StartUndo, Doc
<1>16. ASSUME NEW n \in Name, RestoreRegistryValue(n) PROVE JournalInv'
  BY <1>16 DEF RestoreRegistryValue, Doc
<1>17. CASE RestoreFailsAfterSet
  BY <1>17 DEF RestoreFailsAfterSet, Answer, DropLocals
<1>18. CASE RestoreFailsAfterGeneration
  BY <1>18 DEF RestoreFailsAfterGeneration, Doc
<1>19. CASE RemoveAfterUndo
  BY <1>19 DEF RemoveAfterUndo, Answer, DropLocals
<1>20. CASE RemoveAfterUndoFails
  BY <1>20 DEF RemoveAfterUndoFails, Answer, DropLocals
<1>22. CASE LoadGenerations
  BY <1>22 DEF LoadGenerations
<1>23. CASE LoadGenerationsRefused
  BY <1>23 DEF LoadGenerationsRefused, StartupFails, DropLocals
<1>24. CASE NothingToRecover
  BY <1>24 DEF NothingToRecover
<1>25. CASE RecoverRegistryTransaction
  <2>1. Found(journal) \in JournalDoc
    BY <1>25, FoundType DEF RecoverRegistryTransaction, Readable, Found
  <2>2. journal' = Replaced(Found(journal)) /\ journal'.path = Found(journal)
    BY <1>25, FoundIs DEF RecoverRegistryTransaction, Replaced
  <2> QED BY <1>25, <2>1, <2>2 DEF RecoverRegistryTransaction
<1>26. CASE RecoverRefused
  BY <1>26 DEF RecoverRefused, StartupFails, DropLocals
<1>27. CASE RestoreFailsInRecovery
  BY <1>27 DEF RestoreFailsInRecovery, StartupFails, DropLocals
<1>28. CASE RemoveRecovered
  BY <1>28 DEF RemoveRecovered, DropLocals
<1>29. CASE RemoveRecoveredFails
  BY <1>29 DEF RemoveRecoveredFails, StartupFails, DropLocals
<1>30. CASE Crash
  BY <1>30 DEF Crash, DropLocals
<1>31. CASE UNCHANGED vars
  BY <1>31 DEF Doc
<1> QED BY <1>1, <1>2, <1>3, <1>4, <1>5, <1>6, <1>7, <1>8, <1>9, <1>10, <1>11,
           <1>12, <1>13, <1>14, <1>15, <1>16, <1>17, <1>18, <1>19, <1>20,
           <1>22, <1>23, <1>24, <1>25, <1>26, <1>27, <1>28, <1>29, <1>30, <1>31
           DEF Next, Request, Step, Refusal, Failure

\* The journal keeps the values from before.
LEMMA BaseStep ==
    ~damaged /\ ~damaged' /\ TypeInv /\ NeverAmbiguous /\ JournalInv /\ BaseInv /\ ValuesInv /\ [Next]_vars => BaseInv'
<1> SUFFICES ASSUME ~damaged, ~damaged', TypeInv, NeverAmbiguous, JournalInv, BaseInv, ValuesInv, [Next]_vars PROVE BaseInv'
  OBVIOUS
<1> USE DEF BaseInv, Unfinished, Found, Working, Resting, disk, task,
        memory, ghosts, vars
<1>1. ASSUME NEW m \in Manifest, CreateRegistryTransaction(m) PROVE BaseInv'
  BY <1>1 DEF CreateRegistryTransaction, ValuesInv
<1>2. CASE UnregisterScope
  BY <1>2 DEF UnregisterScope
<1>3. CASE RegisterScope
  BY <1>3 DEF RegisterScope
<1>4. CASE WriteRegistryTransaction
  <2>1. Found(journal') = Doc("prepared") /\ Doc("prepared").previous = snapshot
    BY <1>4, DocIsDocument, ReplacedFile DEF WriteRegistryTransaction
  <2> QED BY <1>4, <2>1 DEF WriteRegistryTransaction, TypeInv
<1>5. CASE WriteRegistryTransactionFails
  <2>1. Found(journal') \in {Found(journal), Doc("prepared"), Torn}
    BY <1>5, JournalReplaced DEF WriteRegistryTransactionFails
  <2>2. Doc("prepared").previous = snapshot
    BY <1>5, DocIsDocument DEF WriteRegistryTransactionFails
  <2> QED BY <1>5, <2>1, <2>2 DEF WriteRegistryTransactionFails, Answer, TypeInv
<1>6. ASSUME NEW n \in Name, SetRegistryValue(n) PROVE BaseInv'
  BY <1>6 DEF SetRegistryValue
<1>7. CASE SetRegistryValueFails
  BY <1>7 DEF SetRegistryValueFails, StartUndo
<1>8. CASE AcceptGeneration
  BY <1>8 DEF AcceptGeneration, ValuesSet
<1>9. CASE AcceptGenerationFails
  BY <1>9 DEF AcceptGenerationFails, ValuesSet
<1>10. CASE MarkCommitted
  <2>1. Found(journal') = Doc("committed") /\ Doc("committed").phase = "committed"
    BY <1>10, DocIsDocument, ReplacedFile DEF MarkCommitted
  <2> QED BY <1>10, <2>1 DEF MarkCommitted
<1>11. CASE MarkCommittedFails
  <2>1. journal'.path = Doc("prepared") /\ journal' \in FileOf(JournalDoc)
    BY <1>11, JournalStep, FileStep DEF MarkCommittedFails, JournalInv, FileInv, Doc
  <2>2. Doc("prepared").previous = snapshot /\ Doc("prepared") # Absent
    BY <1>11, DocIsDocument DEF MarkCommittedFails
  <2>3. Found(journal') = Doc("prepared")
    BY <2>1, <2>2, FoundIs
  <2> QED BY <1>11, <2>2, <2>3 DEF MarkCommittedFails, Damage, TypeInv
<1>12. CASE RemoveCommitted
  <2>1. Found(journal') = Absent
    BY <1>12, RemovedFile DEF RemoveCommitted, JournalInv, Replaced, TypeInv
  <2> QED BY <1>12, <2>1 DEF RemoveCommitted, Answer
<1>13. CASE RemoveCommittedFails
  BY <1>13 DEF RemoveCommittedFails, Answer, DropLocals
<1>14. CASE SaveBack
  BY <1>14 DEF SaveBack, StartUndo
<1>15. CASE SaveBackFails
  BY <1>15 DEF SaveBackFails, StartUndo
<1>16. ASSUME NEW n \in Name, RestoreRegistryValue(n) PROVE BaseInv'
  BY <1>16 DEF RestoreRegistryValue
<1>17. CASE RestoreFailsAfterSet
  BY <1>17 DEF RestoreFailsAfterSet, Answer, DropLocals
<1>18. CASE RestoreFailsAfterGeneration
  BY <1>18 DEF RestoreFailsAfterGeneration, Damage
<1>19. CASE RemoveAfterUndo
  <2>1. Found(journal') \in {Absent, Torn, Doc("committed")}
    BY <1>19, RemovedFile DEF RemoveAfterUndo, JournalInv, TypeInv
  <2>2. Doc("committed").phase = "committed"
    BY DEF Doc
  <2> QED BY <1>19, <2>1, <2>2 DEF RemoveAfterUndo, Answer
<1>20. CASE RemoveAfterUndoFails
  BY <1>20 DEF RemoveAfterUndoFails, Answer, DropLocals
<1>22. CASE LoadGenerations
  BY <1>22 DEF LoadGenerations
<1>23. CASE LoadGenerationsRefused
  BY <1>23 DEF LoadGenerationsRefused, StartupFails, DropLocals
<1>24. CASE NothingToRecover
  <2>1. Found(journal') = Found(journal)
    BY <1>24, RecoveredFile DEF NothingToRecover, TypeInv
  <2> QED BY <1>24, <2>1 DEF NothingToRecover
<1>25. CASE RecoverRegistryTransaction
  <2>1. Found(journal') = Found(journal)
    BY <1>25, RecoveredFile DEF RecoverRegistryTransaction, TypeInv
  <2> QED BY <1>25, <2>1 DEF RecoverRegistryTransaction
<1>26. CASE RecoverRefused
  <2>1. Found(journal') = Found(journal)
    BY <1>26, RecoveredFile DEF RecoverRefused, TypeInv
  <2> QED BY <1>26, <2>1 DEF RecoverRefused, StartupFails
<1>27. CASE RestoreFailsInRecovery
  BY <1>27 DEF RestoreFailsInRecovery, StartupFails, DropLocals
<1>28. CASE RemoveRecovered
  <2>1. Found(journal') = Absent
    BY <1>28, RemovedFile DEF RemoveRecovered, JournalInv, Replaced, TypeInv
  <2> QED BY <1>28, <2>1 DEF RemoveRecovered
<1>29. CASE RemoveRecoveredFails
  BY <1>29 DEF RemoveRecoveredFails, StartupFails, DropLocals
<1>30. CASE Crash
  <2>1. \/ Found(journal') = Found(journal)
        \/ pc = "journal" /\ Found(journal') \in {Doc("prepared"), Torn}
        \/ Found(journal') \in {Doc("committed"), Torn}
    BY <1>30, JournalInterrupted DEF Crash
  <2>2. Doc("committed").phase = "committed" /\ Doc("prepared").previous = snapshot
    BY DEF Doc
  <2> QED BY <1>30, <2>1, <2>2 DEF Crash, TypeInv
<1>31. CASE UNCHANGED vars
  BY <1>31
<1> QED BY <1>1, <1>2, <1>3, <1>4, <1>5, <1>6, <1>7, <1>8, <1>9, <1>10, <1>11,
           <1>12, <1>13, <1>14, <1>15, <1>16, <1>17, <1>18, <1>19, <1>20,
           <1>22, <1>23, <1>24, <1>25, <1>26, <1>27, <1>28, <1>29, <1>30, <1>31
           DEF Next, Request, Step, Refusal, Failure

\* The values are those of the step that the transaction is at.
LEMMA ValuesStep ==
    ~damaged /\ ~damaged' /\ TypeInv /\ NeverAmbiguous /\ JournalInv /\ BaseInv /\ ValuesInv /\ [Next]_vars => ValuesInv'
<1> SUFFICES ASSUME ~damaged, ~damaged', TypeInv, NeverAmbiguous, JournalInv, BaseInv, ValuesInv, [Next]_vars PROVE ValuesInv'
  OBVIOUS
<1> USE DEF ValuesInv, Unfinished, Found, Working, Resting, disk, task, memory,
        ghosts, vars
<1>1. ASSUME NEW m \in Manifest, CreateRegistryTransaction(m) PROVE ValuesInv'
  BY <1>1 DEF CreateRegistryTransaction
<1>2. CASE UnregisterScope
  BY <1>2 DEF UnregisterScope, Applied
<1>3. CASE RegisterScope
  BY <1>3 DEF RegisterScope, Applied
<1>4. CASE WriteRegistryTransaction
  <2>1. pc = "journal" /\ pc' = "apply" /\ values = base /\ UNCHANGED <<values, base, left, manifest, snapshot>>
    BY <1>4 DEF WriteRegistryTransaction
  <2>2. left = manifest.digest
    BY <1>4 DEF WriteRegistryTransaction
  <2> QED BY <2>1, <2>2
<1>5. CASE WriteRegistryTransactionFails
  <2>1. pc' = "serving" /\ values = base /\ UNCHANGED <<values, base>>
    BY <1>5 DEF WriteRegistryTransactionFails, Answer
  <2> QED BY <2>1
<1>6. ASSUME NEW n \in Name, SetRegistryValue(n) PROVE ValuesInv'
  BY <1>6 DEF SetRegistryValue, TypeInv
<1>7. CASE SetRegistryValueFails
  <2>1. \A n \in Name : values[n] # base[n] => n \in DOMAIN snapshot
    BY <1>7 DEF SetRegistryValueFails, Applied, TypeInv
  <2>2. pc' = "undo" /\ left' = DOMAIN snapshot /\ UNCHANGED <<values, base>>
    BY <1>7 DEF SetRegistryValueFails, StartUndo
  <2> QED BY <2>1, <2>2
<1>8. CASE AcceptGeneration
  <2>1. values = Applied
    <3>1. \A n \in Name : values[n] = IF n \in manifest.digest THEN manifest.generation ELSE base[n]
      BY <1>8 DEF AcceptGeneration, ValuesSet
    <3> QED BY <3>1 DEF Applied, TypeInv
  <2>2. pc' = "mark" /\ UNCHANGED <<values, base, manifest>>
    BY <1>8 DEF AcceptGeneration
  <2> QED BY <2>1, <2>2 DEF Applied
<1>9. CASE AcceptGenerationFails
  <2>1. values = Applied
    <3>1. \A n \in Name : values[n] = IF n \in manifest.digest THEN manifest.generation ELSE base[n]
      BY <1>9 DEF AcceptGenerationFails, ValuesSet
    <3> QED BY <3>1 DEF Applied, TypeInv
  <2>2. pc' = "save_back" /\ UNCHANGED <<values, base, manifest>>
    BY <1>9 DEF AcceptGenerationFails
  <2> QED BY <2>1, <2>2 DEF Applied
<1>10. CASE MarkCommitted
  BY <1>10 DEF MarkCommitted, Applied
<1>11. CASE MarkCommittedFails
  BY <1>11 DEF MarkCommittedFails, Damage, Applied
<1>12. CASE RemoveCommitted
  <2>1. Found(journal') = Absent
    BY <1>12, RemovedFile DEF RemoveCommitted, JournalInv, Replaced, TypeInv
  <2> QED BY <1>12, <2>1 DEF RemoveCommitted, Answer, Applied
<1>13. CASE RemoveCommittedFails
  <2>1. ~Unfinished
    BY <1>13, DocIsDocument, ReplacedFile DEF RemoveCommittedFails, JournalInv
  <2>2. pc' = "serving" /\ values = Applied /\ UNCHANGED <<values, base, manifest, journal>>
    BY <1>13 DEF RemoveCommittedFails, Answer
  <2> QED BY <2>1, <2>2 DEF Applied
<1>14. CASE SaveBack
  <2>1. \A n \in Name : values[n] # base[n] => n \in DOMAIN snapshot
    BY <1>14 DEF SaveBack, Applied, TypeInv
  <2>2. pc' = "undo" /\ left' = DOMAIN snapshot /\ UNCHANGED <<values, base>>
    BY <1>14 DEF SaveBack, StartUndo
  <2> QED BY <2>1, <2>2
<1>15. CASE SaveBackFails
  <2>1. \A n \in Name : values[n] # base[n] => n \in DOMAIN snapshot
    BY <1>15 DEF SaveBackFails, Applied, TypeInv
  <2>2. pc' = "undo" /\ left' = DOMAIN snapshot /\ UNCHANGED <<values, base>>
    BY <1>15 DEF SaveBackFails, StartUndo
  <2> QED BY <2>1, <2>2
<1>16. ASSUME NEW n \in Name, RestoreRegistryValue(n) PROVE ValuesInv'
  <2>1. n \in DOMAIN snapshot
    BY <1>16 DEF RestoreRegistryValue, TypeInv
  <2>2. pc = "recover_undo" => Unfinished /\ Found(journal).previous = snapshot
    BY <1>16, ReplacedFile DEF RestoreRegistryValue, JournalInv
  <2>3. snapshot[n] = base[n]
    BY <1>16, <2>1, <2>2 DEF RestoreRegistryValue, BaseInv, TypeInv
  <2>4. \A k \in Name : values'[k] # base[k] => values[k] # base[k] /\ k # n
    BY <1>16, <2>3 DEF RestoreRegistryValue, TypeInv
  <2> QED BY <1>16, <2>2, <2>4 DEF RestoreRegistryValue
<1>17. CASE RestoreFailsAfterSet
  <2>1. Found(journal) = Doc("prepared") /\ Doc("prepared").previous = snapshot
    BY <1>17, DocIsDocument, FoundIs DEF RestoreFailsAfterSet, JournalInv, TypeInv
  <2>2. \A n \in Name : values[n] # base[n] => n \in DOMAIN Found(journal).previous
    BY <1>17, <2>1 DEF RestoreFailsAfterSet, TypeInv
  <2>3. Unfinished
    BY <1>17, <2>1, DocIsDocument DEF RestoreFailsAfterSet
  <2>4. pc' = "serving" /\ UNCHANGED <<values, base, manifest, journal>>
    BY <1>17 DEF RestoreFailsAfterSet, Answer
  <2> QED BY <2>2, <2>3, <2>4
<1>18. CASE RestoreFailsAfterGeneration
  BY <1>18 DEF RestoreFailsAfterGeneration, Damage
<1>19. CASE RemoveAfterUndo
  <2>1. values = base
    BY <1>19 DEF RemoveAfterUndo, TypeInv
  <2>2. pc' = "serving" /\ UNCHANGED <<values, base>>
    BY <1>19 DEF RemoveAfterUndo, Answer
  <2> QED BY <2>1, <2>2
<1>20. CASE RemoveAfterUndoFails
  <2>1. values = base
    BY <1>20 DEF RemoveAfterUndoFails, TypeInv
  <2>2. pc' = "serving" /\ UNCHANGED <<values, base>>
    BY <1>20 DEF RemoveAfterUndoFails, Answer
  <2> QED BY <2>1, <2>2
<1>22. CASE LoadGenerations
  BY <1>22 DEF LoadGenerations, Applied
<1>23. CASE LoadGenerationsRefused
  BY <1>23 DEF LoadGenerationsRefused, StartupFails, DropLocals, Applied
<1>24. CASE NothingToRecover
  <2>1. Found(journal') = Found(journal)
    BY <1>24, RecoveredFile DEF NothingToRecover, TypeInv
  <2> QED BY <1>24, <2>1 DEF NothingToRecover, Applied
<1>25. CASE RecoverRegistryTransaction
  <2>1. Found(journal') = Found(journal) /\ journal'.path = Found(journal)
    BY <1>25, RecoveredFile DEF RecoverRegistryTransaction, TypeInv
  <2>2. Found(journal) \notin {Absent, Torn}
    BY <1>25 DEF RecoverRegistryTransaction, Readable
  <2>3. left' = IF Unfinished THEN DOMAIN Found(journal).previous ELSE {}
    BY <1>25, <2>1, <2>2 DEF RecoverRegistryTransaction
  <2>4. Unfinished' = Unfinished /\ pc = "recover" /\ pc' = "recover_undo"
        /\ UNCHANGED <<values, base, manifest>>
    BY <1>25, <2>1 DEF RecoverRegistryTransaction
  <2> QED BY <2>3, <2>4 DEF Applied
<1>26. CASE RecoverRefused
  <2>1. Found(journal') = Found(journal)
    BY <1>26, RecoveredFile DEF RecoverRefused, TypeInv
  <2> QED BY <1>26, <2>1 DEF RecoverRefused, StartupFails, Applied
<1>27. CASE RestoreFailsInRecovery
  <2>1. Unfinished => Found(journal).previous = snapshot
    BY <1>27, ReplacedFile DEF RestoreFailsInRecovery, JournalInv
  <2> QED BY <1>27, <2>1 DEF RestoreFailsInRecovery, StartupFails, Applied, TypeInv
<1>28. CASE RemoveRecovered
  <2>1. Found(journal') = Absent
    BY <1>28, RemovedFile DEF RemoveRecovered, JournalInv, Replaced, TypeInv
  <2>2. Unfinished => values = base
    BY <1>28 DEF RemoveRecovered, TypeInv
  <2> QED BY <1>28, <2>1, <2>2 DEF RemoveRecovered, Applied
<1>29. CASE RemoveRecoveredFails
  <2>1. Unfinished => values = base
    BY <1>29 DEF RemoveRecoveredFails, TypeInv
  <2> QED BY <1>29, <2>1 DEF RemoveRecoveredFails, StartupFails, Applied
<1>30. CASE Crash
  <2>1. pc' = "down" /\ UNCHANGED <<values, base, manifest>>
    BY <1>30 DEF Crash
  <2>2. CASE pc = "journal"
    BY <2>1, <2>2
  <2>3. CASE pc \in {"apply", "mark", "save_back", "undo"}
    <3>1. Found(journal) = Doc("prepared")
      BY <2>3, DocIsDocument, FoundIs, ReplacedFile DEF JournalInv, TypeInv
    <3>2. \/ Found(journal') = Doc("prepared")
          \/ pc = "mark" /\ Found(journal') = Doc("committed")
      BY <1>30, <2>3, <3>1, JournalInterrupted, DocIsDocument DEF Crash
    <3>3. CASE Found(journal') = Doc("prepared")
      <4>1. Unfinished' /\ Found(journal').previous = snapshot /\ DOMAIN snapshot = manifest.digest
        BY <2>3, <3>3, DocIsDocument DEF TypeInv
      <4>2. \A n \in Name : values[n] # base[n] => n \in manifest.digest
        BY <2>3 DEF Applied, TypeInv
      <4> QED BY <2>1, <4>1, <4>2
    <3>4. CASE pc = "mark" /\ Found(journal') = Doc("committed")
      <4>1. ~Unfinished' /\ values = Applied
        BY <3>4, DocIsDocument
      <4> QED BY <2>1, <4>1 DEF Applied
    <3> QED BY <3>2, <3>3, <3>4
  <2>4. CASE pc = "remove"
    <3>1. Found(journal') = Doc("committed")
      BY <1>30, <2>4, JournalInterrupted, DocIsDocument, ReplacedFile DEF Crash, JournalInv
    <3>2. ~Unfinished' /\ values = Applied
      BY <2>4, <3>1, DocIsDocument
    <3> QED BY <2>1, <3>2 DEF Applied
  <2>5. CASE pc \in Resting
    <3>1. Found(journal') = Found(journal)
      BY <1>30, <2>5, JournalInterrupted DEF Crash
    <3>2. CASE Unfinished
      <4>1. \A n \in Name : values[n] # base[n] => n \in DOMAIN Found(journal).previous
        <5>1. CASE pc = "recover_undo"
          BY <3>2, <5>1, ReplacedFile DEF JournalInv, TypeInv
        <5>2. CASE pc # "recover_undo"
          BY <2>5, <3>2, <5>2
        <5> QED BY <5>1, <5>2
      <4> QED BY <2>1, <3>1, <3>2, <4>1
    <3>3. CASE ~Unfinished
      BY <2>1, <2>5, <3>1, <3>3 DEF Applied
    <3> QED BY <3>2, <3>3
  <2> QED BY <2>2, <2>3, <2>4, <2>5 DEF TypeInv
<1>31. CASE UNCHANGED vars
  BY <1>31 DEF Applied
<1> QED BY <1>1, <1>2, <1>3, <1>4, <1>5, <1>6, <1>7, <1>8, <1>9, <1>10, <1>11,
           <1>12, <1>13, <1>14, <1>15, <1>16, <1>17, <1>18, <1>19, <1>20,
           <1>22, <1>23, <1>24, <1>25, <1>26, <1>27, <1>28, <1>29, <1>30, <1>31
           DEF Next, Request, Step, Refusal, Failure

\* What was answered stays true.
LEMMA ToldStep ==
    ~damaged /\ ~damaged' /\ TypeInv /\ NeverAmbiguous /\ JournalInv /\ BaseInv /\ ValuesInv /\ ToldInv /\ [Next]_vars => ToldInv'
<1> SUFFICES ASSUME ~damaged, ~damaged', TypeInv, NeverAmbiguous, JournalInv, BaseInv, ValuesInv, ToldInv, [Next]_vars PROVE ToldInv'
  OBVIOUS
<1> USE DEF ToldInv, Working, Resting, disk, task, memory, ghosts, vars
<1>1. ASSUME NEW m \in Manifest, CreateRegistryTransaction(m) PROVE ToldInv'
  BY <1>1 DEF CreateRegistryTransaction
<1>2. CASE UnregisterScope
  BY <1>2 DEF UnregisterScope, Applied
<1>3. CASE RegisterScope
  BY <1>3 DEF RegisterScope, Applied
<1>4. CASE WriteRegistryTransaction
  BY <1>4 DEF WriteRegistryTransaction
<1>5. CASE WriteRegistryTransactionFails
  BY <1>5 DEF WriteRegistryTransactionFails, Answer, DropLocals, ValuesInv
<1>6. ASSUME NEW n \in Name, SetRegistryValue(n) PROVE ToldInv'
  BY <1>6 DEF SetRegistryValue
<1>7. CASE SetRegistryValueFails
  BY <1>7 DEF SetRegistryValueFails, StartUndo
<1>8. CASE AcceptGeneration
  BY <1>8 DEF AcceptGeneration, ValuesSet
<1>9. CASE AcceptGenerationFails
  BY <1>9 DEF AcceptGenerationFails, ValuesSet
<1>10. CASE MarkCommitted
  BY <1>10 DEF MarkCommitted
<1>11. CASE MarkCommittedFails
  BY <1>11 DEF MarkCommittedFails, Damage
<1>12. CASE RemoveCommitted
  <2>1. Found(journal') = Absent
    BY <1>12, RemovedFile DEF RemoveCommitted, JournalInv, Replaced, TypeInv
  <2>2. values = Applied /\ told' = "ok" /\ pc' = "serving" /\ UNCHANGED <<values, base, manifest>>
    BY <1>12 DEF RemoveCommitted, Answer, ValuesInv
  <2> QED BY <2>1, <2>2 DEF Applied
<1>13. CASE RemoveCommittedFails
  BY <1>13 DEF RemoveCommittedFails, Answer, DropLocals
<1>14. CASE SaveBack
  BY <1>14 DEF SaveBack, StartUndo
<1>15. CASE SaveBackFails
  BY <1>15 DEF SaveBackFails, StartUndo
<1>16. ASSUME NEW n \in Name, RestoreRegistryValue(n) PROVE ToldInv'
  <2>1. CASE pc = "undo"
    BY <1>16, <2>1 DEF RestoreRegistryValue
  <2>2. CASE pc = "recover_undo"
    <3>1. Unfinished /\ Found(journal) = journal.path /\ Found(journal) \notin {Absent, Torn}
      BY <1>16, <2>2, ReplacedFile DEF RestoreRegistryValue, JournalInv, ValuesInv, Unfinished, Found
    <3>2. snapshot[n] = base[n]
      BY <1>16, <2>2, <3>1 DEF RestoreRegistryValue, JournalInv, BaseInv, TypeInv
    <3>3. told = "error" => values' = base
      BY <1>16, <3>2 DEF RestoreRegistryValue, TypeInv
    <3> QED BY <1>16, <2>2, <3>1, <3>3 DEF RestoreRegistryValue
  <2> QED BY <1>16, <2>1, <2>2 DEF RestoreRegistryValue
<1>17. CASE RestoreFailsAfterSet
  BY <1>17 DEF RestoreFailsAfterSet, Answer, DropLocals
<1>18. CASE RestoreFailsAfterGeneration
  BY <1>18 DEF RestoreFailsAfterGeneration, Damage
<1>19. CASE RemoveAfterUndo
  <2>1. values = base
    BY <1>19 DEF RemoveAfterUndo, ValuesInv, TypeInv
  <2>2. told' \in {"error", "incomplete"} /\ pc' = "serving" /\ UNCHANGED <<values, base>>
    BY <1>19 DEF RemoveAfterUndo, Answer
  <2> QED BY <2>1, <2>2
<1>20. CASE RemoveAfterUndoFails
  BY <1>20 DEF RemoveAfterUndoFails, Answer, DropLocals
<1>22. CASE LoadGenerations
  BY <1>22 DEF LoadGenerations, Applied
<1>23. CASE LoadGenerationsRefused
  BY <1>23 DEF LoadGenerationsRefused, StartupFails, DropLocals, Applied
<1>24. CASE NothingToRecover
  <2>1. Found(journal') = Found(journal)
    BY <1>24, RecoveredFile DEF NothingToRecover, TypeInv
  <2> QED BY <1>24, <2>1 DEF NothingToRecover, Applied
<1>25. CASE RecoverRegistryTransaction
  <2>1. Found(journal') = Found(journal)
    BY <1>25, RecoveredFile DEF RecoverRegistryTransaction, TypeInv
  <2> QED BY <1>25, <2>1 DEF RecoverRegistryTransaction, Applied
<1>26. CASE RecoverRefused
  <2>1. Found(journal') = Found(journal)
    BY <1>26, RecoveredFile DEF RecoverRefused, TypeInv
  <2> QED BY <1>26, <2>1 DEF RecoverRefused, StartupFails, Applied
<1>27. CASE RestoreFailsInRecovery
  BY <1>27 DEF RestoreFailsInRecovery, StartupFails, DropLocals, Applied
<1>28. CASE RemoveRecovered
  <2>1. Found(journal') = Absent
    BY <1>28, RemovedFile DEF RemoveRecovered, JournalInv, Replaced, TypeInv
  <2> QED BY <1>28, <2>1 DEF RemoveRecovered, Applied
<1>29. CASE RemoveRecoveredFails
  BY <1>29 DEF RemoveRecoveredFails, StartupFails, DropLocals, Applied
<1>30. CASE Crash
  <2>1. told = "ok" => Found(journal') = Absent
    BY <1>30, JournalInterrupted DEF Crash
  <2> QED BY <1>30, <2>1 DEF Crash, Applied
<1>31. CASE UNCHANGED vars
  BY <1>31 DEF Applied
<1> QED BY <1>1, <1>2, <1>3, <1>4, <1>5, <1>6, <1>7, <1>8, <1>9, <1>10, <1>11,
           <1>12, <1>13, <1>14, <1>15, <1>16, <1>17, <1>18, <1>19, <1>20,
           <1>22, <1>23, <1>24, <1>25, <1>26, <1>27, <1>28, <1>29, <1>30, <1>31
           DEF Next, Request, Step, Refusal, Failure

-----------------------------------------------------------------------------
(* What follows *)

LEMMA InitiallyFiles == Init => TypeInv /\ NeverAmbiguous /\ GenInv
<1> SUFFICES ASSUME Init PROVE TypeInv /\ NeverAmbiguous /\ GenInv
  OBVIOUS
<1>1. NoFile = Replaced(Absent)
  BY DEF NoFile, Replaced
<1>2. /\ NoFile \in FileOf(JournalDoc) /\ NoFile \in FileOf(Record)
      /\ ~IsAmbiguous(NoFile) /\ Found(NoFile) = Absent
  BY <1>1, ReplacedFile
<1>3. NoRecord \in Record /\ NoRecord.generation = 0 /\ 0 \in Content
  BY RegistryOK DEF Record, NoRecord, Content
<1>4. Absent \notin Record
  BY RecordIsDocument
<1>5. TypeInv
  BY <1>2, <1>3 DEF Init, TypeInv, Working, Resting
<1>6. NeverAmbiguous /\ GenInv
  BY <1>2, <1>3, <1>4 DEF Init, NeverAmbiguous, GenInv, Working
<1> QED BY <1>5, <1>6

LEMMA InitiallyValues == Init => JournalInv /\ BaseInv /\ ValuesInv /\ ToldInv
<1> SUFFICES ASSUME Init PROVE JournalInv /\ BaseInv /\ ValuesInv /\ ToldInv
  OBVIOUS
<1>1. Found(journal) = Absent
  BY InitiallyFiles, FoundIs DEF Init, NoFile, TypeInv
<1>2. ~Unfinished
  BY <1>1 DEF Unfinished, Found
<1> QED BY <1>2 DEF Init, JournalInv, BaseInv, ValuesInv, ToldInv, Working, Resting

\* The files and the generations, whatever fails.
LEMMA FilesInvariant == Spec => [](TypeInv /\ NeverAmbiguous /\ GenInv)
<1>1. TypeInv /\ NeverAmbiguous /\ GenInv /\ [Next]_vars => (TypeInv /\ NeverAmbiguous /\ GenInv)'
  BY TypeStep, FileStep, GenStep DEF FileInv
<1> QED BY <1>1, InitiallyFiles, PTL DEF Spec

\* A set that finds no journal starts from the values as they are, whatever
\* became of the sets before it.
LEMMA SoundAgain == TypeInv /\ damaged /\ ~damaged' /\ [Next]_vars => Sound'
<1> SUFFICES ASSUME TypeInv, damaged, ~damaged', [Next]_vars PROVE Sound'
  OBVIOUS
<1> USE DEF disk, task, memory, ghosts, vars
<1>1. \E m \in Manifest : CreateRegistryTransaction(m)
  BY DEF Next, Request, Step, Refusal, Failure, UnregisterScope, RegisterScope,
         WriteRegistryTransaction, WriteRegistryTransactionFails, SetRegistryValue,
         SetRegistryValueFails, AcceptGeneration, AcceptGenerationFails, MarkCommitted,
         MarkCommittedFails, RemoveCommitted, RemoveCommittedFails, SaveBack, SaveBackFails,
         RestoreRegistryValue, RestoreFailsAfterSet, RestoreFailsAfterGeneration,
         RemoveAfterUndo, RemoveAfterUndoFails, LoadGenerations, LoadGenerationsRefused,
         NothingToRecover, RecoverRegistryTransaction, RecoverRefused,
         RestoreFailsInRecovery, RemoveRecovered, RemoveRecoveredFails, Crash, Damage
<1>2. PICK m \in Manifest : CreateRegistryTransaction(m)
  BY <1>1
<1>3. /\ pc' = "journal" /\ values' = values /\ base' = values /\ journal' = journal
      /\ manifest' = m /\ snapshot' = [n \in m.digest |-> values[n]] /\ left' = m.digest
      /\ told' = "none" /\ ~Unfinished
  BY <1>2 DEF CreateRegistryTransaction
<1>4. ~Unfinished'
  BY <1>3 DEF Unfinished
<1>5. JournalInv'
  BY <1>3 DEF JournalInv
<1>6. BaseInv'
  BY <1>3, <1>4 DEF BaseInv
<1>7. ValuesInv' /\ ToldInv'
  BY <1>3, <1>4 DEF ValuesInv, ToldInv, Resting
<1> QED BY <1>5, <1>6, <1>7 DEF Sound

\* The values and the answers, while nothing is damaged.
LEMMA Invariance == Spec => []IInv
<1>1. Init => IInv
  BY InitiallyFiles, InitiallyValues DEF IInv, Sound
<1>2. IInv /\ [Next]_vars => IInv'
  <2> SUFFICES ASSUME IInv, [Next]_vars PROVE IInv'
    OBVIOUS
  <2>1. TypeInv' /\ NeverAmbiguous' /\ GenInv'
    BY TypeStep, FileStep, GenStep DEF IInv, FileInv
  <2>2. CASE damaged'
    BY <2>1, <2>2 DEF IInv
  <2>3. CASE ~damaged /\ ~damaged'
    BY <2>1, <2>3, JournalStep, BaseStep, ValuesStep, ToldStep DEF IInv, Sound
  <2>4. CASE damaged /\ ~damaged'
    BY <2>1, <2>4, SoundAgain DEF IInv
  <2> QED BY <2>2, <2>3, <2>4
<1> QED BY <1>1, <1>2, PTL DEF Spec

\* No sequence of failed calls, crashes and recoveries leaves a replacement that
\* recover_service_file_replacement refuses as ambiguous.
THEOREM NeverAmbiguousHolds == Spec => []NeverAmbiguous
  BY FilesInvariant, PTL

\* An acknowledged generation is not forgotten, whatever fails: an older registry
\* set is refused by every later service process.
THEOREM GenerationKeptHolds == Spec => []GenerationKept
<1>1. GenInv => GenerationKept
  BY DEF GenInv, GenerationKept
<1> QED BY <1>1, FilesInvariant, PTL

\* Wherever the service is interrupted, recovery finds the old values.
THEOREM UndoAvailableHolds == Spec => []UndoAvailable
<1>1. IInv => UndoAvailable
  <2> SUFFICES ASSUME IInv, ~damaged, pc \in {"apply", "save_back", "undo", "mark"},
                      NEW f \in InterruptedJournal
               PROVE  /\ Found(f) \notin {Absent, Torn}
                      /\ \/ Found(f).phase = "committed" /\ values = Applied
                         \/ \A n \in Name : values[n] # base[n] =>
                                n \in DOMAIN Found(f).previous /\ Found(f).previous[n] = base[n]
    BY DEF UndoAvailable, Found
  <2> USE DEF IInv, Sound, Working
  <2>1. Found(journal) = Doc("prepared")
    BY DocIsDocument, FoundIs, ReplacedFile DEF JournalInv, TypeInv
  <2>2. \/ Found(f) = Doc("prepared")
        \/ pc = "mark" /\ Found(f) = Doc("committed")
    BY <2>1, JournalInterrupted, DocIsDocument
  <2>3. /\ \A p \in {"prepared", "committed"} : Doc(p) \notin {Absent, Torn}
        /\ Doc("prepared").previous = snapshot /\ Doc("committed").phase = "committed"
    BY DocIsDocument
  <2>4. \A n \in Name : values[n] # base[n] => n \in DOMAIN snapshot /\ snapshot[n] = base[n]
    BY DEF ValuesInv, BaseInv, TypeInv, Applied
  <2>5. pc = "mark" => values = Applied
    BY DEF ValuesInv
  <2> QED BY <2>2, <2>3, <2>4, <2>5
<1> QED BY <1>1, Invariance, PTL

\* A service that serves, with nothing left to recover, has all values of the last
\* set or none.
THEOREM SetAllOrNothingHolds == Spec => []SetAllOrNothing
<1>1. IInv => SetAllOrNothing
  BY DEF IInv, Sound, ValuesInv, SetAllOrNothing, Resting
<1> QED BY <1>1, Invariance, PTL

\* A set that was answered as committed stays, one that was refused has changed
\* nothing, also across the crashes and recoveries that follow.
THEOREM AnswerTruthfulHolds == Spec => []AnswerTruthful
<1>1. IInv => AnswerTruthful
  BY DEF IInv, Sound, ToldInv, AnswerTruthful
<1> QED BY <1>1, Invariance, PTL
=============================================================================
