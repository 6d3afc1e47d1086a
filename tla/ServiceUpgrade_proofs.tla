----------------------- MODULE ServiceUpgrade_proofs -----------------------
(***************************************************************************)
(* The promises of the service upgrade, for any releases, with or without  *)
(* a release at the former path and torn files.                            *)
(***************************************************************************)
EXTENDS ServiceUpgrade, ProtectedFile_proofs

-----------------------------------------------------------------------------
(* The inductive invariant *)

\* A journal is about an installation or about an upgrade to a newer version.
Doc == {d \in JournalDoc :
           d.previous # Absent => VersionOf(d.candidate) > VersionOf(d.previous)}

Working == {"stage", "persist", "stop", "retain", "promote", "register", "start",
            "record", "discard previous", "discard candidate", "clear",
            "undo", "undo delete", "undo rename", "undo start", "undo candidate",
            "undo install", "undo clear"}
Removing == {"remove entry", "remove live", "remove candidate", "remove previous",
             "remove record", "remove journal", "remove directory"}
Ensuring == Working \cup {"release", "journal", "keep", "publish"}
Steps == {"idle", "remove service"} \cup Ensuring \cup Removing

TypeInv ==
    /\ release \in FileOf(Bundle) /\ ~IsAmbiguous(release)
    /\ journal \in FileOf(Doc) /\ ~IsAmbiguous(journal)
    /\ binary \in [Place -> Bundle \cup {Absent}]
    /\ image \in {"live", "legacy", Absent}
    /\ running \in Bundle \cup {Absent}
    /\ pc \in Steps
    /\ pc \in Ensuring => mine \in Bundle
    /\ pc \in Working => work \in Doc

\* Leftovers of a record go with a journal that is complete and asks for it.
LeftoverInv ==
    IsStale(release) => /\ ~IsStale(journal)
                        /\ Unfinished # Absent => Unfinished \in Doc /\ Unfinished.phase = "Healthy"

\* Nothing is under way: the SCM entry, if any, starts the recorded release.
Settled ==
    /\ binary["previous"] = Absent
    /\ image # Absent => Recorded \in Bundle /\ binary[image] = Recorded

\* The candidate is in place, or a rollback has deleted it and nothing runs.
Switched(d) ==
    /\ image = "live" /\ binary["live"] \in {d.candidate, Absent}
    /\ binary["live"] = Absent => running = Absent

\* A rollback has put the previous binary back, and perhaps another has deleted it.
CutShort(d) ==
    /\ image = "live" /\ binary["previous"] = Absent
    /\ binary["live"] \in {d.previous, Absent} /\ running \in {Absent, binary["live"]}

\* What a journal of an upgrade says about the binaries.
UpgradeFits(d) ==
    /\ d.phase = "Staged" =>
           Recorded = d.previous /\ binary[image] = d.previous /\ binary["previous"] = Absent
    /\ d.phase = "OldStopped" =>
           /\ Recorded = d.previous
           /\ \/ binary["previous"] = d.previous
              \/ binary["previous"] = Absent /\ binary[image] = d.previous
    /\ d.phase = "ConfigSwitched" =>
           /\ Recorded = d.previous
           /\ (binary["previous"] = d.previous /\ Switched(d)) \/ CutShort(d)
    /\ d.phase = "Healthy" =>
           /\ image = "live" /\ binary["live"] = d.candidate
           /\ \/ Recorded = d.previous /\ binary["previous"] = d.previous
              \/ Recorded = d.candidate /\ binary["previous"] \in {d.previous, Absent}

\* What a journal of a first installation says about them.
InstallFits(d) ==
    /\ binary["previous"] = Absent
    /\ d.phase # "Healthy" => Recorded = Absent
    /\ d.phase = "Staged" => image = Absent
    /\ d.phase = "ConfigSwitched" /\ image # Absent => Switched(d)
    /\ d.phase = "Healthy" /\ image # Absent =>
           /\ image = "live" /\ binary["live"] = d.candidate
           /\ Recorded \in {d.candidate, Absent, Torn}

Fits(d) ==
    /\ d.previous = Absent => InstallFits(d)
    /\ d.previous # Absent /\ image # Absent => UpgradeFits(d)
    /\ d.previous # Absent /\ image = Absent => binary["previous"] \in {d.previous, Absent}

FoundFits == IF Unfinished \in {Absent, Torn} THEN Settled ELSE Fits(Unfinished)

\* What the next manager finds goes together, and so does what the present one works on.
FoundInv == FoundFits
FitsInv == pc \in Working => Fits(work)

\* A rollback has put the previous binary back and has not yet cleared the journal.
Restored == pc \in {"undo start", "undo clear"} /\ work.previous # Absent
RestoredInv ==
    Restored => /\ image = "live" /\ Recorded = work.previous
                /\ binary["live"] = work.previous /\ binary["previous"] = Absent
                /\ pc = "undo start" => running \in {Absent, work.previous}

\* What a manager that works on an upgrade has found and written.
WorkInv ==
    pc \in Working =>
        /\ work.candidate = mine /\ Recorded \in {work.previous, mine} /\ ~IsStale(release)
        /\ work.previous # Absent /\ pc # "undo clear" => image # Absent
        /\ pc \notin {"stage", "persist"} => journal = Replaced(work)

PhaseOf(step) ==
    CASE step = "stop" -> "Staged"
      [] step \in {"retain", "promote", "register"} -> "OldStopped"
      [] step \in {"record", "discard previous", "discard candidate", "clear"} -> "Healthy"
      [] OTHER -> "ConfigSwitched"

StepInv ==
    /\ pc \in Working \ {"stage", "persist"} => work.phase = PhaseOf(pc)
    /\ pc \in {"persist", "stop", "retain", "promote"}
          /\ work.phase \in {"Staged", "OldStopped"} => binary["candidate"] = mine
    /\ pc \in {"promote", "register"} => binary["previous"] = work.previous
    /\ pc = "register" => binary["live"] = mine
    /\ pc \in {"discard previous", "discard candidate", "clear"} => Recorded = mine
    /\ pc \in {"discard candidate", "clear"} => binary["previous"] = Absent
    /\ pc = "undo delete" /\ image # Absent => running \in {Absent, binary["live"]}
    /\ pc = "undo rename" => work.previous # Absent /\ binary["live"] = Absent
    /\ pc \in {"undo candidate", "undo install"} => work.previous = Absent
    /\ pc = "undo start" => work.previous # Absent
    /\ pc = "undo clear" /\ work.previous = Absent => image = Absent

\* What a manager knows at the other steps.
LoadInv ==
    /\ pc \in {"journal", "keep"} =>
           /\ ~IsStale(release) /\ Recorded # Torn /\ (image # Absent => Recorded # Absent)
           /\ Decide(mine, Recorded) # "refused"
    /\ pc = "keep" => Recorded = mine /\ Unfinished = Absent
    /\ pc = "publish" => /\ Recorded = mine /\ Unfinished = Absent
                         /\ image # Absent => image = "live"
    /\ pc \in Removing => image = Absent
    /\ pc \in {"remove record", "remove journal", "remove directory"} => binary["previous"] = Absent
    /\ pc \in {"remove journal", "remove directory"} => release.path = Absent

IInv ==
    /\ TypeInv /\ LeftoverInv /\ FoundInv /\ FitsInv /\ RestoredInv
    /\ WorkInv /\ StepInv /\ LoadInv /\ OutcomeTruthful


-----------------------------------------------------------------------------
(* Releases, journals and files *)

LEMMA BundleIs ==
    \A r \in Bundle : r \in Nat /\ r # Absent /\ r # Torn /\ VersionOf(r) \in Nat
  BY UpgradeOK DEF VersionOf

LEMMA DocIs ==
    ASSUME NEW d \in Doc
    PROVE  /\ d.candidate \in Bundle /\ d.previous \in Bundle \cup {Absent} /\ d.phase \in Phase
           /\ d # Absent /\ d # Torn
           /\ d.previous # Absent => VersionOf(d.candidate) > VersionOf(d.previous)
  BY UpgradeOK DEF Doc, JournalDoc

LEMMA AdvancedDoc ==
    ASSUME NEW d \in Doc, NEW p \in Phase
    PROVE  /\ [d EXCEPT !.phase = p] \in Doc
           /\ [d EXCEPT !.phase = p].candidate = d.candidate
           /\ [d EXCEPT !.phase = p].previous = d.previous
           /\ [d EXCEPT !.phase = p].phase = p
  BY DEF Doc, JournalDoc

LEMMA FilesAre ==
    ASSUME TypeInv
    PROVE  /\ Recorded \in Bundle \cup {Absent, Torn} /\ Unfinished \in Doc \cup {Absent, Torn}
           /\ Recovered(release) = Replaced(Recorded) /\ Recovered(journal) = Replaced(Unfinished)
           /\ ~IsStale(release) => release.path = Recorded
           /\ ~IsStale(journal) => journal.path = Unfinished
<1> USE DEF TypeInv
<1>1. Recorded = Found(release) /\ Unfinished = Found(journal)
  BY DEF Recorded, Unfinished, Found
<1>2. Recorded \in Bundle \cup {Absent, Torn} /\ Unfinished \in Doc \cup {Absent, Torn}
  BY <1>1, FoundType
<1> QED BY <1>1, <1>2, FoundIs DEF IsStale

\* A file that is replaced as a whole, found again.
LEMMA ReleaseReplaced ==
    ASSUME NEW r \in Bundle \cup {Absent, Torn}, release' = Replaced(r)
    PROVE  /\ release' \in FileOf(Bundle) /\ ~IsAmbiguous(release') /\ ~IsStale(release')
           /\ Recorded' = r
  BY ReplacedFile DEF Recorded, Found

LEMMA JournalReplaced ==
    ASSUME NEW d \in Doc \cup {Absent, Torn}, journal' = Replaced(d)
    PROVE  /\ journal' \in FileOf(Doc) /\ ~IsAmbiguous(journal') /\ ~IsStale(journal')
           /\ Unfinished' = d
  BY ReplacedFile DEF Unfinished, Found

LEMMA NothingLeft == NoFile = Replaced(Absent)
  BY DEF NoFile, Replaced

\* The removal of one name of a file.
LEMMA PathRemoved ==
    ASSUME NEW D, NEW f \in FileOf(D), NEW g, g = [f EXCEPT !.path = Absent]
    PROVE  /\ g \in FileOf(D) /\ ~IsAmbiguous(g) /\ g.path = Absent
           /\ Found(g) \in D \cup {Absent, Torn}
           /\ IsStale(g) <=> IsStale(f)
           /\ ~IsStale(f) => Found(g) = Absent
<1>1. g \in FileOf(D) /\ g.path = Absent /\ g.new = f.new /\ g.bak = f.bak
  BY DEF FileOf
<1> QED BY <1>1, FoundIs, FoundType DEF IsAmbiguous, IsStale

\* A recovery that is cut short leaves no leftovers where there were none.
LEMMA RecoveryLeaves ==
    ASSUME NEW D, NEW f \in FileOf(D), ~IsStale(f), NEW g \in RecoverFailures(f)
    PROVE  g = f
<1>1. Recovered(f) = f
  BY DEF FileOf, Recovered, Replaced, IsStale
<1> QED BY <1>1 DEF RecoverFailures, IsStale

\* What a manager that is interrupted leaves of the record and of the journal.
LEMMA InterruptedFiles ==
    ASSUME TypeInv, Interrupted
    PROVE  /\ release' \in FileOf(Bundle) /\ ~IsAmbiguous(release')
           /\ journal' \in FileOf(Doc) /\ ~IsAmbiguous(journal')
           /\ \/ Recorded' = Recorded
              \/ pc = "record" /\ Recorded' = work.candidate
              \/ pc = "record" /\ Recorded' = Torn /\ Recorded \in {Absent, Torn}
           /\ \/ Unfinished' = Unfinished
              \/ pc = "persist" /\ Unfinished' = work
              \/ pc = "persist" /\ Unfinished' = Torn /\ Unfinished \in {Absent, Torn}
           /\ pc # "record" /\ ~IsStale(release) => release' = release
           /\ pc # "persist" /\ ~IsStale(journal) => journal' = journal
<1> USE DEF TypeInv
<1>1. /\ Recorded = Found(release) /\ Recorded' = Found(release')
      /\ Unfinished = Found(journal) /\ Unfinished' = Found(journal')
  BY DEF Recorded, Unfinished, Found
<1>2. /\ Recovered(release) = Replaced(Recorded) /\ Recorded \in Bundle \cup {Absent, Torn}
      /\ Recovered(journal) = Replaced(Unfinished) /\ Unfinished \in Doc \cup {Absent, Torn}
  BY FilesAre
<1>3. /\ Recovered(release) \in FileOf(Bundle) /\ ~IsAmbiguous(Recovered(release))
      /\ Found(Recovered(release)) = Recorded
  BY <1>2, ReplacedFile
<1>4. /\ Recovered(journal) \in FileOf(Doc) /\ ~IsAmbiguous(Recovered(journal))
      /\ Found(Recovered(journal)) = Unfinished
  BY <1>2, ReplacedFile
<1>5. /\ release' \in FileOf(Bundle) /\ ~IsAmbiguous(release')
      /\ \/ Recorded' = Recorded
         \/ pc = "record" /\ Recorded' = work.candidate
         \/ pc = "record" /\ Recorded' = Torn /\ Recorded \in {Absent, Torn}
      /\ pc # "record" /\ ~IsStale(release) => release' = release
  <2>1. CASE release' = release
    BY <2>1, <1>1
  <2>2. CASE release' \in RecoverFailures(release)
    BY <2>2, <1>1, RecoveryInterrupted, RecoveryLeaves
  <2>3. CASE pc = "record" /\ release' \in ReplaceCrashes(Recovered(release), work.candidate)
    <3>1. work.candidate \in Bundle /\ work.candidate # Absent /\ work.candidate # Torn
      BY <2>3, DocIs, BundleIs DEF Working
    <3> QED BY <2>3, <3>1, <1>1, <1>3, ReplaceInterrupted
  <2> QED BY <2>1, <2>2, <2>3 DEF Interrupted
<1>6. /\ journal' \in FileOf(Doc) /\ ~IsAmbiguous(journal')
      /\ \/ Unfinished' = Unfinished
         \/ pc = "persist" /\ Unfinished' = work
         \/ pc = "persist" /\ Unfinished' = Torn /\ Unfinished \in {Absent, Torn}
      /\ pc # "persist" /\ ~IsStale(journal) => journal' = journal
  <2>1. CASE journal' = journal
    BY <2>1, <1>1
  <2>2. CASE journal' \in RecoverFailures(journal)
    BY <2>2, <1>1, RecoveryInterrupted, RecoveryLeaves
  <2>3. CASE pc = "persist" /\ journal' \in ReplaceCrashes(Recovered(journal), work)
    <3>1. work \in Doc /\ work # Absent /\ work # Torn
      BY <2>3, DocIs DEF Working
    <3> QED BY <2>3, <3>1, <1>1, <1>4, ReplaceInterrupted
  <2> QED BY <2>1, <2>2, <2>3 DEF Interrupted
<1> QED BY <1>5, <1>6

-----------------------------------------------------------------------------
(* Types *)

LEMMA StartedType == TypeInv => Started \in Bundle \cup {Absent}
  BY DEF TypeInv, Started, Place

\* A new journal is that of an installation or of an upgrade to a newer version.
LEMMA NewDoc ==
    ASSUME TypeInv, LoadInv, pc = "journal", Decide(mine, release.path) # "KeepCompatible"
    PROVE  /\ NewJournal(release.path) \in Doc /\ release.path = Recorded
           /\ Decide(mine, release.path) = "Install" => Recorded = Absent
<1>1. release.path = Recorded /\ Recorded \in Bundle \cup {Absent} /\ mine \in Bundle
  BY FilesAre DEF LoadInv, TypeInv, Ensuring
<1>2. Recorded # Absent => VersionOf(mine) > VersionOf(Recorded)
  BY <1>1 DEF Decide, LoadInv
<1>3. NewJournal(release.path) \in JournalDoc
  BY <1>1 DEF NewJournal, JournalDoc, Phase
<1>4. NewJournal(release.path).candidate = mine /\ NewJournal(release.path).previous = Recorded
  BY <1>1 DEF NewJournal
<1>5. Decide(mine, release.path) = "Install" => Recorded = Absent
  BY <1>1 DEF Decide
<1> QED BY <1>1, <1>2, <1>3, <1>4, <1>5 DEF Doc

LEMMA TypeStep == TypeInv /\ WorkInv /\ LoadInv /\ [Next]_vars => TypeInv'
<1> SUFFICES ASSUME TypeInv, WorkInv, LoadInv, [Next]_vars PROVE TypeInv'
  OBVIOUS
<1> USE DEF TypeInv, Steps, Working, Ensuring, Removing, Place, disk, scm, memory,
        vars
<1>1. ASSUME NEW b \in Bundle, Ensure(b) PROVE TypeInv'
  BY <1>1 DEF Ensure
<1>2. CASE Remove
  BY <1>2 DEF Remove
<1>3. CASE LoadRelease
  BY <1>3, FilesAre, ReleaseReplaced DEF LoadRelease, Goto, Returns
<1>4. CASE LoadJournal
  <2>1. /\ journal' \in FileOf(Doc) /\ ~IsAmbiguous(journal')
        /\ mine' = mine /\ UNCHANGED <<release, binary, image, running>>
    BY <1>4, FilesAre, JournalReplaced DEF LoadJournal, Goto, Returns
  <2>2. pc' \in {"idle", "keep", "stage"} /\ pc = "journal"
    BY <1>4 DEF LoadJournal, Goto, Returns
  <2>3. pc' = "stage" => work' \in Doc
    <3>1. CASE work' = Unfinished /\ Unfinished \notin {Absent, Torn}
      BY <3>1, FilesAre
    <3>2. CASE work' = NewJournal(release.path) /\ Decide(mine, release.path) # "KeepCompatible"
      BY <2>2, <3>2, NewDoc
    <3> QED BY <1>4, <3>1, <3>2 DEF LoadJournal, Goto, Returns, Unfinished
  <2> QED BY <2>1, <2>2, <2>3
<1>5. CASE KeepCompatible
  BY <1>5, StartedType DEF KeepCompatible, Returns
<1>6. CASE StageCandidate
  BY <1>6 DEF StageCandidate, Goto, Returns
<1>7. CASE PersistJournal
  BY <1>7, DocIs, JournalReplaced DEF PersistJournal, StepOf, Goto, Returns, Phase
<1>8. CASE StopService
  BY <1>8, AdvancedDoc DEF StopService, Advance, Phase
<1>9. CASE RetainPrevious
  <2>1. binary' \in [Place -> Bundle \cup {Absent}]
    <3>1. CASE image \in Place
      BY <1>9, <3>1 DEF RetainPrevious, Renamed, Deleted
    <3>2. CASE image \notin Place
      BY <1>9, <3>2 DEF RetainPrevious, Renamed, Deleted, WorkInv
    <3> QED BY <3>1, <3>2
  <2> QED BY <1>9, <2>1 DEF RetainPrevious, Goto, Returns
<1>10. CASE PromoteCandidate
  BY <1>10 DEF PromoteCandidate, Renamed, Goto
<1>11. CASE RegisterService
  BY <1>11, AdvancedDoc DEF RegisterService, CreateSystemService,
       ChangeServiceImagePath, Advance, Phase
<1>12. CASE VerifyCandidateHealth
  BY <1>12, StartedType, AdvancedDoc DEF VerifyCandidateHealth, Advance, Goto, Phase
<1>13. CASE RecordRelease
  BY <1>13, DocIs, ReleaseReplaced DEF RecordRelease, Goto, Returns
<1>14. CASE DiscardPrevious
  BY <1>14 DEF DiscardPrevious, Deleted, Goto, Returns
<1>15. CASE DiscardCandidate
  BY <1>15 DEF DiscardCandidate, Deleted, Goto
<1>16. CASE ClearJournal
  BY <1>16, NothingLeft, JournalReplaced DEF ClearJournal, Returns
<1>17. CASE PublishUninstallEntry
  BY <1>17 DEF PublishUninstallEntry
<1>18. CASE RollbackStops
  BY <1>18 DEF RollbackStops, Goto
<1>19. CASE RollbackDeletes
  BY <1>19 DEF RollbackDeletes, Deleted, Goto, Returns
<1>20. CASE RestorePrevious
  BY <1>20 DEF RestorePrevious, Renamed, Goto, Returns
<1>21. CASE StartPrevious
  BY <1>21 DEF StartPrevious, Goto, Returns
<1>22. CASE RollbackDeletesCandidate
  BY <1>22 DEF RollbackDeletesCandidate, Deleted, Goto
<1>23. CASE UndoInstall
  BY <1>23 DEF UndoInstall, Goto, Returns
<1>24. CASE ClearRolledBack
  BY <1>24, NothingLeft, JournalReplaced DEF ClearRolledBack, Returns
<1>25. CASE RemoveService
  BY <1>25 DEF RemoveService, Goto
<1>26. CASE RemoveEntry
  BY <1>26 DEF RemoveEntry, Goto
<1>27. CASE RemoveBinaries
  BY <1>27 DEF RemoveBinaries, RemoveBinary, Deleted, Goto, Returns
<1>28. CASE RemoveRecord
  BY <1>28, PathRemoved DEF RemoveRecord, Goto
<1>29. CASE RemoveJournal
  BY <1>29, PathRemoved DEF RemoveJournal, Goto
<1>30. CASE RemoveDirectory
  BY <1>30, NothingLeft, JournalReplaced, ReleaseReplaced DEF RemoveDirectory,
       Returns
<1>31. CASE Interrupted
  BY <1>31, InterruptedFiles DEF Interrupted, Returns
<1>32. CASE HealthFails
  BY <1>32, StartedType DEF HealthFails, Goto
<1>33. CASE ClientStarts
  BY <1>33, StartedType DEF ClientStarts
<1>34. CASE ServiceEnds
  BY <1>34 DEF ServiceEnds
<1>35. CASE UNCHANGED vars
  BY <1>35
<1>36. CASE LeaveState
  BY <1>36 DEF LeaveState, Returns
<1> QED BY <1>1, <1>2, <1>3, <1>4, <1>5, <1>6, <1>7, <1>8, <1>9, <1>10, <1>11,
           <1>12, <1>13, <1>14, <1>15, <1>16, <1>17, <1>18, <1>19, <1>20, <1>21,
           <1>22, <1>23, <1>24, <1>25, <1>26, <1>27, <1>28, <1>29, <1>30, <1>31,
           <1>32, <1>33, <1>34, <1>35, <1>36
           DEF Next, Step

-----------------------------------------------------------------------------
(* Record and journal *)

LEMMA FilesKept ==
    /\ UNCHANGED release => Recorded' = Recorded
    /\ UNCHANGED journal => Unfinished' = Unfinished
  BY DEF Recorded, Unfinished

\* Once it is persisted, the journal the manager works with is the one on disk.
LEMMA WorkFound ==
    ASSUME TypeInv, WorkInv, pc \in Working \ {"stage", "persist"}
    PROVE  Unfinished = work /\ ~IsStale(journal) /\ Unfinished \in Doc /\ Unfinished \notin {Absent, Torn}
<1>1. work \in Doc /\ journal = Replaced(work)
  BY DEF TypeInv, WorkInv
<1>2. Unfinished = work /\ ~IsStale(journal)
  BY <1>1, ReplacedFile DEF Unfinished, Found
<1> QED BY <1>1, <1>2, DocIs

\* From the health check to the end the candidate is what the SCM entry starts.
LEMMA CandidateInPlace ==
    ASSUME WorkInv, StepInv, FitsInv,
           pc \in {"record", "discard previous", "discard candidate", "clear"}
    PROVE  image # Absent => image = "live" /\ binary["live"] = mine
<1>1. work.phase = "Healthy" /\ work.candidate = mine
  BY DEF StepInv, Working, PhaseOf, WorkInv
<1> QED BY <1>1 DEF FitsInv, Fits, InstallFits, UpgradeFits, Working

LEMMA LeftoverStep ==
    TypeInv /\ LeftoverInv /\ WorkInv /\ StepInv /\ LoadInv /\
    [Next]_vars => LeftoverInv'
<1> SUFFICES ASSUME TypeInv, LeftoverInv, WorkInv, StepInv, LoadInv, [Next]_vars
             PROVE  LeftoverInv'
  OBVIOUS
<1> USE DEF LeftoverInv, disk, scm, memory, vars
<1>1. ASSUME NEW b \in Bundle, Ensure(b) PROVE LeftoverInv'
  BY <1>1, FilesKept DEF Ensure
<1>2. CASE Remove
  BY <1>2, FilesKept DEF Remove
<1>3. CASE LoadRelease
  BY <1>3, FilesKept, FilesAre, ReleaseReplaced DEF LoadRelease, Goto, Returns,
       TypeInv
<1>4. CASE LoadJournal
  BY <1>4, FilesKept DEF LoadJournal, Goto, Returns, LoadInv
<1>5. CASE KeepCompatible
  BY <1>5, FilesKept DEF KeepCompatible, Returns
<1>6. CASE StageCandidate
  BY <1>6, FilesKept DEF StageCandidate, Goto, Returns
<1>7. CASE PersistJournal
  BY <1>7, FilesKept DEF PersistJournal, StepOf, Goto, Returns, WorkInv, Working
<1>8. CASE StopService
  BY <1>8, FilesKept DEF StopService, Advance
<1>9. CASE RetainPrevious
  BY <1>9, FilesKept DEF RetainPrevious, Renamed, Deleted, Goto, Returns
<1>10. CASE PromoteCandidate
  BY <1>10, FilesKept DEF PromoteCandidate, Renamed, Goto
<1>11. CASE RegisterService
  BY <1>11, FilesKept DEF RegisterService, CreateSystemService,
       ChangeServiceImagePath, Advance
<1>12. CASE VerifyCandidateHealth
  BY <1>12, FilesKept DEF VerifyCandidateHealth, Advance, Goto
<1>13. CASE RecordRelease
  BY <1>13, FilesKept, FilesAre, DocIs, ReleaseReplaced DEF RecordRelease, Goto,
       Returns, WorkInv, Working, TypeInv
<1>14. CASE DiscardPrevious
  BY <1>14, FilesKept DEF DiscardPrevious, Deleted, Goto, Returns
<1>15. CASE DiscardCandidate
  BY <1>15, FilesKept DEF DiscardCandidate, Deleted, Goto
<1>16. CASE ClearJournal
  BY <1>16, FilesKept DEF ClearJournal, Returns, WorkInv, Working
<1>17. CASE PublishUninstallEntry
  BY <1>17, FilesKept DEF PublishUninstallEntry
<1>18. CASE RollbackStops
  BY <1>18, FilesKept DEF RollbackStops, Goto
<1>19. CASE RollbackDeletes
  BY <1>19, FilesKept DEF RollbackDeletes, Deleted, Goto, Returns
<1>20. CASE RestorePrevious
  BY <1>20, FilesKept DEF RestorePrevious, Renamed, Goto, Returns
<1>21. CASE StartPrevious
  BY <1>21, FilesKept DEF StartPrevious, Goto, Returns
<1>22. CASE RollbackDeletesCandidate
  BY <1>22, FilesKept DEF RollbackDeletesCandidate, Deleted, Goto
<1>23. CASE UndoInstall
  BY <1>23, FilesKept DEF UndoInstall, Goto, Returns
<1>24. CASE ClearRolledBack
  BY <1>24, FilesKept DEF ClearRolledBack, Returns, WorkInv, Working
<1>25. CASE RemoveService
  BY <1>25, FilesKept DEF RemoveService, Goto
<1>26. CASE RemoveEntry
  BY <1>26, FilesKept DEF RemoveEntry, Goto
<1>27. CASE RemoveBinaries
  BY <1>27, FilesKept DEF RemoveBinaries, RemoveBinary, Deleted, Goto, Returns
<1>28. CASE RemoveRecord
  BY <1>28, FilesKept, PathRemoved DEF RemoveRecord, Goto, TypeInv
<1>29. CASE RemoveJournal
  BY <1>29, FilesKept, PathRemoved DEF RemoveJournal, Goto, TypeInv, Unfinished,
       Found
<1>30. CASE RemoveDirectory
  BY <1>30, FilesKept, NothingLeft, ReleaseReplaced DEF RemoveDirectory, Returns
<1>31. CASE Interrupted
  <2>1. CASE pc = "record"
    BY <1>31, <2>1, InterruptedFiles, WorkFound DEF Interrupted, StepInv, PhaseOf, Working
  <2>2. CASE pc \in {"journal", "persist", "clear", "undo clear"}
    BY <1>31, <2>2, InterruptedFiles DEF WorkInv, LoadInv, Working
  <2>3. CASE pc \notin {"record", "journal", "persist", "clear", "undo clear"}
    <3>1. journal' = journal
      BY <1>31, <2>3 DEF Interrupted
    <3> QED BY <2>3, <3>1, <1>31, InterruptedFiles, FilesKept
  <2> QED BY <2>1, <2>2, <2>3
<1>32. CASE HealthFails
  BY <1>32, FilesKept DEF HealthFails, Goto
<1>33. CASE ClientStarts
  BY <1>33, FilesKept DEF ClientStarts
<1>34. CASE ServiceEnds
  BY <1>34, FilesKept DEF ServiceEnds
<1>35. CASE UNCHANGED vars
  BY <1>35, FilesKept
<1>36. CASE LeaveState
  BY <1>36, FilesKept DEF LeaveState, Returns
<1> QED BY <1>1, <1>2, <1>3, <1>4, <1>5, <1>6, <1>7, <1>8, <1>9, <1>10, <1>11,
           <1>12, <1>13, <1>14, <1>15, <1>16, <1>17, <1>18, <1>19, <1>20, <1>21,
           <1>22, <1>23, <1>24, <1>25, <1>26, <1>27, <1>28, <1>29, <1>30, <1>31,
           <1>32, <1>33, <1>34, <1>35, <1>36
           DEF Next, Step

LEMMA LoadStep ==
    TypeInv /\ FitsInv /\ WorkInv /\ StepInv /\ LoadInv /\ [Next]_vars => LoadInv'
<1> SUFFICES ASSUME TypeInv, FitsInv, WorkInv, StepInv, LoadInv, [Next]_vars PROVE LoadInv'
  OBVIOUS
<1> USE DEF LoadInv, Removing, disk, scm, memory, vars
<1>1. ASSUME NEW b \in Bundle, Ensure(b) PROVE LoadInv'
  BY <1>1, FilesKept DEF Ensure
<1>2. CASE Remove
  BY <1>2, FilesKept DEF Remove
<1>3. CASE LoadRelease
  <2>1. Recorded' = Recorded /\ ~IsStale(release')
    BY <1>3, FilesAre, ReleaseReplaced DEF LoadRelease, TypeInv
  <2>2. /\ pc' \in {"idle", "journal"} /\ mine' = mine /\ image' = image
        /\ pc' = "journal" => /\ Recorded # Torn /\ (image # Absent => Recorded # Absent)
                              /\ Decide(mine, Recorded) # "refused"
    BY <1>3 DEF LoadRelease, Goto, Returns, Recorded
  <2> QED BY <2>1, <2>2
<1>4. CASE LoadJournal
  <2>1. /\ pc = "journal" /\ Recorded' = Recorded /\ mine' = mine /\ image' = image
        /\ release' = release /\ pc' \in {"idle", "keep", "stage"}
    BY <1>4, FilesKept DEF LoadJournal, Goto, Returns
  <2>2. pc' = "keep" => Unfinished = Absent /\ Decide(mine, release.path) = "KeepCompatible"
    BY <1>4 DEF LoadJournal, Goto, Returns, Unfinished
  <2>3. pc' = "keep" => Unfinished' = Absent
    BY <1>4, <2>2, FilesAre, JournalReplaced DEF LoadJournal, TypeInv
  <2>4. release.path = Recorded /\ Recorded \in Bundle \cup {Absent} /\ mine \in Bundle
    BY <2>1, FilesAre DEF TypeInv, Ensuring
  <2>5. pc' = "keep" => Recorded = mine
    BY <2>2, <2>4 DEF Decide
  <2> QED BY <2>1, <2>3, <2>5
<1>5. CASE KeepCompatible
  BY <1>5, FilesKept DEF KeepCompatible, Returns, IsManaged
<1>6. CASE StageCandidate
  BY <1>6, FilesKept DEF StageCandidate, Goto, Returns
<1>7. CASE PersistJournal
  BY <1>7, FilesKept, DocIs DEF PersistJournal, StepOf, Goto, Returns, TypeInv,
       Working, Phase
<1>8. CASE StopService
  BY <1>8, FilesKept DEF StopService, Advance
<1>9. CASE RetainPrevious
  BY <1>9, FilesKept DEF RetainPrevious, Renamed, Deleted, Goto, Returns
<1>10. CASE PromoteCandidate
  BY <1>10, FilesKept DEF PromoteCandidate, Renamed, Goto
<1>11. CASE RegisterService
  BY <1>11, FilesKept DEF RegisterService, CreateSystemService,
       ChangeServiceImagePath, Advance
<1>12. CASE VerifyCandidateHealth
  BY <1>12, FilesKept DEF VerifyCandidateHealth, Advance, Goto
<1>13. CASE RecordRelease
  BY <1>13, FilesKept DEF RecordRelease, Goto, Returns
<1>14. CASE DiscardPrevious
  BY <1>14, FilesKept DEF DiscardPrevious, Deleted, Goto, Returns
<1>15. CASE DiscardCandidate
  BY <1>15, FilesKept DEF DiscardCandidate, Deleted, Goto
<1>16. CASE ClearJournal
  BY <1>16, FilesKept, NothingLeft, JournalReplaced, CandidateInPlace DEF
       ClearJournal, Returns, StepInv
<1>17. CASE PublishUninstallEntry
  BY <1>17, FilesKept DEF PublishUninstallEntry
<1>18. CASE RollbackStops
  BY <1>18, FilesKept DEF RollbackStops, Goto
<1>19. CASE RollbackDeletes
  BY <1>19, FilesKept DEF RollbackDeletes, Deleted, Goto, Returns
<1>20. CASE RestorePrevious
  BY <1>20, FilesKept DEF RestorePrevious, Renamed, Goto, Returns
<1>21. CASE StartPrevious
  BY <1>21, FilesKept DEF StartPrevious, Goto, Returns
<1>22. CASE RollbackDeletesCandidate
  BY <1>22, FilesKept DEF RollbackDeletesCandidate, Deleted, Goto
<1>23. CASE UndoInstall
  BY <1>23, FilesKept DEF UndoInstall, Goto, Returns
<1>24. CASE ClearRolledBack
  BY <1>24, FilesKept DEF ClearRolledBack, Returns
<1>25. CASE RemoveService
  BY <1>25, FilesKept DEF RemoveService, Goto
<1>26. CASE RemoveEntry
  BY <1>26, FilesKept DEF RemoveEntry, Goto
<1>27. CASE RemoveBinaries
  BY <1>27, FilesKept DEF RemoveBinaries, RemoveBinary, Deleted, Goto, Returns,
       TypeInv, Place
<1>28. CASE RemoveRecord
  BY <1>28, FilesKept, PathRemoved DEF RemoveRecord, Goto, TypeInv
<1>29. CASE RemoveJournal
  BY <1>29, FilesKept DEF RemoveJournal, Goto
<1>30. CASE RemoveDirectory
  BY <1>30, FilesKept DEF RemoveDirectory, Returns
<1>31. CASE Interrupted
  BY <1>31, FilesKept DEF Interrupted, Returns
<1>32. CASE HealthFails
  BY <1>32, FilesKept DEF HealthFails, Goto
<1>33. CASE ClientStarts
  BY <1>33, FilesKept DEF ClientStarts
<1>34. CASE ServiceEnds
  BY <1>34, FilesKept DEF ServiceEnds
<1>35. CASE UNCHANGED vars
  BY <1>35, FilesKept
<1>36. CASE LeaveState
  BY <1>36, FilesKept DEF LeaveState, Returns
<1> QED BY <1>1, <1>2, <1>3, <1>4, <1>5, <1>6, <1>7, <1>8, <1>9, <1>10, <1>11,
           <1>12, <1>13, <1>14, <1>15, <1>16, <1>17, <1>18, <1>19, <1>20, <1>21,
           <1>22, <1>23, <1>24, <1>25, <1>26, <1>27, <1>28, <1>29, <1>30, <1>31,
           <1>32, <1>33, <1>34, <1>35, <1>36
           DEF Next, Step

-----------------------------------------------------------------------------
(* The manager's work *)

\* Starting and stopping the service does not disturb what fits.
LEMMA FitsKept ==
    ASSUME TypeInv, image' = image, \A p \in Place \ {"candidate"} : binary'[p] = binary[p],
           Recorded' = Recorded, running' \in {running, Started, Absent}
    PROVE  /\ FoundFits /\ Unfinished' = Unfinished => FoundFits'
           /\ Fits(work) /\ work' = work => Fits(work)'
<1>1. /\ binary'["live"] = binary["live"] /\ binary'["previous"] = binary["previous"]
      /\ image # Absent => binary'[image] = binary[image]
  BY DEF TypeInv, Place
<1>2. image = "live" /\ binary["live"] = Absent /\ running = Absent => running' = Absent
  BY DEF Started
<1>3. \A d : Switched(d) => Switched(d)'
  BY <1>1, <1>2 DEF Switched
<1>4. \A d : CutShort(d) => CutShort(d)'
  BY <1>1, UpgradeOK DEF CutShort, Started, Place
<1>5. ASSUME NEW d, Fits(d) PROVE Fits(d)'
  <2>1. InstallFits(d) => InstallFits(d)'
    BY <1>1, <1>3 DEF InstallFits
  <2>2. image # Absent /\ UpgradeFits(d) => UpgradeFits(d)'
    BY <1>1, <1>3, <1>4 DEF UpgradeFits
  <2> QED BY <1>1, <1>5, <2>1, <2>2 DEF Fits
<1>6. Settled => Settled'
  BY <1>1 DEF Settled
<1>7. \A d : d = Unfinished /\ Unfinished' = Unfinished /\ Fits(Unfinished) => Fits(Unfinished)'
  BY <1>5
<1>8. \A d : d = work /\ work' = work /\ Fits(work) => Fits(work)'
  BY <1>5
<1> QED BY <1>6, <1>7, <1>8 DEF FoundFits

LEMMA WorkStep == TypeInv /\ WorkInv /\ StepInv /\ LoadInv /\ [Next]_vars => WorkInv'
<1> SUFFICES ASSUME TypeInv, WorkInv, StepInv, LoadInv, [Next]_vars PROVE WorkInv'
  OBVIOUS
<1> USE DEF WorkInv, Working, disk, scm, memory, vars
<1>1. ASSUME NEW b \in Bundle, Ensure(b) PROVE WorkInv'
  BY <1>1, FilesKept DEF Ensure
<1>2. CASE Remove
  BY <1>2, FilesKept DEF Remove
<1>3. CASE LoadRelease
  BY <1>3, FilesKept DEF LoadRelease, Goto, Returns
<1>4. CASE LoadJournal
  <2>1. /\ pc = "journal" /\ Recorded' = Recorded /\ mine' = mine /\ image' = image
        /\ release' = release /\ pc' \in {"idle", "keep", "stage"}
    BY <1>4, FilesKept DEF LoadJournal, Goto, Returns
  <2>2. ~IsStale(release) /\ release.path = Recorded /\ (image # Absent => Recorded # Absent)
    BY <2>1, FilesAre DEF LoadInv
  <2>3. pc' = "stage" => /\ work'.candidate = mine /\ Recorded \in {work'.previous, mine}
                         /\ work'.previous # Absent => image # Absent
    <3>1. CASE IsResumable(Unfinished, release.path) /\ work' = Unfinished
      BY <2>2, <3>1 DEF IsResumable
    <3>2. CASE /\ work' = NewJournal(release.path) /\ Decide(mine, release.path) # "KeepCompatible"
               /\ Decide(mine, release.path) = "Install" \/ image # Absent
      BY <2>1, <2>2, <3>2, NewDoc DEF NewJournal
    <3> QED BY <1>4, <3>1, <3>2 DEF LoadJournal, Goto, Returns, Unfinished
  <2> QED BY <2>1, <2>2, <2>3
<1>5. CASE KeepCompatible
  BY <1>5, FilesKept DEF KeepCompatible, Returns
<1>6. CASE StageCandidate
  BY <1>6, FilesKept DEF StageCandidate, Goto, Returns
<1>7. CASE PersistJournal
  BY <1>7, FilesKept, DocIs DEF PersistJournal, StepOf, Goto, Returns, TypeInv,
       Phase
<1>8. CASE StopService
  BY <1>8, FilesKept, AdvancedDoc DEF StopService, Advance, TypeInv, Phase
<1>9. CASE RetainPrevious
  BY <1>9, FilesKept DEF RetainPrevious, Renamed, Deleted, Goto, Returns
<1>10. CASE PromoteCandidate
  BY <1>10, FilesKept DEF PromoteCandidate, Renamed, Goto
<1>11. CASE RegisterService
  BY <1>11, FilesKept, AdvancedDoc, UpgradeOK DEF RegisterService,
       CreateSystemService, ChangeServiceImagePath, Advance, TypeInv, Phase, Place
<1>12. CASE VerifyCandidateHealth
  <2>1. CASE pc' = "persist" /\ work' = [work EXCEPT !.phase = "Healthy"]
    <3>1. work'.candidate = work.candidate /\ work'.previous = work.previous
      BY <1>12, <2>1, AdvancedDoc DEF VerifyCandidateHealth, TypeInv, Phase
    <3>2. pc = "start" /\ UNCHANGED <<release, image, mine>>
      BY <1>12 DEF VerifyCandidateHealth, Advance, Goto
    <3> QED BY <2>1, <3>1, <3>2, FilesKept
  <2>2. CASE Goto("undo")
    BY <1>12, <2>2, FilesKept DEF VerifyCandidateHealth, Goto
  <2> QED BY <1>12, <2>1, <2>2 DEF VerifyCandidateHealth, Advance
<1>13. CASE RecordRelease
  BY <1>13, FilesKept, DocIs, ReleaseReplaced DEF RecordRelease, Goto, Returns,
       TypeInv
<1>14. CASE DiscardPrevious
  BY <1>14, FilesKept DEF DiscardPrevious, Deleted, Goto, Returns
<1>15. CASE DiscardCandidate
  BY <1>15, FilesKept DEF DiscardCandidate, Deleted, Goto
<1>16. CASE ClearJournal
  BY <1>16, FilesKept DEF ClearJournal, Returns
<1>17. CASE PublishUninstallEntry
  BY <1>17, FilesKept DEF PublishUninstallEntry
<1>18. CASE RollbackStops
  BY <1>18, FilesKept DEF RollbackStops, Goto
<1>19. CASE RollbackDeletes
  BY <1>19, FilesKept DEF RollbackDeletes, Deleted, Goto, Returns
<1>20. CASE RestorePrevious
  BY <1>20, FilesKept DEF RestorePrevious, Renamed, Goto, Returns
<1>21. CASE StartPrevious
  BY <1>21, FilesKept DEF StartPrevious, Goto, Returns
<1>22. CASE RollbackDeletesCandidate
  BY <1>22, FilesKept DEF RollbackDeletesCandidate, Deleted, Goto
<1>23. CASE UndoInstall
  BY <1>23, FilesKept DEF UndoInstall, Goto, Returns, StepInv
<1>24. CASE ClearRolledBack
  BY <1>24, FilesKept DEF ClearRolledBack, Returns
<1>25. CASE RemoveService
  BY <1>25, FilesKept DEF RemoveService, Goto
<1>26. CASE RemoveEntry
  BY <1>26, FilesKept DEF RemoveEntry, Goto
<1>27. CASE RemoveBinaries
  BY <1>27, FilesKept DEF RemoveBinaries, RemoveBinary, Deleted, Goto, Returns
<1>28. CASE RemoveRecord
  BY <1>28, FilesKept DEF RemoveRecord, Goto
<1>29. CASE RemoveJournal
  BY <1>29, FilesKept DEF RemoveJournal, Goto
<1>30. CASE RemoveDirectory
  BY <1>30, FilesKept DEF RemoveDirectory, Returns
<1>31. CASE Interrupted
  BY <1>31, FilesKept DEF Interrupted, Returns
<1>32. CASE HealthFails
  BY <1>32, FilesKept DEF HealthFails, Goto
<1>33. CASE ClientStarts
  BY <1>33, FilesKept DEF ClientStarts
<1>34. CASE ServiceEnds
  BY <1>34, FilesKept DEF ServiceEnds
<1>35. CASE UNCHANGED vars
  BY <1>35, FilesKept
<1>36. CASE LeaveState
  BY <1>36, FilesKept DEF LeaveState, Returns
<1> QED BY <1>1, <1>2, <1>3, <1>4, <1>5, <1>6, <1>7, <1>8, <1>9, <1>10, <1>11,
           <1>12, <1>13, <1>14, <1>15, <1>16, <1>17, <1>18, <1>19, <1>20, <1>21,
           <1>22, <1>23, <1>24, <1>25, <1>26, <1>27, <1>28, <1>29, <1>30, <1>31,
           <1>32, <1>33, <1>34, <1>35, <1>36
           DEF Next, Step

LEMMA StepStep == TypeInv /\ FitsInv /\ WorkInv /\ StepInv /\ [Next]_vars => StepInv'
<1> SUFFICES ASSUME TypeInv, FitsInv, WorkInv, StepInv, [Next]_vars PROVE StepInv'
  OBVIOUS
<1> USE DEF StepInv, Working, PhaseOf, disk, scm, memory, vars
<1>1. ASSUME NEW b \in Bundle, Ensure(b) PROVE StepInv'
  BY <1>1, FilesKept DEF Ensure
<1>2. CASE Remove
  BY <1>2, FilesKept DEF Remove
<1>3. CASE LoadRelease
  BY <1>3, FilesKept DEF LoadRelease, Goto, Returns
<1>4. CASE LoadJournal
  BY <1>4, FilesKept DEF LoadJournal, Goto, Returns
<1>5. CASE KeepCompatible
  BY <1>5, FilesKept DEF KeepCompatible, Returns
<1>6. CASE StageCandidate
  BY <1>6, FilesKept DEF StageCandidate, Goto, Returns, TypeInv, Place
<1>7. CASE PersistJournal
  BY <1>7, FilesKept, DocIs DEF PersistJournal, StepOf, Goto, Returns, TypeInv,
       Phase
<1>8. CASE StopService
  BY <1>8, FilesKept, AdvancedDoc DEF StopService, Advance, TypeInv, Phase
<1>9. CASE RetainPrevious
  <2>1. /\ pc = "retain" /\ work.phase = "OldStopped" /\ binary["candidate"] = mine
        /\ work \in Doc /\ (work.previous # Absent => image \in {"live", "legacy"})
    BY <1>9 DEF RetainPrevious, TypeInv, WorkInv
  <2>2. /\ work.previous = Absent => binary["previous"] = Absent
        /\ work.previous # Absent => \/ binary["previous"] = work.previous
                                     \/ binary["previous"] = Absent /\ binary[image] = work.previous
    BY <2>1, UpgradeOK DEF FitsInv, Fits, InstallFits, UpgradeFits, Place
  <2>3. pc' = "promote" => binary'["candidate"] = mine /\ binary'["previous"] = work.previous
    <3>1. CASE work.previous # Absent /\ binary["previous"] = Absent
      BY <1>9, <2>1, <2>2, <3>1 DEF RetainPrevious, Renamed, Goto, Returns, TypeInv, Place
    <3>2. CASE ~(work.previous # Absent /\ binary["previous"] = Absent)
      BY <1>9, <2>1, <2>2, <3>2 DEF RetainPrevious, Deleted, Goto, Returns, TypeInv, Place
    <3> QED BY <3>1, <3>2
  <2> QED BY <1>9, <2>1, <2>3 DEF RetainPrevious, Goto, Returns
<1>10. CASE PromoteCandidate
  BY <1>10, FilesKept DEF PromoteCandidate, Renamed, Goto, TypeInv, Place
<1>11. CASE RegisterService
  BY <1>11, FilesKept, AdvancedDoc DEF RegisterService, CreateSystemService,
       ChangeServiceImagePath, Advance, TypeInv, Phase
<1>12. CASE VerifyCandidateHealth
  <2>1. CASE pc' = "persist" /\ work' = [work EXCEPT !.phase = "Healthy"]
    <3>1. work'.phase = "Healthy"
      BY <1>12, <2>1, AdvancedDoc DEF VerifyCandidateHealth, TypeInv, Phase
    <3> QED BY <2>1, <3>1
  <2>2. CASE Goto("undo")
    BY <1>12, <2>2, FilesKept DEF VerifyCandidateHealth, Goto
  <2> QED BY <1>12, <2>1, <2>2 DEF VerifyCandidateHealth, Advance
<1>13. CASE RecordRelease
  BY <1>13, FilesKept, DocIs, ReleaseReplaced DEF RecordRelease, Goto, Returns,
       TypeInv, WorkInv
<1>14. CASE DiscardPrevious
  BY <1>14, FilesKept DEF DiscardPrevious, Deleted, Goto, Returns, TypeInv, Place
<1>15. CASE DiscardCandidate
  BY <1>15, FilesKept DEF DiscardCandidate, Deleted, Goto, TypeInv, Place
<1>16. CASE ClearJournal
  BY <1>16, FilesKept DEF ClearJournal, Returns
<1>17. CASE PublishUninstallEntry
  BY <1>17, FilesKept DEF PublishUninstallEntry
<1>18. CASE RollbackStops
  BY <1>18, FilesKept DEF RollbackStops, Goto
<1>19. CASE RollbackDeletes
  BY <1>19, FilesKept DEF RollbackDeletes, Deleted, Goto, Returns, TypeInv, Place
<1>20. CASE RestorePrevious
  BY <1>20, FilesKept DEF RestorePrevious, Renamed, Goto, Returns, TypeInv, Place
<1>21. CASE StartPrevious
  BY <1>21, FilesKept DEF StartPrevious, Goto, Returns
<1>22. CASE RollbackDeletesCandidate
  BY <1>22, FilesKept DEF RollbackDeletesCandidate, Deleted, Goto
<1>23. CASE UndoInstall
  BY <1>23, FilesKept DEF UndoInstall, Goto, Returns
<1>24. CASE ClearRolledBack
  BY <1>24, FilesKept DEF ClearRolledBack, Returns
<1>25. CASE RemoveService
  BY <1>25, FilesKept DEF RemoveService, Goto
<1>26. CASE RemoveEntry
  BY <1>26, FilesKept DEF RemoveEntry, Goto
<1>27. CASE RemoveBinaries
  BY <1>27, FilesKept DEF RemoveBinaries, RemoveBinary, Deleted, Goto, Returns
<1>28. CASE RemoveRecord
  BY <1>28, FilesKept DEF RemoveRecord, Goto
<1>29. CASE RemoveJournal
  BY <1>29, FilesKept DEF RemoveJournal, Goto
<1>30. CASE RemoveDirectory
  BY <1>30, FilesKept DEF RemoveDirectory, Returns
<1>31. CASE Interrupted
  BY <1>31, FilesKept DEF Interrupted, Returns
<1>32. CASE HealthFails
  BY <1>32, FilesKept DEF HealthFails, Goto
<1>33. CASE ClientStarts
  <2>1. pc = "undo delete" /\ image # Absent => image = "live"
    BY DEF FitsInv, Fits, InstallFits, UpgradeFits, Switched, CutShort
  <2>2. image # Absent => running' = binary[image]
    BY <1>33 DEF ClientStarts, Started
  <2> QED BY <1>33, <2>1, <2>2, FilesKept DEF ClientStarts
<1>34. CASE ServiceEnds
  BY <1>34, FilesKept DEF ServiceEnds
<1>35. CASE UNCHANGED vars
  BY <1>35, FilesKept
<1>36. CASE LeaveState
  BY <1>36, FilesKept DEF LeaveState, Returns
<1> QED BY <1>1, <1>2, <1>3, <1>4, <1>5, <1>6, <1>7, <1>8, <1>9, <1>10, <1>11,
           <1>12, <1>13, <1>14, <1>15, <1>16, <1>17, <1>18, <1>19, <1>20, <1>21,
           <1>22, <1>23, <1>24, <1>25, <1>26, <1>27, <1>28, <1>29, <1>30, <1>31,
           <1>32, <1>33, <1>34, <1>35, <1>36
           DEF Next, Step

LEMMA FitsStep ==
    TypeInv /\ FoundInv /\ FitsInv /\ RestoredInv /\ WorkInv /\ StepInv /\ StepInv' /\
    LoadInv /\ [Next]_vars => FitsInv'
<1> SUFFICES ASSUME TypeInv, FoundInv, FitsInv, RestoredInv, WorkInv, StepInv, StepInv',
                    LoadInv, [Next]_vars
             PROVE  FitsInv'
  OBVIOUS
<1> USE DEF FitsInv, Working, disk, scm, memory, vars
<1>1. ASSUME NEW b \in Bundle, Ensure(b) PROVE FitsInv'
  BY <1>1, FilesKept DEF Ensure
<1>2. CASE Remove
  BY <1>2, FilesKept DEF Remove
<1>3. CASE LoadRelease
  BY <1>3, FilesKept DEF LoadRelease, Goto, Returns
<1>4. CASE LoadJournal
  <2>1. /\ pc = "journal" /\ Recorded' = Recorded /\ mine' = mine /\ UNCHANGED <<image, running, binary>>
        /\ release' = release /\ pc' \in {"idle", "keep", "stage"}
    BY <1>4, FilesKept DEF LoadJournal, Goto, Returns
  <2>2. pc' = "stage" => Fits(work)'
    <3>1. CASE Unfinished \notin {Absent, Torn} /\ work' = Unfinished
      <4>1. Fits(Unfinished)
        BY <2>1, <3>1 DEF FoundInv, FoundFits
      <4> QED BY <2>1, <3>1, <4>1 DEF Fits, UpgradeFits, InstallFits, Switched, CutShort
    <3>2. CASE /\ work' = NewJournal(release.path) /\ Decide(mine, release.path) # "KeepCompatible"
               /\ Decide(mine, release.path) = "Install" \/ image # Absent
               /\ Unfinished = Absent
      <4>1. Settled /\ release.path = Recorded /\ (image # Absent => Recorded # Absent)
        BY <2>1, <3>2, NewDoc DEF FoundInv, FoundFits, LoadInv
      <4>2. work'.previous = Recorded /\ work'.phase = "Staged"
        BY <3>2, <4>1 DEF NewJournal
      <4>3. Recorded = Absent => image = Absent
        BY <4>1
      <4> QED BY <2>1, <4>1, <4>2, <4>3 DEF Fits, UpgradeFits, InstallFits, Settled
    <3> QED BY <1>4, <3>1, <3>2 DEF LoadJournal, Goto, Returns, Unfinished
  <2> QED BY <2>1, <2>2
<1>5. CASE KeepCompatible
  BY <1>5, FilesKept DEF KeepCompatible, Returns
<1>6. CASE StageCandidate
  <2>1. /\ image' = image /\ running' = running /\ Recorded' = Recorded
        /\ \A p \in Place \ {"candidate"} : binary'[p] = binary[p]
        /\ pc' # "idle" => work' = work
    BY <1>6, FilesKept DEF StageCandidate, Goto, Returns, TypeInv, Place
  <2> QED BY <1>6, <2>1, FitsKept DEF StageCandidate, Goto, Returns
<1>7. CASE PersistJournal
  <2>1. UNCHANGED <<binary, image, work>> /\ Recorded' = Recorded
    BY <1>7, FilesKept DEF PersistJournal, Goto, TypeInv
  <2>2. running' \in {running, Started, Absent}
    BY <1>7 DEF PersistJournal, Goto, TypeInv
  <2> QED BY <1>7, <2>1, <2>2, FitsKept DEF PersistJournal, Goto, TypeInv
<1>8. CASE StopService
  <2>1. /\ pc = "stop" /\ work \in Doc /\ work.phase = "Staged" /\ Fits(work)
        /\ work.candidate = mine /\ (work.previous # Absent => image # Absent)
        /\ work.previous \in Bundle \cup {Absent}
    BY <1>8, DocIs DEF StopService, StepInv, PhaseOf, TypeInv, WorkInv
  <2>2. /\ pc' = "persist" /\ UNCHANGED <<binary, image>> /\ Recorded' = Recorded
        /\ work'.previous = work.previous /\ work'.phase = "OldStopped"
    BY <1>8, <2>1, FilesKept, AdvancedDoc DEF StopService, Advance, Phase
  <2> QED BY <2>1, <2>2 DEF Fits, UpgradeFits, InstallFits
<1>9. CASE RetainPrevious
  <2>1. /\ pc = "retain" /\ work \in Doc /\ work.phase = "OldStopped" /\ Fits(work)
        /\ work.candidate = mine /\ (work.previous # Absent => image # Absent)
        /\ work.previous \in Bundle \cup {Absent}
    BY <1>9, DocIs DEF RetainPrevious, StepInv, PhaseOf, TypeInv, WorkInv
  <2>2. /\ pc' \in {"idle", "promote"} /\ Recorded' = Recorded /\ image' = image
        /\ pc' = "promote" => work' = work /\ binary'["previous"] = work.previous
    BY <1>9, FilesKept DEF RetainPrevious, Goto, Returns, StepInv
  <2> QED BY <2>1, <2>2 DEF Fits, UpgradeFits, InstallFits
<1>10. CASE PromoteCandidate
  <2>1. /\ pc = "promote" /\ work \in Doc /\ work.phase = "OldStopped" /\ Fits(work)
        /\ work.candidate = mine /\ (work.previous # Absent => image # Absent)
        /\ work.previous \in Bundle \cup {Absent}
    BY <1>10, DocIs DEF PromoteCandidate, StepInv, PhaseOf, TypeInv, WorkInv
  <2>2. /\ pc' = "register" /\ Recorded' = Recorded /\ image' = image
        /\ work' = work /\ binary'["previous"] = work.previous
    BY <1>10, FilesKept DEF PromoteCandidate, Goto, StepInv
  <2> QED BY <2>1, <2>2 DEF Fits, UpgradeFits, InstallFits
<1>11. CASE RegisterService
  <2>1. /\ pc = "register" /\ work \in Doc /\ work.phase = "OldStopped" /\ Fits(work)
        /\ work.candidate = mine /\ (work.previous # Absent => image # Absent)
        /\ work.previous \in Bundle \cup {Absent}
    BY <1>11, DocIs DEF RegisterService, StepInv, PhaseOf, TypeInv, WorkInv
  <2>2. /\ pc' = "persist" /\ image' = "live" /\ Recorded' = Recorded /\ binary' = binary
        /\ work'.previous = work.previous /\ work'.candidate = mine /\ work'.phase = "ConfigSwitched"
    BY <1>11, <2>1, FilesKept, AdvancedDoc
       DEF RegisterService, CreateSystemService, ChangeServiceImagePath, Advance, Phase
  <2>3. binary["live"] = mine /\ binary["previous"] = work.previous /\ mine \in Bundle
    BY <2>1 DEF StepInv, TypeInv, Ensuring
  <2>4. Recorded = work.previous /\ image' # Absent
    BY <2>1, <2>2, UpgradeOK DEF Fits, UpgradeFits, InstallFits, Place
  <2> QED BY <2>1, <2>2, <2>3, <2>4, BundleIs DEF Fits, UpgradeFits, InstallFits, Switched
<1>12. CASE VerifyCandidateHealth
  <2>1. /\ pc = "start" /\ work \in Doc /\ work.phase = "ConfigSwitched" /\ Fits(work)
        /\ work.candidate = mine /\ (work.previous # Absent => image # Absent)
        /\ work.previous \in Bundle \cup {Absent}
    BY <1>12, DocIs DEF VerifyCandidateHealth, StepInv, PhaseOf, TypeInv, WorkInv
  <2>2. /\ UNCHANGED <<binary, image>> /\ Recorded' = Recorded /\ running' = Started
    BY <1>12, FilesKept DEF VerifyCandidateHealth
  <2>3. CASE Goto("undo")
    BY <1>12, <2>1, <2>2, <2>3, FitsKept DEF Goto
  <2>4. CASE IsHealthy(work.candidate) /\ Advance("Healthy")
    <3>1. /\ pc' = "persist" /\ work'.previous = work.previous
          /\ work'.candidate = work.candidate /\ work'.phase = "Healthy"
      BY <2>1, <2>4, AdvancedDoc DEF Advance, Phase
    <3>2. ~CutShort(work) \/ work.previous = Absent
      <4>1. CutShort(work) => Started \in {work.previous, Absent}
        BY UpgradeOK DEF CutShort, Started, Place
      <4>2. VersionOf(Started) = VersionOf(work.candidate) /\ Started # Absent
        BY <2>4 DEF IsHealthy
      <4>3. work.previous # Absent => VersionOf(work.candidate) # VersionOf(work.previous)
        BY <2>1, DocIs, BundleIs
      <4> QED BY <4>1, <4>2, <4>3
    <3>3. image # Absent /\ Switched(work) /\ (work.previous # Absent => binary["previous"] = work.previous)
      BY <2>1, <2>4, <3>2 DEF IsHealthy, Fits, UpgradeFits, InstallFits
    <3>4. binary["live"] = work.candidate
      BY <2>4, <3>3 DEF IsHealthy, Started, Switched
    <3> QED BY <2>1, <2>2, <3>1, <3>3, <3>4 DEF Fits, UpgradeFits, InstallFits, Switched
  <2> QED BY <1>12, <2>3, <2>4 DEF VerifyCandidateHealth
<1>13. CASE RecordRelease
  <2>1. /\ pc = "record" /\ work \in Doc /\ work.phase = "Healthy" /\ Fits(work)
        /\ work.candidate = mine /\ (work.previous # Absent => image # Absent)
        /\ work.previous \in Bundle \cup {Absent}
    BY <1>13, DocIs DEF RecordRelease, StepInv, PhaseOf, TypeInv, WorkInv
  <2>2. mine \in Bundle /\ ~IsAmbiguous(release)
    BY <2>1 DEF TypeInv, Ensuring
  <2>3. pc' = "discard previous" /\ UNCHANGED <<binary, image, work>> /\ Recorded' = mine
    BY <1>13, <2>1, <2>2, ReleaseReplaced DEF RecordRelease, Goto
  <2> QED BY <2>1, <2>3 DEF Fits, UpgradeFits, InstallFits
<1>14. CASE DiscardPrevious
  <2>1. /\ pc = "discard previous" /\ work \in Doc /\ work.phase = "Healthy" /\ Fits(work)
        /\ work.candidate = mine /\ (work.previous # Absent => image # Absent)
        /\ work.previous \in Bundle \cup {Absent}
    BY <1>14, DocIs DEF DiscardPrevious, StepInv, PhaseOf, TypeInv, WorkInv
  <2>2. /\ pc' # "idle" => work' = work
        /\ UNCHANGED image /\ Recorded' = Recorded /\ Recorded = mine
    BY <1>14, FilesKept DEF DiscardPrevious, Goto, Returns, StepInv
  <2>3. pc' # "idle" => binary'["previous"] = Absent /\ binary'["live"] = binary["live"]
    BY <1>14 DEF DiscardPrevious, Deleted, Returns, TypeInv, Place
  <2>4. pc' \in {"idle", "discard candidate"}
    BY <1>14 DEF DiscardPrevious, Goto, Returns
  <2> QED BY <2>1, <2>2, <2>3, <2>4 DEF Fits, UpgradeFits, InstallFits
<1>15. CASE DiscardCandidate
  <2>1. /\ image' = image /\ running' = running /\ Recorded' = Recorded
        /\ \A p \in Place \ {"candidate"} : binary'[p] = binary[p]
        /\ pc' # "idle" => work' = work
    BY <1>15, FilesKept DEF DiscardCandidate, Deleted, Goto, TypeInv, Place
  <2> QED BY <1>15, <2>1, FitsKept DEF DiscardCandidate, Deleted, Goto
<1>16. CASE ClearJournal
  BY <1>16, FilesKept DEF ClearJournal, Returns
<1>17. CASE PublishUninstallEntry
  BY <1>17, FilesKept DEF PublishUninstallEntry
<1>18. CASE RollbackStops
  <2>1. UNCHANGED <<binary, image, work>> /\ Recorded' = Recorded
    BY <1>18, FilesKept DEF RollbackStops, Goto
  <2>2. running' \in {running, Started, Absent}
    BY <1>18 DEF RollbackStops, Goto
  <2> QED BY <1>18, <2>1, <2>2, FitsKept DEF RollbackStops, Goto
<1>19. CASE RollbackDeletes
  <2>1. /\ pc = "undo delete" /\ work \in Doc /\ work.phase = "ConfigSwitched" /\ Fits(work)
        /\ work.candidate = mine /\ (work.previous # Absent => image # Absent)
        /\ work.previous \in Bundle \cup {Absent}
    BY <1>19, DocIs DEF RollbackDeletes, StepInv, PhaseOf, TypeInv, WorkInv
  <2>2. CASE CanDelete("live")
    <3>1. image # Absent => Switched(work) \/ (work.previous # Absent /\ CutShort(work))
      BY <2>1 DEF Fits, UpgradeFits, InstallFits
    <3>2. image # Absent => running = Absent
      BY <2>1, <2>2 DEF CanDelete, StepInv
    <3>3. /\ binary'["live"] = Absent /\ binary'["previous"] = binary["previous"]
          /\ UNCHANGED <<image, running, work>> /\ Recorded' = Recorded
      BY <1>19, <2>2, FilesKept DEF RollbackDeletes, Deleted, Goto, TypeInv, Place
    <3> QED BY <2>1, <3>1, <3>2, <3>3 DEF Fits, UpgradeFits, InstallFits, Switched, CutShort
  <2>3. CASE ~CanDelete("live")
    BY <1>19, <2>3 DEF RollbackDeletes, Returns
  <2> QED BY <2>2, <2>3
<1>20. CASE RestorePrevious
  <2>1. /\ pc = "undo rename" /\ work \in Doc /\ work.phase = "ConfigSwitched" /\ Fits(work)
        /\ work.previous # Absent /\ image # Absent /\ binary["live"] = Absent
    BY <1>20 DEF RestorePrevious, StepInv, PhaseOf, TypeInv, WorkInv
  <2>2. CASE binary["previous"] # Absent
    <3>1. /\ image = "live" /\ Recorded = work.previous /\ binary["previous"] = work.previous
          /\ running = Absent
      BY <2>1, <2>2 DEF Fits, UpgradeFits, Switched, CutShort
    <3>2. /\ binary'["live"] = binary["previous"] /\ binary'["previous"] = Absent
          /\ UNCHANGED <<image, running, work>> /\ Recorded' = Recorded
      BY <1>20, <2>2, FilesKept DEF RestorePrevious, Renamed, Goto, TypeInv, Place
    <3> QED BY <2>1, <3>1, <3>2 DEF Fits, UpgradeFits, CutShort
  <2>3. CASE binary["previous"] = Absent
    BY <1>20, <2>3 DEF RestorePrevious, Returns
  <2> QED BY <2>2, <2>3
<1>21. CASE StartPrevious
  <2>1. /\ work.phase = "ConfigSwitched" /\ work.previous # Absent /\ image = "live"
        /\ Recorded = work.previous /\ binary["live"] = work.previous
        /\ binary["previous"] = Absent /\ running \in {Absent, work.previous}
    BY <1>21 DEF StartPrevious, StepInv, PhaseOf, RestoredInv, Restored
  <2>2. /\ UNCHANGED <<image, binary>> /\ Recorded' = Recorded /\ running' = work.previous
        /\ pc' # "idle" => work' = work
    BY <1>21, <2>1, FilesKept DEF StartPrevious, Goto, Returns
  <2>3. pc' # "idle" => Fits(work)'
    BY <2>1, <2>2 DEF Fits, UpgradeFits, CutShort
  <2> QED BY <2>3
<1>22. CASE RollbackDeletesCandidate
  <2>1. /\ image' = image /\ running' = running /\ Recorded' = Recorded
        /\ \A p \in Place \ {"candidate"} : binary'[p] = binary[p]
        /\ pc' # "idle" => work' = work
    BY <1>22, FilesKept DEF RollbackDeletesCandidate, Deleted, Goto, TypeInv, Place
  <2> QED BY <1>22, <2>1, FitsKept DEF RollbackDeletesCandidate, Deleted, Goto
<1>23. CASE UndoInstall
  <2>1. /\ pc = "undo install" /\ work \in Doc /\ work.phase = "ConfigSwitched" /\ Fits(work)
        /\ work.candidate = mine /\ (work.previous # Absent => image # Absent)
        /\ work.previous \in Bundle \cup {Absent}
    BY <1>23, DocIs DEF UndoInstall, StepInv, PhaseOf, TypeInv, WorkInv
  <2>2. CASE image # Absent
    <3>1. image' = Absent /\ UNCHANGED <<binary, work>> /\ Recorded' = Recorded /\ work.previous = Absent
      BY <1>23, <2>2, FilesKept DEF UndoInstall, Goto, StepInv
    <3> QED BY <2>1, <3>1 DEF Fits, InstallFits
  <2>3. CASE image = Absent
    BY <1>23, <2>3 DEF UndoInstall, Returns
  <2> QED BY <2>2, <2>3
<1>24. CASE ClearRolledBack
  BY <1>24, FilesKept DEF ClearRolledBack, Returns
<1>25. CASE RemoveService
  BY <1>25, FilesKept DEF RemoveService, Goto
<1>26. CASE RemoveEntry
  BY <1>26, FilesKept DEF RemoveEntry, Goto
<1>27. CASE RemoveBinaries
  BY <1>27, FilesKept DEF RemoveBinaries, RemoveBinary, Deleted, Goto, Returns
<1>28. CASE RemoveRecord
  BY <1>28, FilesKept DEF RemoveRecord, Goto
<1>29. CASE RemoveJournal
  BY <1>29, FilesKept DEF RemoveJournal, Goto
<1>30. CASE RemoveDirectory
  BY <1>30, FilesKept DEF RemoveDirectory, Returns
<1>31. CASE Interrupted
  BY <1>31, FilesKept DEF Interrupted, Returns
<1>32. CASE HealthFails
  <2>1. UNCHANGED <<binary, image, work>> /\ Recorded' = Recorded
    BY <1>32, FilesKept DEF HealthFails, Goto
  <2>2. running' \in {running, Started, Absent}
    BY <1>32 DEF HealthFails, Goto
  <2> QED BY <1>32, <2>1, <2>2, FitsKept DEF HealthFails, Goto
<1>33. CASE ClientStarts
  <2>1. UNCHANGED <<binary, image, work>> /\ Recorded' = Recorded
    BY <1>33, FilesKept DEF ClientStarts
  <2>2. running' \in {running, Started, Absent}
    BY <1>33 DEF ClientStarts
  <2> QED BY <1>33, <2>1, <2>2, FitsKept DEF ClientStarts
<1>34. CASE ServiceEnds
  <2>1. UNCHANGED <<binary, image, work>> /\ Recorded' = Recorded
    BY <1>34, FilesKept DEF ServiceEnds
  <2>2. running' \in {running, Started, Absent}
    BY <1>34 DEF ServiceEnds
  <2> QED BY <1>34, <2>1, <2>2, FitsKept DEF ServiceEnds
<1>35. CASE UNCHANGED vars
  <2>1. UNCHANGED <<binary, image, running, work, pc>> /\ Recorded' = Recorded
    BY <1>35, FilesKept
  <2> QED BY <2>1, FitsKept
<1>36. CASE LeaveState
  BY <1>36, FilesKept DEF LeaveState, Returns
<1> QED BY <1>1, <1>2, <1>3, <1>4, <1>5, <1>6, <1>7, <1>8, <1>9, <1>10, <1>11,
           <1>12, <1>13, <1>14, <1>15, <1>16, <1>17, <1>18, <1>19, <1>20, <1>21,
           <1>22, <1>23, <1>24, <1>25, <1>26, <1>27, <1>28, <1>29, <1>30, <1>31,
           <1>32, <1>33, <1>34, <1>35, <1>36
           DEF Next, Step

-----------------------------------------------------------------------------
(* What the next manager finds *)

LEMMA FoundByWork ==
    TypeInv' /\ WorkInv' /\ FitsInv' /\ pc' \in Working \ {"stage", "persist"} => FoundInv'
<1> SUFFICES ASSUME TypeInv', WorkInv', FitsInv', pc' \in Working \ {"stage", "persist"}
             PROVE  FoundFits'
  BY DEF FoundInv
<1>1. work' \in Doc /\ journal' = Replaced(work')
  BY DEF TypeInv, WorkInv
<1>2. Unfinished' = work'
  BY <1>1, ReplacedFile DEF Unfinished, Found
<1>3. Fits(work)'
  BY DEF FitsInv
<1> QED BY <1>1, <1>2, <1>3, DocIs DEF FoundFits, Fits, UpgradeFits, InstallFits, Switched, CutShort

\* The files fit together after every step.
LEMMA FoundStep ==
    TypeInv /\ TypeInv' /\ LeftoverInv /\ FoundInv /\ FitsInv /\
    FitsInv' /\ RestoredInv /\ WorkInv /\ WorkInv' /\ StepInv /\ LoadInv /\
    [Next]_vars => FoundInv'
<1> SUFFICES ASSUME TypeInv, TypeInv', LeftoverInv, FoundInv,
                    FitsInv, FitsInv', RestoredInv, WorkInv, WorkInv', StepInv,
                    LoadInv, [Next]_vars
             PROVE  FoundInv'
  OBVIOUS
<1> USE DEF disk, scm, memory, vars
<1>w. pc' \in Working \ {"stage", "persist"} => FoundInv'
  BY FoundByWork
<1>1. ASSUME NEW b \in Bundle, Ensure(b) PROVE FoundInv'
  <2>1. /\ image' = image /\ Recorded' = Recorded /\ Unfinished' = Unfinished
        /\ binary' = binary /\ running' \in {running, Started, Absent}
    BY <1>1, FilesKept DEF Ensure
  <2> QED BY <2>1, FitsKept DEF FoundInv
<1>2. CASE Remove
  <2>1. /\ image' = image /\ Recorded' = Recorded /\ Unfinished' = Unfinished
        /\ binary' = binary /\ running' \in {running, Started, Absent}
    BY <1>2, FilesKept DEF Remove
  <2> QED BY <2>1, FitsKept DEF FoundInv
<1>3. CASE LoadRelease
  <2>1. Recorded' = Recorded
    BY <1>3, FilesAre, ReleaseReplaced DEF LoadRelease, TypeInv
  <2>2. UNCHANGED <<image, binary, running>> /\ Unfinished' = Unfinished
    BY <1>3, FilesKept DEF LoadRelease
  <2> QED BY <2>1, <2>2, FitsKept DEF FoundInv
<1>4. CASE LoadJournal
  <2>1. Unfinished' = Unfinished
    BY <1>4, FilesAre, JournalReplaced DEF LoadJournal, TypeInv
  <2>2. UNCHANGED <<image, binary, running>> /\ Recorded' = Recorded
    BY <1>4, FilesKept DEF LoadJournal
  <2> QED BY <2>1, <2>2, FitsKept DEF FoundInv
<1>5. CASE KeepCompatible
  <2>1. /\ image' = image /\ Recorded' = Recorded /\ Unfinished' = Unfinished
        /\ binary' = binary /\ running' \in {running, Started, Absent}
    BY <1>5, FilesKept DEF KeepCompatible
  <2> QED BY <2>1, FitsKept DEF FoundInv
<1>6. CASE StageCandidate
  <2>1. /\ image' = image /\ running' = running /\ Recorded' = Recorded /\ Unfinished' = Unfinished
        /\ \A p \in Place \ {"candidate"} : binary'[p] = binary[p]
    BY <1>6, FilesKept DEF StageCandidate, TypeInv, Place
  <2> QED BY <2>1, FitsKept DEF FoundInv
<1>7. CASE PersistJournal
  <2>1. pc' \in {"stop", "retain", "start", "record"}
    BY <1>7, DocIs DEF PersistJournal, Goto, StepOf, TypeInv, Working, Phase
  <2> QED BY <2>1, <1>w DEF Working
<1>8. CASE StopService
  <2>1. /\ image' = image /\ Recorded' = Recorded /\ Unfinished' = Unfinished
        /\ binary' = binary /\ running' \in {running, Started, Absent}
    BY <1>8, FilesKept DEF StopService, Advance
  <2> QED BY <2>1, FitsKept DEF FoundInv
<1>9. CASE RetainPrevious
  <2>1. CASE pc' \in Working \ {"stage", "persist"}
    BY <2>1, <1>w
  <2>2. CASE pc' \notin Working \ {"stage", "persist"}
    <3>1. /\ UNCHANGED <<image, binary, running>> /\ Recorded' = Recorded /\ Unfinished' = Unfinished
      BY <1>9, <2>2, FilesKept DEF RetainPrevious, Goto, Returns, Working
    <3> QED BY <3>1, FitsKept DEF FoundInv
  <2> QED BY <2>1, <2>2
<1>10. CASE PromoteCandidate
  BY <1>10, <1>w DEF PromoteCandidate, Goto, Working
<1>11. CASE RegisterService
  <2>1. pc = "register" /\ Unfinished = work /\ work.phase = "OldStopped" /\ Unfinished \notin {Absent, Torn}
    BY <1>11, WorkFound DEF RegisterService, StepInv, Working, PhaseOf
  <2>2. Fits(Unfinished)
    BY <2>1 DEF FoundInv, FoundFits
  <2>3. binary["previous"] = work.previous /\ (work.previous # Absent => image # Absent)
    BY <2>1 DEF StepInv, WorkInv, Working
  <2>4. image' = "live" /\ binary' = binary /\ Recorded' = Recorded /\ Unfinished' = Unfinished
    BY <1>11, FilesKept DEF RegisterService, CreateSystemService, ChangeServiceImagePath
  <2>5. image' # Absent
    BY <2>4, UpgradeOK DEF Place
  <2> QED BY <2>1, <2>2, <2>3, <2>4, <2>5 DEF FoundInv, FoundFits, Fits, UpgradeFits, InstallFits
<1>12. CASE VerifyCandidateHealth
  <2>1. /\ image' = image /\ Recorded' = Recorded /\ Unfinished' = Unfinished
        /\ binary' = binary /\ running' \in {running, Started, Absent}
    BY <1>12, FilesKept DEF VerifyCandidateHealth
  <2> QED BY <2>1, FitsKept DEF FoundInv
<1>13. CASE RecordRelease
  <2>1. pc' = "discard previous"
    BY <1>13 DEF RecordRelease, Goto, TypeInv
  <2> QED BY <2>1, <1>w DEF Working
<1>14. CASE DiscardPrevious
  <2>1. CASE pc' \in Working \ {"stage", "persist"}
    BY <2>1, <1>w
  <2>2. CASE pc' \notin Working \ {"stage", "persist"}
    <3>1. /\ UNCHANGED <<image, binary, running>> /\ Recorded' = Recorded /\ Unfinished' = Unfinished
      BY <1>14, <2>2, FilesKept DEF DiscardPrevious, Goto, Returns, Working
    <3> QED BY <3>1, FitsKept DEF FoundInv
  <2> QED BY <2>1, <2>2
<1>15. CASE DiscardCandidate
  BY <1>15, <1>w DEF DiscardCandidate, Goto, Working
<1>16. CASE ClearJournal
  <2>1. pc = "clear" /\ mine \in Bundle /\ Recorded = mine /\ binary["previous"] = Absent
    BY <1>16 DEF ClearJournal, StepInv, TypeInv, Ensuring, Working
  <2>2. Unfinished' = Absent /\ UNCHANGED <<binary, image>> /\ Recorded' = Recorded
    BY <1>16, FilesKept, NothingLeft, JournalReplaced DEF ClearJournal, TypeInv
  <2>3. image # Absent => binary[image] = mine
    BY <2>1, CandidateInPlace
  <2> QED BY <2>1, <2>2, <2>3 DEF FoundInv, FoundFits, Settled
<1>17. CASE PublishUninstallEntry
  <2>1. /\ image' = image /\ Recorded' = Recorded /\ Unfinished' = Unfinished
        /\ binary' = binary /\ running' \in {running, Started, Absent}
    BY <1>17, FilesKept DEF PublishUninstallEntry
  <2> QED BY <2>1, FitsKept DEF FoundInv
<1>18. CASE RollbackStops
  BY <1>18, <1>w DEF RollbackStops, Goto, Working
<1>19. CASE RollbackDeletes
  <2>1. CASE pc' \in Working \ {"stage", "persist"}
    BY <2>1, <1>w
  <2>2. CASE pc' \notin Working \ {"stage", "persist"}
    <3>1. /\ UNCHANGED <<image, binary, running>> /\ Recorded' = Recorded /\ Unfinished' = Unfinished
      BY <1>19, <2>2, FilesKept DEF RollbackDeletes, Goto, Returns, Working
    <3> QED BY <3>1, FitsKept DEF FoundInv
  <2> QED BY <2>1, <2>2
<1>20. CASE RestorePrevious
  <2>1. CASE pc' \in Working \ {"stage", "persist"}
    BY <2>1, <1>w
  <2>2. CASE pc' \notin Working \ {"stage", "persist"}
    <3>1. /\ UNCHANGED <<image, binary, running>> /\ Recorded' = Recorded /\ Unfinished' = Unfinished
      BY <1>20, <2>2, FilesKept DEF RestorePrevious, Goto, Returns, Working
    <3> QED BY <3>1, FitsKept DEF FoundInv
  <2> QED BY <2>1, <2>2
<1>21. CASE StartPrevious
  <2>1. Restored /\ pc = "undo start"
    BY <1>21 DEF StartPrevious, Restored, StepInv
  <2>2. running' = work.previous
    BY <1>21, <2>1 DEF StartPrevious, RestoredInv
  <2>3. pc' = "undo clear"
    BY <1>21, <2>2 DEF StartPrevious, Goto
  <2> QED BY <2>3, <1>w DEF Working
<1>22. CASE RollbackDeletesCandidate
  BY <1>22, <1>w DEF RollbackDeletesCandidate, Goto, Working
<1>23. CASE UndoInstall
  <2>1. CASE pc' \in Working \ {"stage", "persist"}
    BY <2>1, <1>w
  <2>2. CASE pc' \notin Working \ {"stage", "persist"}
    <3>1. /\ UNCHANGED <<image, binary, running>> /\ Recorded' = Recorded /\ Unfinished' = Unfinished
      BY <1>23, <2>2, FilesKept DEF UndoInstall, Goto, Returns, Working
    <3> QED BY <3>1, FitsKept DEF FoundInv
  <2> QED BY <2>1, <2>2
<1>24. CASE ClearRolledBack
  <2>1. Unfinished' = Absent /\ UNCHANGED <<binary, image>> /\ Recorded' = Recorded /\ pc = "undo clear"
    BY <1>24, FilesKept, NothingLeft, JournalReplaced DEF ClearRolledBack, TypeInv
  <2>2. CASE work.previous = Absent
    BY <2>1, <2>2 DEF FoundInv, FoundFits, Settled, StepInv, FitsInv, Fits, InstallFits, Working
  <2>3. CASE work.previous # Absent
    <3>1. work.previous \in Bundle
      BY <2>1, <2>3, DocIs DEF TypeInv, Working
    <3> QED BY <2>1, <2>3, <3>1 DEF FoundInv, FoundFits, Settled, RestoredInv, Restored
  <2> QED BY <2>2, <2>3
<1>25. CASE RemoveService
  <2>1. image' = Absent /\ binary' = binary /\ Recorded' = Recorded /\ Unfinished' = Unfinished
        /\ FoundFits
    BY <1>25, FilesKept DEF RemoveService, FoundInv
  <2>2. CASE Unfinished \in {Absent, Torn}
    BY <2>1, <2>2 DEF FoundInv, FoundFits, Settled
  <2>3. CASE Unfinished \notin {Absent, Torn}
    <3>1. Unfinished.phase \in Phase /\ Fits(Unfinished)
      BY <2>1, <2>3, FilesAre, DocIs DEF FoundFits
    <3> QED BY <2>1, <2>3, <3>1
         DEF FoundInv, FoundFits, Fits, UpgradeFits, InstallFits, CutShort, Phase
  <2> QED BY <2>2, <2>3
<1>26. CASE RemoveEntry
  <2>1. /\ image' = image /\ Recorded' = Recorded /\ Unfinished' = Unfinished
        /\ binary' = binary /\ running' \in {running, Started, Absent}
    BY <1>26, FilesKept DEF RemoveEntry
  <2> QED BY <2>1, FitsKept DEF FoundInv
<1>27. CASE RemoveBinaries
  <2>1. /\ image = Absent /\ image' = Absent /\ Recorded' = Recorded /\ Unfinished' = Unfinished
    BY <1>27, FilesKept DEF RemoveBinaries, RemoveBinary, LoadInv, Removing
  <2>2. binary'["previous"] \in {binary["previous"], Absent}
    BY <1>27 DEF RemoveBinaries, RemoveBinary, Deleted, TypeInv, Place
  <2> QED BY <2>1, <2>2 DEF FoundInv, FoundFits, Settled, Fits, InstallFits
<1>28. CASE RemoveRecord
  <2>1. /\ image = Absent /\ image' = Absent /\ Unfinished' = Unfinished
        /\ binary["previous"] = Absent /\ binary' = binary
    BY <1>28, FilesKept DEF RemoveRecord, LoadInv, Removing
  <2>2. ~IsStale(release) => Recorded' = Absent
    BY <1>28, PathRemoved DEF RemoveRecord, TypeInv, Recorded, Found
  <2>3. Unfinished \notin {Absent, Torn} /\ Unfinished.phase # "Healthy" => Recorded' = Absent
    BY <2>2 DEF LeftoverInv
  <2> QED BY <2>1, <2>3 DEF FoundInv, FoundFits, Settled, Fits, InstallFits
<1>29. CASE RemoveJournal
  <2>1. /\ image = Absent /\ image' = Absent /\ Recorded' = Recorded
        /\ binary["previous"] = Absent /\ binary' = binary /\ release.path = Absent
    BY <1>29, FilesKept DEF RemoveJournal, LoadInv, Removing
  <2>2. ~IsStale(journal) => Unfinished' = Absent
    BY <1>29, PathRemoved DEF RemoveJournal, TypeInv, Unfinished, Found
  <2>3. IsStale(release) => Unfinished' = Absent
    BY <2>2 DEF LeftoverInv
  <2>4. ~IsStale(release) => Recorded = Absent
    BY <2>1, FilesAre
  <2> QED BY <2>1, <2>3, <2>4 DEF FoundInv, FoundFits, Settled, Fits, InstallFits
<1>30. CASE RemoveDirectory
  <2>1. /\ image = Absent /\ image' = Absent /\ binary["previous"] = Absent /\ binary' = binary
    BY <1>30 DEF RemoveDirectory, LoadInv, Removing
  <2>2. Unfinished' = Absent
    BY <1>30, NothingLeft, JournalReplaced DEF RemoveDirectory
  <2> QED BY <2>1, <2>2 DEF FoundInv, FoundFits, Settled
<1>31. CASE Interrupted
  <2>1. UNCHANGED <<binary, image, running>>
    BY <1>31 DEF Interrupted
  <2>2. CASE Recorded' = Recorded /\ Unfinished' = Unfinished
    BY <2>1, <2>2, FitsKept DEF FoundInv
  <2>3. CASE pc = "record"
    <3>1. /\ Unfinished' = work /\ Unfinished = work /\ Unfinished' \notin {Absent, Torn}
          /\ \/ Recorded' \in {Recorded, work.candidate}
             \/ Recorded' = Torn /\ Recorded \in {Absent, Torn}
      BY <1>31, <2>3, InterruptedFiles, WorkFound DEF Working
    <3>2. work.phase = "Healthy" /\ Fits(work) /\ work.previous \in Bundle \cup {Absent}
          /\ work.candidate \in Bundle
      BY <2>1, <2>3, DocIs DEF StepInv, PhaseOf, FitsInv, Working, TypeInv
    <3> QED BY <2>1, <3>1, <3>2, BundleIs DEF FoundInv, FoundFits, Fits, UpgradeFits, InstallFits
  <2>4. CASE pc = "persist" /\ Unfinished' = work
    <3>1. Recorded' = Recorded
      BY <1>31, <2>4, InterruptedFiles
    <3>2. work \in Doc /\ Fits(work)
      BY <2>1, <2>4 DEF FitsInv, Working, TypeInv
    <3> QED BY <2>1, <2>4, <3>1, <3>2, DocIs
         DEF FoundInv, FoundFits, Fits, UpgradeFits, InstallFits, Switched, CutShort
  <2>5. CASE pc = "persist" /\ Unfinished' = Torn /\ Unfinished \in {Absent, Torn}
    <3>1. Recorded' = Recorded
      BY <1>31, <2>5, InterruptedFiles
    <3> QED BY <2>1, <2>5, <3>1 DEF FoundInv, FoundFits, Settled
  <2> QED BY <1>31, <2>2, <2>3, <2>4, <2>5, InterruptedFiles
<1>32. CASE HealthFails
  BY <1>32, <1>w DEF HealthFails, Goto, Working
<1>33. CASE ClientStarts
  <2>1. /\ UNCHANGED <<image, binary, pc, work>> /\ Recorded' = Recorded /\ Unfinished' = Unfinished
        /\ running' \in {running, Started, Absent}
    BY <1>33, FilesKept DEF ClientStarts
  <2> QED BY <2>1, FitsKept DEF FoundInv
<1>34. CASE ServiceEnds
  <2>1. /\ UNCHANGED <<image, binary, pc, work>> /\ Recorded' = Recorded /\ Unfinished' = Unfinished
        /\ running' \in {running, Started, Absent}
    BY <1>34, FilesKept DEF ServiceEnds
  <2> QED BY <2>1, FitsKept DEF FoundInv
<1>35. CASE UNCHANGED vars
  <2>1. /\ UNCHANGED <<image, binary, pc, work>> /\ Recorded' = Recorded /\ Unfinished' = Unfinished
        /\ running' \in {running, Started, Absent}
    BY <1>35, FilesKept DEF vars
  <2> QED BY <2>1, FitsKept DEF FoundInv
<1>36. CASE LeaveState
  <2>1. UNCHANGED <<image, binary, running>> /\ Recorded' = Recorded /\ Unfinished' = Unfinished
    BY <1>36, FilesKept DEF LeaveState
  <2> QED BY <2>1, FitsKept DEF FoundInv
<1> QED BY <1>1, <1>2, <1>3, <1>4, <1>5, <1>6, <1>7, <1>8, <1>9, <1>10, <1>11,
           <1>12, <1>13, <1>14, <1>15, <1>16, <1>17, <1>18, <1>19, <1>20, <1>21,
           <1>22, <1>23, <1>24, <1>25, <1>26, <1>27, <1>28, <1>29, <1>30, <1>31,
           <1>32, <1>33, <1>34, <1>35, <1>36
           DEF Next, Step

-----------------------------------------------------------------------------
(* Rollbacks, reports and versions *)

\* What a rollback has restored is the recorded release.
LEMMA RestoredStep ==
    TypeInv /\ FitsInv /\ RestoredInv /\ WorkInv /\ StepInv /\
    [Next]_vars => RestoredInv'
<1> SUFFICES ASSUME TypeInv, FitsInv, RestoredInv, WorkInv, StepInv, [Next]_vars
             PROVE  RestoredInv'
  OBVIOUS
<1> USE DEF RestoredInv, Restored, disk, scm, memory, vars
<1>1. ASSUME NEW b \in Bundle, Ensure(b) PROVE RestoredInv'
  BY <1>1, FilesKept DEF Ensure
<1>2. CASE Remove
  BY <1>2, FilesKept DEF Remove
<1>3. CASE LoadRelease
  BY <1>3, FilesKept DEF LoadRelease, Goto, Returns
<1>4. CASE LoadJournal
  BY <1>4, FilesKept DEF LoadJournal, Goto, Returns
<1>5. CASE KeepCompatible
  BY <1>5, FilesKept DEF KeepCompatible, Returns
<1>6. CASE StageCandidate
  BY <1>6, FilesKept DEF StageCandidate, Goto, Returns
<1>7. CASE PersistJournal
  BY <1>7, FilesKept, DocIs DEF PersistJournal, StepOf, Goto, Returns, TypeInv,
       Working, Phase
<1>8. CASE StopService
  BY <1>8, FilesKept DEF StopService, Advance
<1>9. CASE RetainPrevious
  BY <1>9, FilesKept DEF RetainPrevious, Renamed, Deleted, Goto, Returns
<1>10. CASE PromoteCandidate
  BY <1>10, FilesKept DEF PromoteCandidate, Renamed, Goto
<1>11. CASE RegisterService
  BY <1>11, FilesKept DEF RegisterService, CreateSystemService,
       ChangeServiceImagePath, Advance
<1>12. CASE VerifyCandidateHealth
  BY <1>12, FilesKept DEF VerifyCandidateHealth, Advance, Goto
<1>13. CASE RecordRelease
  BY <1>13, FilesKept DEF RecordRelease, Goto, Returns
<1>14. CASE DiscardPrevious
  BY <1>14, FilesKept DEF DiscardPrevious, Deleted, Goto, Returns
<1>15. CASE DiscardCandidate
  BY <1>15, FilesKept DEF DiscardCandidate, Deleted, Goto
<1>16. CASE ClearJournal
  BY <1>16, FilesKept DEF ClearJournal, Returns
<1>17. CASE PublishUninstallEntry
  BY <1>17, FilesKept DEF PublishUninstallEntry
<1>18. CASE RollbackStops
  BY <1>18, FilesKept DEF RollbackStops, Goto
<1>19. CASE RollbackDeletes
  BY <1>19, FilesKept DEF RollbackDeletes, Deleted, Goto, Returns
<1>20. CASE RestorePrevious
  <2>1. /\ pc = "undo rename" /\ work.previous # Absent /\ binary["live"] = Absent /\ Fits(work)
        /\ work.phase = "ConfigSwitched" /\ image # Absent
    BY <1>20 DEF RestorePrevious, StepInv, PhaseOf, Working, FitsInv, WorkInv
  <2>2. CASE binary["previous"] # Absent
    <3>1. /\ image = "live" /\ Recorded = work.previous /\ binary["previous"] = work.previous
          /\ running = Absent
      BY <2>1, <2>2 DEF Fits, UpgradeFits, Switched, CutShort
    <3>2. /\ binary'["live"] = binary["previous"] /\ binary'["previous"] = Absent
          /\ UNCHANGED <<image, running, work>> /\ Recorded' = Recorded
      BY <1>20, <2>2, FilesKept DEF RestorePrevious, Renamed, Goto, TypeInv, Place
    <3> QED BY <3>1, <3>2
  <2>3. CASE binary["previous"] = Absent
    BY <1>20, <2>3 DEF RestorePrevious, Returns
  <2> QED BY <2>2, <2>3
<1>21. CASE StartPrevious
  <2>1. CASE Goto("undo clear")
    BY <1>21, <2>1, FilesKept DEF StartPrevious, Goto
  <2>2. CASE Returns("error")
    BY <2>2 DEF Returns
  <2> QED BY <1>21, <2>1, <2>2 DEF StartPrevious
<1>22. CASE RollbackDeletesCandidate
  BY <1>22, FilesKept DEF RollbackDeletesCandidate, Deleted, Goto
<1>23. CASE UndoInstall
  <2>1. work.previous = Absent /\ (pc' # "idle" => work' = work)
    BY <1>23 DEF UndoInstall, Goto, Returns, StepInv
  <2>2. pc' \in {"idle", "undo clear"}
    BY <1>23 DEF UndoInstall, Goto, Returns
  <2> QED BY <2>1, <2>2
<1>24. CASE ClearRolledBack
  BY <1>24, FilesKept DEF ClearRolledBack, Returns
<1>25. CASE RemoveService
  BY <1>25, FilesKept DEF RemoveService, Goto
<1>26. CASE RemoveEntry
  BY <1>26, FilesKept DEF RemoveEntry, Goto
<1>27. CASE RemoveBinaries
  BY <1>27, FilesKept DEF RemoveBinaries, RemoveBinary, Deleted, Goto, Returns
<1>28. CASE RemoveRecord
  BY <1>28, FilesKept DEF RemoveRecord, Goto
<1>29. CASE RemoveJournal
  BY <1>29, FilesKept DEF RemoveJournal, Goto
<1>30. CASE RemoveDirectory
  BY <1>30, FilesKept DEF RemoveDirectory, Returns
<1>31. CASE Interrupted
  BY <1>31, FilesKept DEF Interrupted, Returns
<1>32. CASE HealthFails
  BY <1>32, FilesKept DEF HealthFails, Goto
<1>33. CASE ClientStarts
  BY <1>33, FilesKept, UpgradeOK DEF ClientStarts, Started, Place
<1>34. CASE ServiceEnds
  BY <1>34, FilesKept DEF ServiceEnds
<1>35. CASE UNCHANGED vars
  BY <1>35, FilesKept
<1>36. CASE LeaveState
  BY <1>36, FilesKept DEF LeaveState, Returns
<1> QED BY <1>1, <1>2, <1>3, <1>4, <1>5, <1>6, <1>7, <1>8, <1>9, <1>10, <1>11,
           <1>12, <1>13, <1>14, <1>15, <1>16, <1>17, <1>18, <1>19, <1>20, <1>21,
           <1>22, <1>23, <1>24, <1>25, <1>26, <1>27, <1>28, <1>29, <1>30, <1>31,
           <1>32, <1>33, <1>34, <1>35, <1>36
           DEF Next, Step

\* A report is true when it is made, and nothing changes it until the next manager.
LEMMA OutcomeStep ==
    TypeInv /\ FoundInv /\ FitsInv /\ RestoredInv /\ StepInv /\ LoadInv /\
    OutcomeTruthful /\ [Next]_vars => OutcomeTruthful'
<1> SUFFICES ASSUME TypeInv, FoundInv, FitsInv, RestoredInv, StepInv, LoadInv,
                    OutcomeTruthful, [Next]_vars
             PROVE  OutcomeTruthful'
  OBVIOUS
<1> USE DEF OutcomeTruthful, disk, scm, memory, vars
<1>1. ASSUME NEW b \in Bundle, Ensure(b) PROVE OutcomeTruthful'
  BY <1>1, FilesKept DEF Ensure
<1>2. CASE Remove
  BY <1>2, FilesKept DEF Remove
<1>3. CASE LoadRelease
  BY <1>3, FilesKept DEF LoadRelease, Goto, Returns
<1>4. CASE LoadJournal
  BY <1>4, FilesKept DEF LoadJournal, Goto, Returns
<1>5. CASE KeepCompatible
  BY <1>5, FilesKept DEF KeepCompatible, Returns
<1>6. CASE StageCandidate
  BY <1>6, FilesKept DEF StageCandidate, Goto, Returns
<1>7. CASE PersistJournal
  BY <1>7, FilesKept, DocIs DEF PersistJournal, StepOf, Goto, Returns, TypeInv,
       Working, Phase
<1>8. CASE StopService
  BY <1>8, FilesKept DEF StopService, Advance
<1>9. CASE RetainPrevious
  BY <1>9, FilesKept DEF RetainPrevious, Renamed, Deleted, Goto, Returns
<1>10. CASE PromoteCandidate
  BY <1>10, FilesKept DEF PromoteCandidate, Renamed, Goto
<1>11. CASE RegisterService
  BY <1>11, FilesKept DEF RegisterService, CreateSystemService,
       ChangeServiceImagePath, Advance
<1>12. CASE VerifyCandidateHealth
  BY <1>12, FilesKept DEF VerifyCandidateHealth, Advance, Goto
<1>13. CASE RecordRelease
  BY <1>13, FilesKept DEF RecordRelease, Goto, Returns
<1>14. CASE DiscardPrevious
  BY <1>14, FilesKept DEF DiscardPrevious, Deleted, Goto, Returns
<1>15. CASE DiscardCandidate
  BY <1>15, FilesKept DEF DiscardCandidate, Deleted, Goto
<1>16. CASE ClearJournal
  BY <1>16, FilesKept DEF ClearJournal, Returns
<1>17. CASE PublishUninstallEntry
  <2>1. /\ Recorded = mine /\ Unfinished = Absent /\ (image # Absent => image = "live")
        /\ Settled
    BY <1>17 DEF PublishUninstallEntry, LoadInv, FoundInv, FoundFits
  <2>2. UNCHANGED <<binary, image, mine>> /\ Recorded' = Recorded /\ Unfinished' = Unfinished /\ entry' = TRUE
    BY <1>17, FilesKept DEF PublishUninstallEntry
  <2> QED BY <2>1, <2>2 DEF Settled
<1>18. CASE RollbackStops
  BY <1>18, FilesKept DEF RollbackStops, Goto
<1>19. CASE RollbackDeletes
  BY <1>19, FilesKept DEF RollbackDeletes, Deleted, Goto, Returns
<1>20. CASE RestorePrevious
  BY <1>20, FilesKept DEF RestorePrevious, Renamed, Goto, Returns
<1>21. CASE StartPrevious
  BY <1>21, FilesKept DEF StartPrevious, Goto, Returns
<1>22. CASE RollbackDeletesCandidate
  BY <1>22, FilesKept DEF RollbackDeletesCandidate, Deleted, Goto
<1>23. CASE UndoInstall
  BY <1>23, FilesKept DEF UndoInstall, Goto, Returns
<1>24. CASE ClearRolledBack
  <2>1. /\ pc = "undo clear" /\ Unfinished' = Absent /\ UNCHANGED <<binary, image>> /\ Recorded' = Recorded
        /\ answer' = "rolledBack"
    BY <1>24, FilesKept, NothingLeft, JournalReplaced DEF ClearRolledBack, Returns, TypeInv
  <2>2. CASE work.previous = Absent
    BY <2>1, <2>2 DEF StepInv, FitsInv, Fits, InstallFits, Working
  <2>3. CASE work.previous # Absent
    BY <2>1, <2>3 DEF RestoredInv, Restored
  <2> QED BY <2>2, <2>3
<1>25. CASE RemoveService
  BY <1>25, FilesKept DEF RemoveService, Goto
<1>26. CASE RemoveEntry
  BY <1>26, FilesKept DEF RemoveEntry, Goto
<1>27. CASE RemoveBinaries
  BY <1>27, FilesKept DEF RemoveBinaries, RemoveBinary, Deleted, Goto, Returns
<1>28. CASE RemoveRecord
  BY <1>28, FilesKept DEF RemoveRecord, Goto
<1>29. CASE RemoveJournal
  BY <1>29, FilesKept DEF RemoveJournal, Goto
<1>30. CASE RemoveDirectory
  BY <1>30, FilesKept DEF RemoveDirectory, Returns
<1>31. CASE Interrupted
  BY <1>31, FilesKept DEF Interrupted, Returns
<1>32. CASE HealthFails
  BY <1>32, FilesKept DEF HealthFails, Goto
<1>33. CASE ClientStarts
  BY <1>33, FilesKept DEF ClientStarts
<1>34. CASE ServiceEnds
  BY <1>34, FilesKept DEF ServiceEnds
<1>35. CASE UNCHANGED vars
  BY <1>35, FilesKept
<1>36. CASE LeaveState
  BY <1>36, FilesKept DEF LeaveState, Returns
<1> QED BY <1>1, <1>2, <1>3, <1>4, <1>5, <1>6, <1>7, <1>8, <1>9, <1>10, <1>11,
           <1>12, <1>13, <1>14, <1>15, <1>16, <1>17, <1>18, <1>19, <1>20, <1>21,
           <1>22, <1>23, <1>24, <1>25, <1>26, <1>27, <1>28, <1>29, <1>30, <1>31,
           <1>32, <1>33, <1>34, <1>35, <1>36
           DEF Next, Step

\* A release is recorded by the upgrade that was decided on, or again.
LEMMA VersionStep == TypeInv /\ WorkInv /\ [Next]_vars => KeepsVersion
<1> SUFFICES ASSUME TypeInv, WorkInv, [Next]_vars PROVE KeepsVersion
  OBVIOUS
<1> USE DEF disk, scm, memory, vars
<1>a. Recorded' = Recorded => KeepsVersion
  <2> SUFFICES ASSUME Recorded' = Recorded, Recorded \notin {Absent, Torn}
               PROVE  Recorded' \notin {Absent, Torn} /\ VersionOf(Recorded') >= VersionOf(Recorded)
    BY DEF KeepsVersion
  <2>1. VersionOf(Recorded) \in Nat
    BY FilesAre, BundleIs
  <2> QED BY <2>1
<1>b. UNCHANGED release => KeepsVersion
  BY <1>a, FilesKept
<1>c. Recovered(release) = Replaced(Recorded) /\ Recorded \in Bundle \cup {Absent, Torn}
  BY FilesAre
<1>d. ASSUME work \in Doc, work.candidate = mine, Recorded \in {work.previous, mine},
             Recorded' = work.candidate
      PROVE  KeepsVersion
  <2>1. mine \in Bundle /\ mine \notin {Absent, Torn} /\ VersionOf(mine) \in Nat
    BY <1>d, DocIs, BundleIs
  <2>2. CASE Recorded = mine
    BY <1>a, <1>d, <2>2
  <2>3. CASE Recorded = work.previous /\ Recorded \notin {Absent, Torn}
    <3>1. VersionOf(mine) > VersionOf(Recorded) /\ VersionOf(Recorded) \in Nat
      BY <1>d, <2>3, DocIs, BundleIs
    <3>2. VersionOf(mine) >= VersionOf(Recorded)
      BY <2>1, <3>1
    <3>3. Recorded' = mine
      BY <1>d
    <3> QED BY <2>1, <3>2, <3>3 DEF KeepsVersion
  <2> QED BY <1>d, <2>2, <2>3 DEF KeepsVersion
<1>1. ASSUME NEW b \in Bundle, Ensure(b) PROVE KeepsVersion
  BY <1>1, <1>a, <1>b DEF Ensure
<1>2. CASE Remove
  BY <1>2, <1>a, <1>b DEF Remove
<1>3. CASE LoadRelease
  BY <1>3, <1>a, <1>b, <1>c, ReleaseReplaced DEF LoadRelease, Goto, Returns, TypeInv
<1>4. CASE LoadJournal
  BY <1>4, <1>a, <1>b DEF LoadJournal, Goto, Returns
<1>5. CASE KeepCompatible
  BY <1>5, <1>a, <1>b DEF KeepCompatible, Returns
<1>6. CASE StageCandidate
  BY <1>6, <1>a, <1>b DEF StageCandidate, Goto, Returns
<1>7. CASE PersistJournal
  BY <1>7, <1>a, <1>b DEF PersistJournal, StepOf, Goto, Returns
<1>8. CASE StopService
  BY <1>8, <1>a, <1>b DEF StopService, Advance
<1>9. CASE RetainPrevious
  BY <1>9, <1>a, <1>b DEF RetainPrevious, Renamed, Deleted, Goto, Returns
<1>10. CASE PromoteCandidate
  BY <1>10, <1>a, <1>b DEF PromoteCandidate, Renamed, Goto
<1>11. CASE RegisterService
  BY <1>11, <1>a, <1>b DEF RegisterService, CreateSystemService,
       ChangeServiceImagePath, Advance
<1>12. CASE VerifyCandidateHealth
  BY <1>12, <1>a, <1>b DEF VerifyCandidateHealth, Advance, Goto
<1>13. CASE RecordRelease
  <2>1. work \in Doc /\ work.candidate = mine /\ Recorded \in {work.previous, mine}
        /\ ~IsAmbiguous(release)
    BY <1>13 DEF RecordRelease, TypeInv, WorkInv, Working
  <2>2. Recorded' = work.candidate
    BY <1>13, <2>1, DocIs, ReleaseReplaced DEF RecordRelease
  <2> QED BY <1>d, <2>1, <2>2
<1>14. CASE DiscardPrevious
  BY <1>14, <1>a, <1>b DEF DiscardPrevious, Deleted, Goto, Returns
<1>15. CASE DiscardCandidate
  BY <1>15, <1>a, <1>b DEF DiscardCandidate, Deleted, Goto
<1>16. CASE ClearJournal
  BY <1>16, <1>a, <1>b DEF ClearJournal, Returns
<1>17. CASE PublishUninstallEntry
  BY <1>17, <1>a, <1>b DEF PublishUninstallEntry
<1>18. CASE RollbackStops
  BY <1>18, <1>a, <1>b DEF RollbackStops, Goto
<1>19. CASE RollbackDeletes
  BY <1>19, <1>a, <1>b DEF RollbackDeletes, Deleted, Goto, Returns
<1>20. CASE RestorePrevious
  BY <1>20, <1>a, <1>b DEF RestorePrevious, Renamed, Goto, Returns
<1>21. CASE StartPrevious
  BY <1>21, <1>a, <1>b DEF StartPrevious, Goto, Returns
<1>22. CASE RollbackDeletesCandidate
  BY <1>22, <1>a, <1>b DEF RollbackDeletesCandidate, Deleted, Goto
<1>23. CASE UndoInstall
  BY <1>23, <1>a, <1>b DEF UndoInstall, Goto, Returns
<1>24. CASE ClearRolledBack
  BY <1>24, <1>a, <1>b DEF ClearRolledBack, Returns
<1>25. CASE RemoveService
  BY <1>25, <1>a, <1>b DEF RemoveService, Goto
<1>26. CASE RemoveEntry
  BY <1>26, <1>a, <1>b DEF RemoveEntry, Goto
<1>27. CASE RemoveBinaries
  BY <1>27, <1>a, <1>b DEF RemoveBinaries, RemoveBinary, Deleted, Goto, Returns
<1>28. CASE RemoveRecord
  BY <1>28, <1>a, <1>b DEF RemoveRecord, Goto, KeepsVersion
<1>29. CASE RemoveJournal
  BY <1>29, <1>a, <1>b DEF RemoveJournal, Goto
<1>30. CASE RemoveDirectory
  BY <1>30, <1>a, <1>b, NothingLeft, ReleaseReplaced DEF RemoveDirectory, Returns,
       KeepsVersion
<1>31. CASE Interrupted
  <2>1. CASE pc = "record" /\ Recorded' = work.candidate
    <3>1. work \in Doc /\ work.candidate = mine /\ Recorded \in {work.previous, mine}
      BY <2>1 DEF TypeInv, WorkInv, Working
    <3> QED BY <1>d, <2>1, <3>1
  <2>2. CASE Recorded' = Torn /\ Recorded \in {Absent, Torn}
    BY <2>2 DEF KeepsVersion
  <2> QED BY <1>31, <1>a, <2>1, <2>2, InterruptedFiles
<1>32. CASE HealthFails
  BY <1>32, <1>a, <1>b DEF HealthFails, Goto
<1>33. CASE ClientStarts
  BY <1>33, <1>a, <1>b DEF ClientStarts
<1>34. CASE ServiceEnds
  BY <1>34, <1>a, <1>b DEF ServiceEnds
<1>35. CASE UNCHANGED vars
  BY <1>35, <1>a, <1>b
<1>36. CASE LeaveState
  BY <1>36, <1>a, <1>b DEF LeaveState, Returns
<1> QED BY <1>1, <1>2, <1>3, <1>4, <1>5, <1>6, <1>7, <1>8, <1>9, <1>10, <1>11,
           <1>12, <1>13, <1>14, <1>15, <1>16, <1>17, <1>18, <1>19, <1>20, <1>21,
           <1>22, <1>23, <1>24, <1>25, <1>26, <1>27, <1>28, <1>29, <1>30, <1>31,
           <1>32, <1>33, <1>34, <1>35, <1>36
           DEF Next, Step

-----------------------------------------------------------------------------
(* The theorems *)

LEMMA InitIInv == Init => IInv
<1> SUFFICES ASSUME Init PROVE IInv
  OBVIOUS
<1>1. NoFile = Replaced(Absent) /\ NoFile \in FileOf(Bundle) /\ NoFile \in FileOf(Doc)
      /\ ~IsStale(NoFile) /\ ~IsAmbiguous(NoFile) /\ Found(NoFile) = Absent
  BY NothingLeft, ReplacedFile
<1>2. Unfinished = Absent /\ pc = "idle" /\ ~Restored
  BY <1>1 DEF Init, Unfinished, Found, Restored
<1>3. /\ TypeInv /\ ~IsStale(release) /\ Settled
  <2>1. CASE release = NoFile /\ binary = NoBinary /\ image = Absent
    BY <1>1, <1>2, <2>1 DEF Init, TypeInv, NoBinary, Settled, Place, Steps, Working, Ensuring
  <2>2. ASSUME NEW r \in Bundle, NEW p \in {"live", "legacy"},
               release = Replaced(r), binary = [NoBinary EXCEPT ![p] = r], image = p
        PROVE  TypeInv /\ ~IsStale(release) /\ Settled
    <3>1. release \in FileOf(Bundle) /\ ~IsAmbiguous(release) /\ ~IsStale(release) /\ Recorded = r
      BY <2>2, ReplacedFile DEF Recorded, Found
    <3>2. /\ binary \in [Place -> Bundle \cup {Absent}]
          /\ binary[image] = r /\ binary["previous"] = Absent
      BY <2>2 DEF NoBinary, Place
    <3> QED BY <1>1, <1>2, <2>2, <3>1, <3>2 DEF Init, TypeInv, Settled, Steps, Working, Ensuring
  <2> QED BY <2>1, <2>2 DEF Init
<1>4. LeftoverInv /\ FoundInv /\ FitsInv /\ RestoredInv
  BY <1>2, <1>3 DEF LeftoverInv, FoundInv, FoundFits, FitsInv, RestoredInv, Working
<1>5. WorkInv /\ StepInv /\ LoadInv /\ OutcomeTruthful
  BY <1>2 DEF Init, WorkInv, StepInv, LoadInv, OutcomeTruthful, Working, Removing
<1> QED BY <1>3, <1>4, <1>5 DEF IInv

LEMMA Invariance == Spec => []IInv
<1>1. IInv /\ [Next]_vars => IInv'
  <2> SUFFICES ASSUME IInv, [Next]_vars PROVE IInv'
    OBVIOUS
  <2>1. TypeInv' /\ LeftoverInv' /\ WorkInv' /\ StepInv' /\ LoadInv'
    BY TypeStep, LeftoverStep, WorkStep, StepStep, LoadStep DEF IInv
  <2>2. FitsInv'
    BY <2>1, FitsStep DEF IInv
  <2>3. FoundInv' /\ RestoredInv' /\ OutcomeTruthful'
    BY <2>1, <2>2, FoundStep, RestoredStep, OutcomeStep DEF IInv
  <2> QED BY <2>1, <2>2, <2>3 DEF IInv
<1> QED BY <1>1, InitIInv, PTL DEF Spec

\* While the service is registered, the executable of the recorded release is kept
\* where activation or rollback can use it, whatever interrupted the upgrades so
\* far, unless a rollback was repeated after it had restored the binary
\* (activate_staged_service_binary, restore_previous_service_binary).
THEOREM RecordedBinaryKeptHolds == Spec => []RecordedBinaryKept
<1>1. IInv => RecordedBinaryKept
  <2> SUFFICES ASSUME IInv, image # Absent, Recorded \notin {Absent, Torn}
               PROVE  \/ \E p \in {"live", "legacy", "previous"} : binary[p] = Recorded
                      \/ RollbackRepeated
    BY DEF RecordedBinaryKept
  <2>1. image \in {"live", "legacy"}
    BY DEF IInv, TypeInv
  <2>2. CASE Unfinished \in {Absent, Torn}
    BY <2>1, <2>2 DEF IInv, FoundInv, FoundFits, Settled
  <2>3. CASE Unfinished \notin {Absent, Torn}
    <3>1. Unfinished.phase \in Phase /\ Fits(Unfinished)
      BY <2>3, FilesAre, DocIs DEF IInv, FoundInv, FoundFits
    <3> QED BY <2>1, <2>3, <3>1
         DEF Fits, UpgradeFits, InstallFits, CutShort, Phase, RollbackRepeated
  <2> QED BY <2>2, <2>3
<1> QED BY <1>1, Invariance, PTL

\* When no manager is at work and no journal is left, the SCM entry starts the
\* recorded release (execute_service_upgrade clears the journal last).
THEOREM SettledServiceIsRecordedHolds == Spec => []SettledServiceIsRecorded
<1>1. IInv => SettledServiceIsRecorded
  BY BundleIs DEF IInv, FoundInv, FoundFits, Settled, SettledServiceIsRecorded
<1> QED BY <1>1, Invariance, PTL

\* A retained binary belongs to a journal that will restore or discard it (finalize_upgrade,
\* restore_previous_service_binary).
THEOREM RetainedHasJournalHolds == Spec => []RetainedHasJournal
<1>1. IInv => RetainedHasJournal
  <2> SUFFICES ASSUME IInv, pc = "idle", image # Absent, binary["previous"] # Absent
               PROVE  Unfinished \notin {Absent, Torn} /\ Unfinished.previous = binary["previous"]
    BY DEF RetainedHasJournal
  <2>1. FoundFits
    BY DEF IInv, FoundInv
  <2>2. Unfinished \notin {Absent, Torn}
    BY <2>1 DEF FoundFits, Settled
  <2>3. Unfinished.phase \in Phase /\ Fits(Unfinished)
    BY <2>1, <2>2, FilesAre, DocIs DEF IInv, FoundFits
  <2> QED BY <2>2, <2>3 DEF Fits, UpgradeFits, InstallFits, CutShort, Phase
<1> QED BY <1>1, Invariance, PTL

\* What a manager reports is what it leaves behind (execute_service_upgrade,
\* EnsureServiceOutcome).
THEOREM OutcomeTruthfulHolds == Spec => []OutcomeTruthful
<1>1. IInv => OutcomeTruthful
  BY DEF IInv
<1> QED BY <1>1, Invariance, PTL

\* The recorded version never goes back unless the service is removed, through
\* upgrades, rollbacks and repeated managers (decide_service_upgrade).
THEOREM VersionNeverBackHolds == Spec => VersionNeverBack
<1>1. IInv /\ [Next]_vars => [KeepsVersion]_vars
  BY VersionStep DEF IInv
<1> QED BY <1>1, Invariance, PTL DEF Spec, VersionNeverBack

=============================================================================
