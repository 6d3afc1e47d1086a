-------------------------- MODULE ServiceUpgrade --------------------------
(***************************************************************************)
(* Installation, upgrade and removal of the service by the elevated        *)
(* manager: ensure_system_service and remove_system_service in             *)
(* src/src/windows_upgrade.rs, with the journalled coordinator             *)
(* execute_service_upgrade of src/src/service_upgrade.rs.                  *)
(*                                                                         *)
(* A global mutex admits one manager at a time.  It shares the machine     *)
(* with the service it replaces, which clients may start at any moment and *)
(* which ends when idle.  A release is its version and its build: two      *)
(* releases of one version differ in their bytes only.                     *)
(***************************************************************************)
EXTENDS ProtectedFile, Naturals

CONSTANTS
    Bundle,   \* the releases whose signed bundles managers bring
    Legacy    \* a release may be installed at the former path

Place == {"live", "legacy", "candidate", "previous"}

\* UpgradePhase, and ServiceUpgradeJournal.
Phase == {"Staged", "OldStopped", "ConfigSwitched", "Healthy"}
JournalDoc == [candidate : Bundle, previous : Bundle \cup {Absent}, phase : Phase]

ASSUME UpgradeOK ==
    /\ Bundle \subseteq Nat /\ Absent \notin Nat \cup Place /\ Torn \notin Nat
    /\ Legacy \in BOOLEAN
    /\ \A document \in JournalDoc : document \notin {Absent, Torn}

\* ServiceVersion: the version alone orders releases, the digest tells them apart.
VersionOf(release) == release \div 2

VARIABLES
    release,   \* the protected release record
    journal,   \* the protected upgrade journal: candidate, previous and phase
    binary,    \* the executable at each managed place
    image,     \* the place the SCM entry names; Absent without an entry
    running,   \* the release that runs as the service
    entry,     \* whether Programs and Features offers the removal
    pc,        \* the next step of the manager, "idle" without one
    mine,      \* the release of the manager's bundle
    work,      \* the upgrade journal in the manager's memory
    answer     \* what the last manager reported

vars == <<release, journal, binary, image, running, entry, pc, mine, work, answer>>
disk == <<release, journal, binary, entry>>
scm == <<image, running>>
memory == <<mine, work, answer>>

NoBinary == [p \in Place |-> Absent]

\* Nothing is installed, or a complete release is, perhaps at the former path.
Init ==
    /\ journal = NoFile /\ running = Absent
    /\ pc = "idle" /\ mine = Absent /\ work = Absent /\ answer = "none"
    /\ \/ /\ release = NoFile /\ binary = NoBinary /\ image = Absent /\ entry = FALSE
       \/ \E r \in Bundle, p \in IF Legacy THEN {"live", "legacy"} ELSE {"live"} :
              /\ release = Replaced(r) /\ binary = [NoBinary EXCEPT ![p] = r]
              /\ image = p /\ entry = TRUE

Goto(step) == pc' = step /\ UNCHANGED memory
Returns(result) == pc' = "idle" /\ answer' = result /\ work' = Absent /\ UNCHANGED mine

-----------------------------------------------------------------------------
(* install_system_service: what is there, and what is to be done *)

Ensure(bundle) ==
    /\ pc = "idle"
    /\ pc' = "release" /\ mine' = bundle /\ answer' = "none"
    /\ UNCHANGED <<disk, scm, work>>

\* Mutant: an older release may replace a newer one.
DecideUnordered(candidate, installed) ==
    CASE installed = Absent -> "Install" [] installed = candidate -> "KeepCompatible"
      [] OTHER -> "Upgrade"

\* decide_service_upgrade.
Decide(candidate, installed) ==
    CASE installed = Absent                          -> "Install"
      [] installed = candidate                       -> "KeepCompatible"
      [] installed # Absent /\ VersionOf(candidate) > VersionOf(installed) -> "Upgrade"
      [] OTHER                                       -> "refused"

\* load_release_record, and a service without a record is not touched.
LoadRelease ==
    LET installed == Recovered(release).path IN
    /\ pc = "release"
    /\ release' = IF IsAmbiguous(release) THEN release ELSE Recovered(release)
    /\ IF \/ IsAmbiguous(release) \/ installed = Torn
          \/ image # Absent /\ installed = Absent
       THEN Returns("refused")
       ELSE IF Decide(mine, installed) = "refused" THEN Returns("refused")
       ELSE Goto("journal")
    /\ UNCHANGED <<journal, binary, entry, scm>>

NewJournal(previous) == [candidate |-> mine, previous |-> previous, phase |-> "Staged"]

\* A journal of this upgrade, found before or after its release was recorded.
IsResumable(doc, installed) ==
    /\ doc.candidate = mine
    /\ doc.previous = installed \/ installed = mine
    /\ doc.previous # Absent => image # Absent

\* load_upgrade_journal; a journal is resumed by the bundle it is about only.
LoadJournal ==
    LET found == Recovered(journal).path
        installed == release.path IN
    /\ pc = "journal"
    /\ journal' = IF IsAmbiguous(journal) THEN journal ELSE Recovered(journal)
    /\ \/ /\ IsAmbiguous(journal) \/ found = Torn
          /\ Returns("refused")
       \/ /\ ~IsAmbiguous(journal) /\ found \notin {Absent, Torn}
          /\ IF IsResumable(found, installed)
             THEN pc' = "stage" /\ work' = found /\ UNCHANGED <<mine, answer>>
             ELSE Returns("refused")
       \/ /\ ~IsAmbiguous(journal) /\ found = Absent
          /\ \/ /\ Decide(mine, installed) = "KeepCompatible" /\ image # Absent
                /\ Goto("keep")
             \/ /\ Decide(mine, installed) = "Install" \/ image # Absent
                /\ Decide(mine, installed) # "KeepCompatible"
                /\ pc' = "stage" /\ work' = NewJournal(installed)
                /\ UNCHANGED <<mine, answer>>
             \/ /\ Decide(mine, installed) # "Install" /\ image = Absent
                /\ Returns("refused")
    /\ UNCHANGED <<release, binary, entry, scm>>

\* start_and_wait: a service that already runs is not started again.
Started == IF running = Absent /\ image # Absent THEN binary[image] ELSE running
IsHealthy(expected) ==
    image # Absent /\ Started # Absent /\ VersionOf(Started) = VersionOf(expected)

\* verify_managed_binary and ensure_expected_service_config.
IsManaged == binary["live"] = mine /\ image = "live"

\* KeepCompatible: the installed release is the bundle's.
KeepCompatible ==
    /\ pc = "keep"
    /\ IF IsManaged
       THEN /\ running' = Started
            /\ IF IsHealthy(mine)
               THEN pc' = "publish" /\ answer' = "Current" /\ UNCHANGED <<mine, work>>
               ELSE Returns("error")
       ELSE Returns("refused") /\ UNCHANGED running
    /\ UNCHANGED <<disk, image>>

\* Mutant: a candidate that an interrupted manager staged is an error.
StageOnce ==
    /\ pc = "stage"
    /\ IF binary["candidate"] = Absent
       THEN binary' = [binary EXCEPT !["candidate"] = mine] /\ Goto("persist")
       ELSE Returns("error") /\ UNCHANGED binary
    /\ UNCHANGED <<release, journal, entry, scm>>

\* stage_candidate_binary: a candidate that is there must be this bundle's; a
\* copy gets its name only when it is complete and verified.
StageCandidate ==
    /\ pc = "stage"
    /\ IF binary["candidate"] \in {Absent, mine}
       THEN binary' = [binary EXCEPT !["candidate"] = mine] /\ Goto("persist")
       ELSE Returns("error") /\ UNCHANGED binary
    /\ UNCHANGED <<release, journal, entry, scm>>

-----------------------------------------------------------------------------
(* execute_service_upgrade *)

StepOf(phase) ==
    CASE phase = "Staged" -> "stop" [] phase = "OldStopped" -> "retain"
      [] phase = "ConfigSwitched" -> "start" [] phase = "Healthy" -> "record"

\* persist_journal.
PersistJournal ==
    /\ pc = "persist"
    /\ IF IsAmbiguous(journal)
       THEN Returns("error") /\ UNCHANGED journal
       ELSE journal' = Replaced(work) /\ Goto(StepOf(work.phase))
    /\ UNCHANGED <<release, binary, entry, scm>>

Advance(phase) ==
    pc' = "persist" /\ work' = [work EXCEPT !.phase = phase] /\ UNCHANGED <<mine, answer>>

\* stop_service.
StopService ==
    /\ pc = "stop"
    /\ running' = IF image = Absent THEN running ELSE Absent
    /\ Advance("OldStopped")
    /\ UNCHANGED <<disk, image>>

\* A running executable can be renamed but not deleted.
CanDelete(place) == running = Absent \/ binary[place] # running
Deleted(place) == [binary EXCEPT ![place] = Absent]
Renamed(from, to) == [binary EXCEPT ![to] = binary[from], ![from] = Absent]

\* Mutant: what is at the live path replaces a retained binary.
RetainAlways ==
    /\ pc = "retain"
    /\ binary' = IF work.previous # Absent THEN Renamed(image, "previous") ELSE Deleted("live")
    /\ Goto("promote")
    /\ UNCHANGED <<release, journal, entry, scm>>

\* activate_staged_service_binary: the installed binary is retained, once.
RetainPrevious ==
    /\ pc = "retain"
    /\ IF work.previous # Absent /\ binary["previous"] = Absent
       THEN IF binary[image] # Absent
            THEN binary' = Renamed(image, "previous") /\ Goto("promote")
            ELSE Returns("error") /\ UNCHANGED binary
       ELSE IF CanDelete("live")
            THEN binary' = Deleted("live") /\ Goto("promote")
            ELSE Returns("error") /\ UNCHANGED binary
    /\ UNCHANGED <<release, journal, entry, scm>>

\* The candidate, which this manager has staged, becomes the live binary.
PromoteCandidate ==
    /\ pc = "promote"
    /\ binary' = Renamed("candidate", "live")
    /\ Goto("register")
    /\ UNCHANGED <<release, journal, entry, scm>>

\* The rest of activate_candidate: the SCM entry is created for the live path,
CreateSystemService == image = Absent /\ image' = "live"

\* or switched to it.
ChangeServiceImagePath == image # Absent /\ image' = "live"

RegisterService ==
    /\ pc = "register"
    /\ CreateSystemService \/ ChangeServiceImagePath
    /\ Advance("ConfigSwitched")
    /\ UNCHANGED <<disk, running>>

\* Mutant: a health check that fails does not lead to a rollback.
VerifyWithoutRollback ==
    /\ pc = "start"
    /\ running' = Started
    /\ IF IsHealthy(work.candidate) THEN Advance("Healthy") ELSE Returns("rolledBack")
    /\ UNCHANGED <<disk, image>>

\* verify_candidate_health; without an SCM entry it fails as well.
VerifyCandidateHealth ==
    /\ pc = "start"
    /\ running' = Started
    /\ IF IsHealthy(work.candidate) THEN Advance("Healthy") ELSE Goto("undo")
    /\ UNCHANGED <<disk, image>>

\* Mutant: the journal is cleared before the release is recorded.
RecordNothing ==
    /\ pc = "record"
    /\ Goto("discard previous")
    /\ UNCHANGED <<disk, scm>>

\* finalize_upgrade: the release record, then the binaries no longer needed.
RecordRelease ==
    /\ pc = "record"
    /\ IF IsAmbiguous(release)
       THEN Returns("error") /\ UNCHANGED release
       ELSE release' = Replaced(work.candidate) /\ Goto("discard previous")
    /\ UNCHANGED <<journal, binary, entry, scm>>

\* Mutant: the retained binary is left behind.
KeepPrevious ==
    /\ pc = "discard previous"
    /\ Goto("discard candidate")
    /\ UNCHANGED <<disk, scm>>

DiscardPrevious ==
    /\ pc = "discard previous"
    /\ IF CanDelete("previous")
       THEN binary' = Deleted("previous") /\ Goto("discard candidate")
       ELSE Returns("error") /\ UNCHANGED binary
    /\ UNCHANGED <<release, journal, entry, scm>>

DiscardCandidate ==
    /\ pc = "discard candidate"
    /\ binary' = Deleted("candidate")
    /\ Goto("clear")
    /\ UNCHANGED <<release, journal, entry, scm>>

\* clear_journal after finalize_upgrade.
ClearJournal ==
    /\ pc = "clear"
    /\ IF IsAmbiguous(journal)
       THEN Returns("error") /\ UNCHANGED journal
       ELSE /\ journal' = NoFile /\ pc' = "publish"
            /\ answer' = IF work.previous = Absent THEN "Installed" ELSE "Upgraded"
            /\ work' = Absent /\ UNCHANGED mine
    /\ UNCHANGED <<release, binary, entry, scm>>

\* install_uninstall_manager and write_uninstall_entry end every ensure.
PublishUninstallEntry ==
    /\ pc = "publish"
    /\ entry' = TRUE
    /\ pc' = "idle"
    /\ UNCHANGED <<release, journal, binary, scm, memory>>

-----------------------------------------------------------------------------
(* rollback_service, after a failed health check *)

RollbackStops ==
    /\ pc = "undo"
    /\ running' = IF image = Absent THEN running ELSE Absent
    /\ Goto("undo delete")
    /\ UNCHANGED <<disk, image>>

\* The live binary makes place: restore_previous_service_binary, or the start
\* of the removal of a first installation.
RollbackDeletes ==
    /\ pc = "undo delete"
    /\ IF CanDelete("live")
       THEN /\ binary' = Deleted("live")
            /\ Goto(IF work.previous = Absent THEN "undo candidate" ELSE "undo rename")
       ELSE Returns("error") /\ UNCHANGED binary
    /\ UNCHANGED <<release, journal, entry, scm>>

RestorePrevious ==
    /\ pc = "undo rename"
    /\ IF binary["previous"] # Absent
       THEN binary' = Renamed("previous", "live") /\ Goto("undo start")
       ELSE Returns("error") /\ UNCHANGED binary
    /\ UNCHANGED <<release, journal, entry, scm>>

StartPrevious ==
    /\ pc = "undo start"
    /\ image' = "live"
    /\ running' = IF running = Absent THEN binary["live"] ELSE running
    /\ IF VersionOf(running') = VersionOf(work.previous)
       THEN Goto("undo clear") ELSE Returns("error")
    /\ UNCHANGED disk

\* A first installation leaves nothing; without its SCM entry it is stuck.
RollbackDeletesCandidate ==
    /\ pc = "undo candidate"
    /\ binary' = Deleted("candidate")
    /\ Goto("undo install")
    /\ UNCHANGED <<release, journal, entry, scm>>

UndoInstall ==
    /\ pc = "undo install"
    /\ IF image = Absent
       THEN Returns("error") /\ UNCHANGED image
       ELSE image' = Absent /\ Goto("undo clear")
    /\ UNCHANGED <<disk, running>>

\* clear_journal after the rollback; the caller gets the health error.
ClearRolledBack ==
    /\ pc = "undo clear"
    /\ journal' = IF IsAmbiguous(journal) THEN journal ELSE NoFile
    /\ Returns(IF IsAmbiguous(journal) THEN "error" ELSE "rolledBack")
    /\ UNCHANGED <<release, binary, entry, scm>>

-----------------------------------------------------------------------------
(* remove_system_service *)

Remove ==
    /\ pc = "idle"
    /\ pc' = IF image = Absent THEN "remove entry" ELSE "remove service"
    /\ running' = IF image = Absent THEN running ELSE Absent
    /\ answer' = "none"
    /\ UNCHANGED <<disk, image, mine, work>>

RemoveService ==
    /\ pc = "remove service"
    /\ image' = Absent
    /\ Goto("remove entry")
    /\ UNCHANGED <<disk, running>>

RemoveEntry ==
    /\ pc = "remove entry"
    /\ entry' = FALSE
    /\ Goto("remove live")
    /\ UNCHANGED <<release, journal, binary, scm>>

\* delete_managed_file for the live path, the candidate and the retained binary.
RemoveBinary(place, step, next) ==
    /\ pc = step
    /\ IF CanDelete(place)
       THEN binary' = Deleted(place) /\ Goto(next)
       ELSE Returns("error") /\ UNCHANGED binary
    /\ UNCHANGED <<release, journal, entry, scm>>

RemoveBinaries ==
    \/ RemoveBinary("live", "remove live", "remove candidate")
    \/ RemoveBinary("candidate", "remove candidate", "remove previous")
    \/ RemoveBinary("previous", "remove previous", "remove record")

\* remove_service_state: record and journal by name, then the whole directory.
\* "Removed" stands for Absent, too: there was no SCM entry, and the rest went.
RemoveRecord ==
    /\ pc = "remove record"
    /\ release' = [release EXCEPT !.path = Absent]
    /\ Goto("remove journal")
    /\ UNCHANGED <<journal, binary, entry, scm>>

\* A data directory that cannot be verified is left alone.
LeaveState ==
    /\ pc = "remove record"
    /\ Returns("Removed")
    /\ UNCHANGED <<disk, scm>>

RemoveJournal ==
    /\ pc = "remove journal"
    /\ journal' = [journal EXCEPT !.path = Absent]
    /\ Goto("remove directory")
    /\ UNCHANGED <<release, binary, entry, scm>>

RemoveDirectory ==
    /\ pc = "remove directory"
    /\ release' = NoFile /\ journal' = NoFile
    /\ Returns("Removed")
    /\ UNCHANGED <<binary, entry, scm>>

-----------------------------------------------------------------------------
(* What may go wrong, and what others do *)

\* A call fails, or the manager is killed, in the middle of a step: protected
\* files are then in one of the states between the calls that change them.
Interrupted ==
    /\ pc # "idle"
    /\ release' \in CASE pc = "release" -> RecoverFailures(release)
                      [] pc = "record" -> RecoverFailures(release)
                            \cup ReplaceCrashes(Recovered(release), work.candidate)
                      [] OTHER -> {release}
    /\ journal' \in CASE pc = "journal" -> RecoverFailures(journal)
                      [] pc = "persist" -> RecoverFailures(journal)
                            \cup ReplaceCrashes(Recovered(journal), work)
                      [] pc \in {"clear", "undo clear"} -> RecoverFailures(journal)
                      [] OTHER -> {journal}
    /\ Returns("error")
    /\ UNCHANGED <<binary, entry, scm>>

\* The candidate does not start, or does not answer the health check.
HealthFails ==
    /\ pc = "start"
    /\ running' \in {running, Started, Absent}
    /\ Goto("undo")
    /\ UNCHANGED <<disk, image>>

\* A client demands the service.
ClientStarts ==
    /\ running = Absent /\ Started # Absent
    /\ running' = Started
    /\ UNCHANGED <<disk, image, pc, memory>>

\* The service is idle, fails, or the machine restarts.
ServiceEnds ==
    /\ running # Absent
    /\ running' = Absent
    /\ UNCHANGED <<disk, image, pc, memory>>

\* The manager's own steps, once it was started.
Step ==
    \/ LoadRelease \/ LoadJournal \/ KeepCompatible \/ StageCandidate
    \/ PersistJournal \/ StopService \/ RetainPrevious \/ PromoteCandidate
    \/ RegisterService \/ VerifyCandidateHealth \/ RecordRelease
    \/ DiscardPrevious \/ DiscardCandidate \/ ClearJournal \/ PublishUninstallEntry
    \/ RollbackStops \/ RollbackDeletes \/ RestorePrevious \/ StartPrevious
    \/ RollbackDeletesCandidate \/ UndoInstall \/ ClearRolledBack
    \/ RemoveService \/ RemoveEntry \/ RemoveBinaries
    \/ RemoveRecord \/ RemoveJournal \/ RemoveDirectory

Next ==
    \/ \E b \in Bundle : Ensure(b)
    \/ Remove \/ LeaveState \/ Step \/ Interrupted \/ HealthFails \/ ClientStarts \/ ServiceEnds

Spec == Init /\ [][Next]_vars

\* The manager that left an upgrade unfinished is started again.
Resume ==
    LET found == Recovered(journal).path IN
    /\ found \notin {Absent, Torn}
    /\ Ensure(found.candidate)

\* A started manager goes on, the launcher offers the upgrade again, and a
\* service that nobody uses ends by its idle timeout.
FairSpec == Spec /\ WF_vars(Step) /\ WF_vars(Resume) /\ WF_vars(ServiceEnds)

-----------------------------------------------------------------------------
\* The release that a restart of the manager will find recorded, and the
\* journal it will find.
Recorded == Recovered(release).path
Unfinished == Recovered(journal).path

\* A rollback had put the retained binary back when it failed or its manager ended,
\* and the journal made the next manager roll back once more: it deleted the binary
\* at the live path and finds none to restore (restore_previous_service_binary).
RollbackRepeated ==
    /\ Unfinished \notin {Absent, Torn} /\ Unfinished.phase = "ConfigSwitched"
    /\ Unfinished.previous # Absent
    /\ binary["live"] = Absent /\ binary["previous"] = Absent

\* While the service is registered, the executable of the recorded release is
\* at one of the places from which activation or rollback can use it, whatever
\* interrupted the upgrades so far, unless a rollback was repeated after it had
\* restored it (activate_staged_service_binary, restore_previous_service_binary,
\* finalize_upgrade).
RecordedBinaryKept ==
    image # Absent /\ Recorded \notin {Absent, Torn} =>
        \/ \E p \in {"live", "legacy", "previous"} : binary[p] = Recorded
        \/ RollbackRepeated

\* When no manager is at work and no journal is left, the SCM entry starts the
\* recorded release and nothing else (execute_service_upgrade clears the journal
\* last).
SettledServiceIsRecorded ==
    pc = "idle" /\ image # Absent /\ Unfinished = Absent =>
        Recorded # Absent /\ binary[image] = Recorded

\* A retained binary belongs to a journal that will restore or discard it; it is
\* never left without one, where the next upgrade would take it for its own.
RetainedHasJournal ==
    pc = "idle" /\ image # Absent /\ binary["previous"] # Absent =>
        Unfinished \notin {Absent, Torn} /\ Unfinished.previous = binary["previous"]

\* What a manager reports is what it leaves: the SCM entry, if there is one,
\* starts the release reported as installed or upgraded, which is recorded and
\* has no leftovers; after a reported rollback it starts the previous release
\* (execute_service_upgrade, EnsureServiceOutcome).
OutcomeTruthful ==
    /\ pc = "idle" /\ answer \in {"Installed", "Upgraded", "Current"} =>
         /\ Recorded = mine /\ Unfinished = Absent /\ entry
         /\ binary["previous"] = Absent
         /\ image # Absent => image = "live" /\ binary["live"] = mine
    /\ pc = "idle" /\ answer = "rolledBack" =>
         /\ Unfinished = Absent /\ binary["previous"] = Absent
         /\ image # Absent => image = "live" /\ binary["live"] = Recorded

\* What is recorded stays readable, and its version does not become lower.
KeepsVersion ==
    Recorded \notin {Absent, Torn} /\ pc \notin {"remove record", "remove directory"} =>
        Recorded' \notin {Absent, Torn} /\ VersionOf(Recorded') >= VersionOf(Recorded)

\* The recorded version never goes back, through upgrades, rollbacks and repeated
\* managers, and only the removal of the service removes it (decide_service_upgrade).
VersionNeverBack == [][KeepsVersion]_vars

\* What no manager with the same bundle gets out of, and only a removal does: a torn
\* journal or record, a first installation that was interrupted when the service was
\* registered and not recorded, a journal of an upgrade without an SCM entry
\* (install_system_service), the health check of an installation without one (service)
\* and a repeated rollback.
NeedsRemoval ==
    \/ Torn \in {Unfinished, Recorded}
    \/ image # Absent /\ Recorded = Absent
    \/ /\ image = Absent /\ Unfinished \notin {Absent, Torn}
       /\ Unfinished.previous # Absent \/ Unfinished.phase = "ConfigSwitched"
    \/ RollbackRepeated

\* An upgrade or installation that was interrupted ends, complete or rolled back,
\* or is found to need a removal, once nothing fails any more, its manager is started
\* again and clients leave the service alone (execute_service_upgrade resumes from
\* the phase in the journal; from OldStopped it does not stop a service that was
\* started since).
UpgradeResumes ==
    <>[][Step \/ Resume \/ ServiceEnds]_vars =>
        <>[](Unfinished = Absent \/ NeedsRemoval)
=============================================================================
