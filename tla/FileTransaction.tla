-------------------------- MODULE FileTransaction --------------------------
(***************************************************************************)
(* One file-set job of src/src/transaction.rs, on the Windows platform the *)
(* service uses (src/src/windows.rs) or, when Atomic, on the platform of   *)
(* the direct launcher update (src/src/windows/direct_update.rs).          *)
(*                                                                         *)
(* A job prepares verified payloads, journals what it is about to do,      *)
(* moves the old files of a registered root to backups and the prepared    *)
(* files into place, and either commits or rolls back.  The process may    *)
(* crash between any two file system calls and in the middle of a journal  *)
(* write; any call may fail; somebody else may change the files of the     *)
(* root, or take the root away.  Recovery runs when the service starts.    *)
(***************************************************************************)
EXTENDS Journal, FiniteSets

CONSTANTS
    NFiles,          \* files the manifest creates or replaces: entries 1..NFiles
    NRemoves,        \* files it removes: the entries after those
    Atomic,          \* uses_atomic_replacement() of the platform
    Exposed,         \* entries whose target somebody else may change
    PartialCreate,   \* an interrupted creation may leave a partial journal
    CrashCuts,       \* what an interrupted append may leave of its line
    CommitErrorCuts  \* what a failed append of "committed" may leave of it

N == NFiles + NRemoves
Entry == 1..N
Replaced == 1..NFiles

ASSUME ConstantsOK ==
    /\ NFiles \in Nat /\ NRemoves \in Nat /\ NFiles + NRemoves > 0
    /\ Atomic \in BOOLEAN /\ PartialCreate \in BOOLEAN
    /\ Exposed \subseteq Entry
    /\ CrashCuts \subseteq Cuts /\ CommitErrorCuts \subseteq Cuts

VARIABLES
    \* persistent: the registered root
    target,    \* the content of each entry's target file
    backup,    \* the content of each entry's backup file in the reserved directory
    prepared,  \* entries whose payload is in the reserved directory
    root,      \* what is found at the registered path
    \* persistent: the private job directory of the service
    jobDir,    \* no directory, a directory without journal, or one with it
    journal,   \* the lines of journal.jsonl, see Journal
    original,  \* the snapshots in the journal's header
    \* volatile: the process
    pc,        \* the next step of the code
    at,        \* the entry that step is about
    flow,      \* who called cleanup_job or rollback_entries
    handles,   \* entries whose target the process holds open, denying changes
    report,    \* the outcome last reported for the job
    \* bookkeeping of the model
    touched    \* entries changed by somebody else since they were inspected

rootFiles == <<target, backup, prepared>>
jobFiles == <<jobDir, journal, original>>
process == <<pc, at, flow, handles, report>>
vars == <<rootFiles, root, jobFiles, process, touched>>

Content == {"absent", "old", "new", "foreign"}
NewContent(e) == IF e \in Replaced THEN "new" ELSE "absent"

\* The line each appending step writes.
Appends == [append_committing   |-> "committing",
            append_committed    |-> "committed",
            append_rolling_back |-> "rolling_back"]

Preparing == {"copy", "inspect", "write_journal", "stage"}
Applying == {"apply", "install", "replace"}
Undoing == {"rollback", "restore"}
PCs == {"down", "serving", "recover", "prepared", "cleanup", "forget"}
           \cup Preparing \cup Applying \cup Undoing \cup DOMAIN Appends
Recoveries == {"recover_discard", "recover_undo", "recover_commit"}
Flows == {"none", "abort", "commit", "undo"} \cup Recoveries

Init ==
    /\ target \in [Entry -> {"old", "absent"}]
    /\ backup = [e \in Entry |-> "absent"]
    /\ prepared = {}
    /\ root = "present"
    /\ jobDir = "none" /\ journal = <<>> /\ original = target
    /\ pc = "serving" /\ at = 0 /\ flow = "none" /\ handles = {} /\ report = "none"
    /\ touched = {}

Goto(label) == pc' = label

\* The job's caller gets its result; the policy, and with it every retained
\* handle, is dropped.
Return(outcome) ==
    /\ pc' = "serving" /\ at' = 0 /\ flow' = "none" /\ handles' = {}
    /\ report' = outcome

\* Recovery returned an error: the service reports a failed start and stops.
StartupFails ==
    /\ pc' = "down" /\ at' = 0 /\ flow' = "none" /\ handles' = {}
    /\ UNCHANGED report

-----------------------------------------------------------------------------
(* prepare_file_set *)

CreateJob ==
    /\ pc = "serving" /\ root = "present" /\ jobDir = "none"
    /\ jobDir' = "dir"
    /\ pc' = "copy" /\ report' = "none"
    /\ UNCHANGED <<rootFiles, root, journal, original, at, flow, handles, touched>>

\* The payload directory cannot be created: the job directory stays.
CreatePayloadDirectoryFails ==
    /\ pc = "serving" /\ root = "present" /\ jobDir = "none"
    /\ jobDir' = "dir"
    /\ Return("none")
    /\ UNCHANGED <<rootFiles, root, journal, original, touched>>

CopyPayloads ==
    /\ pc = "copy"
    /\ Goto("inspect")
    /\ UNCHANGED <<rootFiles, root, jobFiles, at, flow, handles, report, touched>>

\* Each target is opened once and its handle kept, so an existing target
\* cannot change until the handle is used or dropped.
InspectTargets ==
    /\ pc = "inspect" /\ root = "present"
    /\ original' = target
    /\ handles' = {e \in Entry : target[e] # "absent"}
    /\ touched' = {}
    /\ Goto("write_journal")
    /\ UNCHANGED <<rootFiles, root, jobDir, journal, at, flow, report>>

WriteNewJournal ==
    /\ pc = "write_journal"
    /\ jobDir' = "journal" /\ journal' = NewJournal
    /\ pc' = "stage" /\ at' = 1
    /\ UNCHANGED <<rootFiles, root, original, flow, handles, report, touched>>

\* Mutant: the loop over the replace entries runs over all entries.
PrepareEveryPayload ==
    /\ pc = "stage" /\ root = "present"
    /\ at \in Entry \ prepared
    /\ prepared' = prepared \cup {at}
    /\ at' = at + 1
    /\ UNCHANGED <<target, backup, root, jobFiles, pc, flow, handles, report, touched>>

PrepareTargetPayload ==
    /\ pc = "stage" /\ root = "present"
    /\ at \in Replaced \ prepared
    /\ prepared' = prepared \cup {at}
    /\ at' = at + 1
    /\ UNCHANGED <<target, backup, root, jobFiles, pc, flow, handles, report, touched>>

PrepareDone ==
    /\ pc = "stage" /\ at = NFiles + 1
    /\ pc' = "prepared" /\ at' = 0
    /\ UNCHANGED <<rootFiles, root, jobFiles, flow, handles, report, touched>>

InterruptedCreation ==
    /\ jobDir' = "journal"
    /\ journal' \in IF PartialCreate THEN NewJournalPrefixes ELSE {NewJournal}
    /\ UNCHANGED original

\* What an interrupted step of prepare_job_contents may leave behind.
InterruptedPrepare ==
    \/ UNCHANGED <<rootFiles, jobFiles>>
    \/ /\ pc = "write_journal" /\ InterruptedCreation
       /\ UNCHANGED rootFiles
    \/ /\ pc = "stage" /\ at \in Replaced
       /\ prepared' = prepared \cup {at}
       /\ UNCHANGED <<target, backup, jobFiles>>

AbortPrepare ==
    /\ pc' = "cleanup" /\ at' = 0 /\ flow' = "abort"
    /\ UNCHANGED <<root, handles, report, touched>>

\* The code itself refuses: the root is not the registered one, or a prepared
\* file of an earlier job is in the way.
PrepareRefused ==
    /\ \/ pc = "inspect" /\ root # "present"
       \/ pc = "stage" /\ at \in Replaced /\ (root # "present" \/ at \in prepared)
    /\ AbortPrepare
    /\ UNCHANGED <<rootFiles, jobFiles>>

PrepareFails ==
    /\ pc \in Preparing
    /\ InterruptedPrepare
    /\ AbortPrepare

-----------------------------------------------------------------------------
(* commit_file_set *)

OriginalsIntact == root = "present" /\ target = original

VerifyOriginalSnapshots ==
    /\ pc = "prepared" /\ OriginalsIntact
    /\ Goto("append_committing")
    /\ UNCHANGED <<rootFiles, root, jobFiles, at, flow, handles, report, touched>>

\* The commit fails before it changed anything; the job stays on disk.
CommitRefused ==
    /\ pc = "prepared" /\ ~OriginalsIntact
    /\ Return("rolledBack")
    /\ UNCHANGED <<rootFiles, root, jobFiles, touched>>

VerifyFails ==
    /\ pc = "prepared"
    /\ Return("rolledBack")
    /\ UNCHANGED <<rootFiles, root, jobFiles, touched>>

AppendState(text) ==
    /\ journal' = AppendText(journal, text)
    /\ UNCHANGED <<jobDir, original>>

FailedAppend(text, cuts) ==
    /\ \E cut \in cuts : journal' = Interrupted(journal, text, cut)
    /\ UNCHANGED <<jobDir, original>>

AppendCommitting ==
    /\ pc = "append_committing"
    /\ AppendState("committing")
    /\ pc' = "apply" /\ at' = 1
    /\ UNCHANGED <<rootFiles, root, flow, handles, report, touched>>

AppendCommittingFails ==
    /\ pc = "append_committing"
    /\ FailedAppend("committing", CrashCuts)
    /\ Return("rolledBack")
    /\ UNCHANGED <<rootFiles, root, touched>>

-----------------------------------------------------------------------------
(* apply_entries *)

\* Mutant: the platform's uses_atomic_replacement is not asked.
NeverSwaps(e) == FALSE

\* Replace entries of the direct updater are swapped in one call.
Swaps(e) == Atomic /\ e \in Replaced

\* The retained handle still shows the inspected file, and no backup exists.
CanBackup(e) == root = "present" /\ target[e] = original[e] /\ backup[e] = "absent"

RenameTargetToBackup ==
    /\ pc = "apply" /\ at \in Entry /\ ~Swaps(at)
    /\ original[at] # "absent" /\ CanBackup(at)
    /\ backup' = [backup EXCEPT ![at] = target[at]]
    /\ target' = [target EXCEPT ![at] = "absent"]
    /\ handles' = handles \ {at}
    /\ IF at \in Replaced
       THEN pc' = "install" /\ UNCHANGED at
       ELSE at' = at + 1 /\ UNCHANGED pc
    /\ UNCHANGED <<prepared, root, jobFiles, flow, report, touched>>

\* There is nothing to back up: a new file, or a removal of an absent one.
NothingToBackup ==
    /\ pc = "apply" /\ at \in Entry /\ ~Swaps(at)
    /\ original[at] = "absent"
    /\ IF at \in Replaced
       THEN pc' = "install" /\ UNCHANGED at
       ELSE at' = at + 1 /\ UNCHANGED pc
    /\ UNCHANGED <<rootFiles, root, jobFiles, flow, handles, report, touched>>

\* Mutant: the rename replaces an existing target.
CanOverwrite(e) == root = "present" /\ e \in prepared

CanInstall(e) == root = "present" /\ target[e] = "absent" /\ e \in prepared

RenamePreparedToTarget ==
    /\ pc = "install" /\ CanInstall(at)
    /\ target' = [target EXCEPT ![at] = "new"]
    /\ prepared' = prepared \ {at}
    /\ pc' = "apply" /\ at' = at + 1
    /\ UNCHANGED <<backup, root, jobFiles, flow, handles, report, touched>>

\* atomic_replace_target checks the target, then drops its handle ...
CheckBeforeReplace ==
    /\ pc = "apply" /\ at \in Entry /\ Swaps(at)
    /\ root = "present" /\ target[at] = original[at]
    /\ handles' = handles \ {at}
    /\ Goto("replace")
    /\ UNCHANGED <<rootFiles, root, jobFiles, at, flow, report, touched>>

CanReplace(e) ==
    /\ root = "present" /\ e \in prepared
    /\ IF original[e] = "absent"
       THEN target[e] = "absent"
       ELSE target[e] # "absent" /\ backup[e] = "absent"

\* ... and swaps whatever is there then for the prepared file, in one call.
AtomicReplaceTarget ==
    /\ pc = "replace" /\ CanReplace(at)
    /\ backup' = [backup EXCEPT ![at] = target[at]]
    /\ target' = [target EXCEPT ![at] = "new"]
    /\ prepared' = prepared \ {at}
    /\ pc' = "apply" /\ at' = at + 1
    /\ UNCHANGED <<root, jobFiles, flow, handles, report, touched>>

\* ReplaceFileW failed, or was interrupted, between its own two renames: what
\* was at the target is the backup, and the prepared file was not moved.
HalfReplaced ==
    /\ pc = "replace" /\ CanReplace(at) /\ target[at] # "absent"
    /\ backup' = [backup EXCEPT ![at] = target[at]]
    /\ target' = [target EXCEPT ![at] = "absent"]
    /\ UNCHANGED <<prepared, jobFiles>>

ApplyDone ==
    /\ pc = "apply" /\ at = N + 1
    /\ pc' = "append_committed" /\ at' = 0
    /\ UNCHANGED <<rootFiles, root, jobFiles, flow, handles, report, touched>>

StartUndo ==
    /\ pc' = "append_rolling_back" /\ at' = 0 /\ flow' = "undo"
    /\ UNCHANGED <<root, handles, report, touched>>

ApplyRefused ==
    /\ \/ /\ pc = "apply" /\ at \in Entry /\ Swaps(at)
          /\ root # "present" \/ target[at] # original[at]
       \/ /\ pc = "apply" /\ at \in Entry /\ ~Swaps(at)
          /\ original[at] # "absent" /\ ~CanBackup(at)
       \/ pc = "install" /\ ~CanInstall(at)
       \/ pc = "replace" /\ ~CanReplace(at)
    /\ StartUndo
    /\ UNCHANGED <<rootFiles, jobFiles>>

\* Mutant: a failed application is cleaned up without being rolled back.
ApplyFailsIntoCleanup ==
    /\ pc \in Applying
    /\ pc' = "cleanup" /\ at' = 0 /\ flow' = "undo"
    /\ UNCHANGED <<rootFiles, root, jobFiles, handles, report, touched>>

ApplyFails ==
    /\ pc \in Applying
    /\ StartUndo
    /\ UNCHANGED <<rootFiles, jobFiles>>

ReplaceFailsHalfway ==
    /\ HalfReplaced
    /\ StartUndo

\* Mutant: the cleanup of a commit starts before "committed" is durable.
CommitWithoutRecord ==
    /\ pc = "append_committed"
    /\ pc' = "cleanup" /\ flow' = "commit"
    /\ UNCHANGED <<rootFiles, root, jobFiles, at, handles, report, touched>>

AppendCommitted ==
    /\ pc = "append_committed"
    /\ AppendState("committed")
    /\ pc' = "cleanup" /\ flow' = "commit"
    /\ UNCHANGED <<rootFiles, root, at, handles, report, touched>>

AppendCommittedFails ==
    /\ pc = "append_committed"
    /\ FailedAppend("committed", CommitErrorCuts)
    /\ StartUndo
    /\ UNCHANGED rootFiles

-----------------------------------------------------------------------------
(* rollback_entries *)

StartRollback ==
    /\ pc' = "rollback" /\ at' = N
    /\ UNCHANGED <<rootFiles, root, flow, handles, report, touched>>

AppendRollingBack ==
    /\ pc = "append_rolling_back"
    /\ AppendState("rolling_back")
    /\ StartRollback

\* A commit that rolls back ignores the failed append, recovery does not.
AppendRollingBackFails ==
    /\ pc = "append_rolling_back"
    /\ FailedAppend("rolling_back", CrashCuts)
    /\ \/ flow = "undo" /\ StartRollback
       \/ flow \in Recoveries /\ StartupFails
          /\ UNCHANGED <<rootFiles, root, touched>>

HasBackup(e) == original[e] # "absent" /\ backup[e] # "absent"
CreatedByJob(e) == ~HasBackup(e) /\ original[e] = "absent" /\ target[e] # "absent"

\* The target of a backup is deleted first, then the backup renamed onto it.
DeleteBeforeRestore ==
    /\ pc = "rollback" /\ at \in Entry /\ root = "present"
    /\ HasBackup(at) /\ ~Atomic
    /\ target' = [target EXCEPT ![at] = "absent"]
    /\ handles' = handles \ {at}
    /\ Goto("restore")
    /\ UNCHANGED <<backup, prepared, root, jobFiles, at, flow, report, touched>>

RestoreBackup ==
    /\ pc = "restore" /\ root = "present" /\ target[at] = "absent"
    /\ target' = [target EXCEPT ![at] = backup[at]]
    /\ backup' = [backup EXCEPT ![at] = "absent"]
    /\ pc' = "rollback" /\ at' = at - 1
    /\ UNCHANGED <<prepared, root, jobFiles, flow, handles, report, touched>>

\* The direct updater swaps the backup back in one call, or, when the target is
\* absent, renames it.
AtomicRestoreBackup ==
    /\ pc = "rollback" /\ at \in Entry /\ root = "present"
    /\ HasBackup(at) /\ Atomic
    /\ target' = [target EXCEPT ![at] = backup[at]]
    /\ backup' = [backup EXCEPT ![at] = "absent"]
    /\ at' = at - 1
    /\ handles' = handles \ {at}
    /\ UNCHANGED <<prepared, root, jobFiles, pc, flow, report, touched>>

\* ReplaceFileW without a backup name failed, or was interrupted, after it had
\* removed the target; the backup was not moved.
HalfRestored ==
    /\ pc = "rollback" /\ at \in Entry /\ root = "present"
    /\ HasBackup(at) /\ Atomic
    /\ target' = [target EXCEPT ![at] = "absent"]
    /\ UNCHANGED <<backup, prepared, jobFiles>>

\* A target that did not exist when the job was prepared is deleted.
DeleteTarget ==
    /\ pc = "rollback" /\ at \in Entry /\ root = "present"
    /\ CreatedByJob(at)
    /\ target' = [target EXCEPT ![at] = "absent"]
    /\ handles' = handles \ {at}
    /\ at' = at - 1
    /\ UNCHANGED <<backup, prepared, root, jobFiles, pc, flow, report, touched>>

NothingToUndo ==
    /\ pc = "rollback" /\ at \in Entry /\ root = "present"
    /\ ~HasBackup(at) /\ ~CreatedByJob(at)
    /\ at' = at - 1
    /\ UNCHANGED <<rootFiles, root, jobFiles, pc, flow, handles, report, touched>>

RollbackDone ==
    /\ pc = "rollback" /\ at = 0
    /\ Goto("cleanup")
    /\ UNCHANGED <<rootFiles, root, jobFiles, at, flow, handles, report, touched>>

\* Mutant: RecoveryIncomplete is not told apart from the other errors.
IncompleteAsRolledBack ==
    /\ \/ flow = "undo" /\ Return("rolledBack")
       \/ flow \in Recoveries /\ StartupFails
    /\ UNCHANGED <<root, touched>>

LeaveIncomplete ==
    /\ \/ flow = "undo" /\ Return("failed")
       \/ flow \in Recoveries /\ StartupFails
    /\ UNCHANGED <<root, touched>>

RollbackRefused ==
    /\ \/ pc \in Undoing /\ at \in Entry /\ root # "present"
       \/ pc = "restore" /\ target[at] # "absent"
    /\ LeaveIncomplete
    /\ UNCHANGED <<rootFiles, jobFiles>>

RollbackFails ==
    /\ pc \in Undoing
    /\ LeaveIncomplete
    /\ UNCHANGED <<rootFiles, jobFiles>>

RestoreFailsHalfway ==
    /\ HalfRestored
    /\ LeaveIncomplete

-----------------------------------------------------------------------------
(* cleanup_job *)

\* The reserved directory of the root goes first, file by file ...
CleanupReservedFile ==
    /\ pc = "cleanup" /\ root = "present"
    /\ \/ /\ \E e \in prepared : prepared' = prepared \ {e}
          /\ UNCHANGED backup
       \/ /\ prepared = {}
          /\ \E e \in Entry : /\ backup[e] # "absent"
                              /\ backup' = [backup EXCEPT ![e] = "absent"]
          /\ UNCHANGED prepared
    /\ UNCHANGED <<target, root, jobFiles, process, touched>>

ReservedEmpty == prepared = {} /\ \A e \in Entry : backup[e] = "absent"

CleanupReservedDone ==
    /\ pc = "cleanup" /\ root = "present" /\ ReservedEmpty
    /\ Goto("forget")
    /\ UNCHANGED <<rootFiles, root, jobFiles, at, flow, handles, report, touched>>

\* ... then the private job directory with the journal.
RemoveJournal ==
    /\ pc = "forget" /\ jobDir = "journal"
    /\ jobDir' = "dir" /\ journal' = <<>>
    /\ UNCHANGED <<rootFiles, root, original, process, touched>>

\* What the caller is told once the cleanup ended, or failed.
CleanedUp(f) ==
    CASE f \in {"commit", "recover_commit"} -> "committed"
      [] f \in {"undo", "recover_undo"}     -> "rolledBack"
      [] OTHER                              -> report

RemoveJobDirectory ==
    /\ pc = "forget" /\ jobDir = "dir"
    /\ jobDir' = "none"
    /\ Return(CleanedUp(flow))
    /\ UNCHANGED <<rootFiles, root, journal, original, touched>>

LeaveUncleaned ==
    /\ \/ flow = "abort" /\ Return(report)
       \/ flow = "commit" /\ Return("committed")
       \/ flow = "undo" /\ Return("failed")
       \/ flow \in Recoveries /\ StartupFails
    /\ UNCHANGED <<rootFiles, root, jobFiles, touched>>

CleanupRefused ==
    /\ pc = "cleanup" /\ root # "present"
    /\ LeaveUncleaned

CleanupFails ==
    /\ pc \in {"cleanup", "forget"}
    /\ LeaveUncleaned

-----------------------------------------------------------------------------
(* recover_incomplete_with_policy *)

\* The service recovers when it starts; the direct updater whenever it runs.
StartRecovery ==
    /\ pc = "down" \/ (Atomic /\ pc = "serving" /\ jobDir # "none")
    /\ Goto("recover")
    /\ UNCHANGED <<rootFiles, root, jobFiles, at, flow, handles, report, touched>>

\* Mutant: a job directory without a journal is kept.
RecoverNothing ==
    /\ pc = "recover" /\ jobDir # "journal"
    /\ Goto("serving")
    /\ UNCHANGED <<rootFiles, root, jobFiles, at, flow, handles, report, touched>>

\* No job, or a job directory without a journal, which is discarded.
RecoverWithoutJournal ==
    /\ pc = "recover" /\ jobDir # "journal"
    /\ jobDir' = "none"
    /\ Goto("serving")
    /\ UNCHANGED <<rootFiles, root, journal, original, at, flow, handles, report, touched>>

\* read_journal accepted the journal of the job and found it in state s.
Found(s) == pc = "recover" /\ jobDir = "journal" /\ ReadJournal(journal) = s

RecoverInto(label, f) ==
    /\ pc' = label /\ flow' = f
    /\ UNCHANGED <<rootFiles, root, jobFiles, at, handles, report, touched>>

RecoverPrepared ==
    /\ Found("prepared") /\ root = "present"
    /\ RecoverInto("cleanup", "recover_discard")

\* The root is gone: only the private files of the job are removed.
RecoverPreparedWithoutRoot ==
    /\ Found("prepared") /\ root = "missing" /\ ~Atomic
    /\ RecoverInto("forget", "recover_discard")

\* Mutant: an interrupted commit is discarded like a prepared job.
DiscardCommitting ==
    /\ Found("committing") /\ root = "present"
    /\ RecoverInto("cleanup", "recover_discard")

RecoverCommitting ==
    /\ Found("committing") /\ root = "present"
    /\ RecoverInto("append_rolling_back", "recover_undo")

RecoverRollingBack ==
    /\ Found("rolling_back") /\ root = "present"
    /\ pc' = "rollback" /\ at' = N /\ flow' = "recover_undo"
    /\ UNCHANGED <<rootFiles, root, jobFiles, handles, report, touched>>

RecoverCommitted ==
    /\ Found("committed") /\ root = "present"
    /\ RecoverInto("cleanup", "recover_commit")

RecoveryRefused ==
    /\ \/ Found("unreadable")
       \/ Found("prepared") /\ root # "present" /\ (root # "missing" \/ Atomic)
       \/ \E s \in States \ {"prepared"} : Found(s) /\ root # "present"
    /\ StartupFails
    /\ UNCHANGED <<rootFiles, root, jobFiles, touched>>

RecoveryFails ==
    /\ pc = "recover"
    /\ StartupFails
    /\ UNCHANGED <<rootFiles, root, jobFiles, touched>>

-----------------------------------------------------------------------------
(* The environment *)

\* The process ends: power loss, a panic, which aborts, or a service stop.
Crash ==
    /\ pc # "down"
    /\ pc' = "down" /\ at' = 0 /\ flow' = "none" /\ handles' = {}
    /\ \/ pc \in Preparing /\ InterruptedPrepare
       \/ /\ pc \in DOMAIN Appends
          /\ FailedAppend(Appends[pc], CrashCuts)
          /\ UNCHANGED rootFiles
       \/ HalfReplaced \/ HalfRestored
       \/ /\ pc \notin Preparing \cup DOMAIN Appends
          /\ UNCHANGED <<rootFiles, jobFiles>>
    /\ UNCHANGED <<root, report, touched>>

\* Somebody else writes or deletes a file of the root that is not held open.
OthersChange(e) ==
    /\ e \notin handles
    /\ \E c \in {"foreign", "absent"} \ {target[e]} :
           target' = [target EXCEPT ![e] = c]
    /\ touched' = touched \cup {e}
    /\ UNCHANGED <<backup, prepared, root, jobFiles, process>>

\* The root's volume is detached, another directory takes its place, or the
\* registered root is back.
RootChanges ==
    /\ root' \in {"present", "missing", "replaced"} \ {root}
    /\ UNCHANGED <<rootFiles, jobFiles, process, touched>>

-----------------------------------------------------------------------------
\* Requests of a client.
Request == CreateJob \/ VerifyOriginalSnapshots \/ CommitRefused

\* What the code does by itself once it was started, when no call fails.
Step ==
    \/ CopyPayloads \/ InspectTargets \/ WriteNewJournal
    \/ PrepareTargetPayload \/ PrepareDone \/ PrepareRefused
    \/ AppendCommitting \/ RenameTargetToBackup \/ NothingToBackup
    \/ RenamePreparedToTarget \/ CheckBeforeReplace \/ AtomicReplaceTarget
    \/ ApplyDone \/ ApplyRefused \/ AppendCommitted
    \/ AppendRollingBack \/ DeleteBeforeRestore \/ RestoreBackup
    \/ AtomicRestoreBackup \/ DeleteTarget \/ NothingToUndo
    \/ RollbackDone \/ RollbackRefused
    \/ CleanupReservedFile \/ CleanupReservedDone \/ RemoveJournal
    \/ RemoveJobDirectory \/ CleanupRefused
    \/ StartRecovery \/ RecoverWithoutJournal \/ RecoverPrepared
    \/ RecoverPreparedWithoutRoot \/ RecoverCommitting \/ RecoverRollingBack
    \/ RecoverCommitted \/ RecoveryRefused

\* A call to the operating system fails.
Failure ==
    \/ CreatePayloadDirectoryFails \/ PrepareFails \/ VerifyFails
    \/ AppendCommittingFails \/ ApplyFails \/ ReplaceFailsHalfway
    \/ AppendCommittedFails \/ AppendRollingBackFails \/ RollbackFails
    \/ RestoreFailsHalfway \/ CleanupFails \/ RecoveryFails

Environment == Crash \/ (\E e \in Exposed : OthersChange(e)) \/ RootChanges

Next == Request \/ Step \/ Failure \/ Environment

Spec == Init /\ [][Next]_vars

\* The threads of the code run to their end, and the service is started again.
FairSpec == Spec /\ WF_vars(Step)

-----------------------------------------------------------------------------
(* What a job promises.  Entries that somebody else changed after the job  *)
(* inspected them are exempt: their content is nobody's promise.           *)

\* The state of a job; only entries that are replaced ever have a payload.
TypeOK ==
    /\ target \in [Entry -> Content] /\ backup \in [Entry -> Content]
    /\ prepared \subseteq Replaced
    /\ root \in {"present", "missing", "replaced"}
    /\ jobDir \in {"none", "dir", "journal"}
    /\ journal \in Seq(Line) /\ original \in [Entry -> Content]
    /\ pc \in PCs /\ at \in 0..(N + 1) /\ flow \in Flows
    /\ handles \subseteq Entry
    /\ report \in {"none", "committed", "rolledBack", "failed"}
    /\ touched \subseteq Entry

AllOld == \A e \in Entry \ touched : target[e] = original[e]
AllNew == \A e \in Entry \ touched : target[e] = NewContent(e)

\* Whenever no journal is left to recover from, the root holds either all of
\* the old files or all of the new ones, whatever crashed or failed before
\* (commit_file_set, recover_incomplete_with_policy).
AllOrNothing == jobDir # "journal" => AllOld \/ AllNew

\* Until "committed" is in the journal, every file the job found is still at
\* its place or in its backup, so that a rollback can restore it.
OriginalsKept ==
    jobDir = "journal" /\ ReadJournal(journal) # "committed" =>
        \A e \in Entry \ touched :
            original[e] # "absent" => original[e] \in {target[e], backup[e]}

\* The outcome refresh_active_job or recovery reports is the one in the root,
\* also after later crashes and recoveries.
StatusTruthful ==
    /\ report = "committed" => AllNew
    /\ report = "rolledBack" => AllOld

KeepsOutcome ==
    /\ report = "committed" => report' \in {"committed", "none"}
    /\ report \in {"rolledBack", "failed"} => report' # "committed"

\* A reported outcome is never revised into its opposite: a committed job is
\* not rolled back by recovery, a failed or rolled back one is not committed.
OutcomeStable == [][KeepsOutcome]_vars

KeepsDisplaced ==
    pc \in Applying /\ (pc' # pc \/ at' # at) =>
        \A e \in Entry :
            target'[e] # target[e] => target[e] \in {"absent", backup'[e]}

\* No step of apply_entries destroys content: what it displaces was absent or
\* is in the backup afterwards, also when somebody else put it there.
CommitDestroysNothing == [][KeepsDisplaced]_vars

\* With atomic replacement a commit never goes on, and no job ever ends, without
\* the executable it found: it is missing only after ReplaceFileW failed or was
\* interrupted half-way, and then it is in the backup and the job still has to
\* be rolled back (atomic_replace_target, atomic_restore_backup).
ExecutableStays ==
    Atomic => \A e \in Replaced \ touched :
        original[e] # "absent" /\ target[e] = "absent" =>
            /\ pc \in {"append_rolling_back", "rollback", "serving", "down", "recover"}
            /\ jobDir = "journal" /\ ReadJournal(journal) # "committed"
            /\ backup[e] = original[e]

\* Once calls stop failing, nobody interferes, the root is present and the journal,
\* if there is one, can be read, every start of the service ends with no
\* unfinished job left behind (recover_incomplete_with_policy).
RecoveryCompletes ==
    /\ <>[][Step]_vars
    /\ <>[](root = "present" /\ (jobDir = "journal" => Readable(journal)))
    => (pc = "down" ~> (pc = "serving" /\ jobDir = "none"))
-----------------------------------------------------------------------------
(* The job as its client sees it, on the entries that nobody else changes.  *)

\* What a recovery makes of an entry: until "committed" is in the journal the
\* file that the job found, else what is in the root.
Settled(e) ==
    IF jobDir = "journal" /\ ReadJournal(journal) # "committed"
    THEN original[e] ELSE target[e]

Private == Entry \ Exposed

Job == INSTANCE AtomicFileSet WITH
           File    <- Private,
           New     <- [e \in Private |-> NewContent(e)],
           files   <- [e \in Private |-> Settled(e)],
           before  <- [e \in Private |-> original[e]],
           outcome <- report

\* A job takes effect in one step, the one that makes "committed" readable, and
\* what is reported is what happened: every step of commit_file_set, its
\* rollback, recovery and every crash is a step of AtomicFileSet or changes
\* nothing a client could see.
TakesEffectAtOnce == Job!Spec
=============================================================================
