# Verification of SE7EN Service

TLA+ models, TLC runs and TLAPS proofs for the maintenance service in `src/`.
The service runs as LocalSystem and changes files and registry values on behalf
of a launcher. What has to be right is what happens when it is interrupted:
between two renames, in the middle of a journal line, by a stop request, by a
failing call, or by somebody else who changes the same files.

`PROJECT.json` lists the components, the runs, the source lines behind every
definition, the hazards with the properties aimed at them, and the theorems.

## Inventory

| Component | State | Operations | What makes it correct |
| --- | --- | --- | --- |
| File-set transaction (`transaction.rs`, platform in `windows.rs`) | files of a registered root; reserved directory with prepared files and backups; private job directory with journal; retained handles | `prepare_file_set`, `commit_file_set`, `recover_incomplete_with_policy` | all or nothing; originals kept until committed; truthful, stable outcome; recovery ends |
| Job journal (`transaction.rs`) | lines of `journal.jsonl` | `write_new_journal`, `append_state`, `read_journal` | the reader takes what was durably written, also after a torn write |
| Direct launcher update (`windows/direct_update.rs`) | as above, in the launcher's directory | `prepare_direct_launcher_update`, commit, cancel, recover | as above; the executable is never lost, and absent only while a half-done replacement waits for its rollback |
| Service threads (`windows.rs`) | active job, `STOP_REQUESTED`, `COMMITTING`, stop and wake events, reported status | requests, prepare worker, commit workers, control handler | one mutation at a time; no lost stop or wake-up; no exit under a commit |
| Pipe server (`windows_pipe.rs`) | phase of every instance, ready queue, deadlines, held requests | `next_event`, `respond`, `release`, `expire_reads` | no instance is lost or in two hands; answers reach their sender; nobody keeps an instance for ever |
| Registry sets (`windows.rs`, `registry_set.rs`) | values, journal, accepted generations | `apply_registry_set_transaction`, `recover_registry_transaction` | all or nothing; truthful answers; generations never go back |
| Protected files (`windows.rs`) | file, `.new`, `.bak` | `replace_service_file`, `recover_service_file_replacement` | the old or the new document after any crash |
| Root and scope registries (`roots.rs`, `registry_scopes.rs`) | registered IDs in memory and on disk | register, unregister, save, load | registrations survive failures and restarts |
| Generations across jobs (`windows.rs`, `file_set.rs`) | accepted generation of a root in memory and on disk, the job directories left behind | `PrepareFileSet`, `finish_prepare`, `CommitJob`, `recover_service_state` | what the last job committed stays; generations do not go back; the service comes up again |
| Service upgrade (`service_upgrade.rs`, `windows_upgrade.rs`) | release record, upgrade journal, binaries (live, legacy, candidate, previous), SCM entry, uninstall entry | `ensure_system_service` with `execute_service_upgrade`, rollback and finalization, `remove_system_service` | the recorded binary stays where it can be used; reports are true; an interrupted upgrade can be finished |
| Client (`bin/client.rs`) | none that is durable | `wait-commit-restart`: handoff, keep-alive, commit, poll, restart; single requests | the Launcher never runs on half-changed files; it is told the truth; the helper ends |
| Authorization, trust, protocol, data directory, log | read-only, or diagnostics | pure decisions on one request | not stateful |

The service thread owns the requests and hands preparing and committing to
worker threads. Workers answer through channels and, for a prepare, a wake
event. The service manager calls the control handler on a thread of its own;
handler and workers meet only in two atomic flags, the stop event and the
reported status. Everything durable is written by the thread that runs the
operation; recovery runs before the first request is taken. The update helper
is another process that knows only what the pipe tells it. The elevated manager
replaces the service's binary while clients may start the service at any
moment; a global mutex admits one manager at a time.

## Modules

`Journal` - the journal as a sequence of lines. A line is what it says and
whether its newline is in the file; bytes that do not parse are "garbage". An
append goes to the end of the file and therefore joins an unterminated line.
`Interrupted` gives the four things an interrupted append may leave.
`ReadJournal` is `read_journal` with its tolerance for a torn last line.

`FileTransaction` (extends `Journal`) - one job, one action per file system
call. `pc` and `at` are the step and the entry of the loops in `apply_entries`
and `rollback_entries`; `flow` is the caller that will get the result. Files
are abstracted to four contents: absent, old, new, and foreign (written by
somebody else). `handles` are the targets the process holds open, which nobody
else can change. `touched` is bookkeeping: entries that somebody else changed
after the job inspected them, about which no promise is made. With
`Atomic = TRUE` the platform is that of the direct update. Its `ReplaceFileW`
may fail, or be interrupted, between its own two renames (`HalfReplaced`,
`HalfRestored`): the name is then empty, and what was there is in the backup or,
for a restore, the backup is where it was. Actions whose name
ends in `Refused` are the code's own early returns, those ending in `Fails`
are errors of a call.

`AtomicFileSet` - the abstract job: files change all at once or not at all, and
the outcome told is the one that happened. `FileTransaction` instantiates it as
`Job`, on the entries that nobody else may change (`Private`). The mapping
`Settled` is what a recovery would make of an entry: while the journal does not
say "committed", the file the job found. Under it a commit takes effect in the
step that makes "committed" readable, and every rename before it is a stutter.

`MaintenanceJobs` (extends `ProtectedFile`) - the jobs of one root, one after
the other. A job directory is named after its manifest and keeps its journal
state, original and backup for one file; it may be left behind by a refused
commit, a failed save, a failed rollback or a pending cleanup. A manifest is a
number whose half is its generation, so that two manifests can share one.
Recovery takes the directories in any order, because names do not follow
generations. `told` and `overtaken` are bookkeeping.

`ServiceLoop` - the threads. `main` is the service thread, `prepare` and
`commit` the workers, `handler` the control handler. A request is what it makes
the service thread do. Shared flags are read and written in separate steps
where another thread can come in between.

`PipeServer` - the instances, the queue of read messages, and the hands a
message is in: queued, worked on, or held for a prepare. A call is one
connection of a client, which may stay silent, give up or close at any moment,
and make another call when its instance is rid of it (`CallAgain`). An error of
`Instance::listen`, which ends the service, is the `Crash` of `ClientUpdate`.
The initial states include clients that connected between `create` and
`listen`.

`ClientUpdate` (extends `PipeServer`) - `wait-commit-restart` composed with the
pipe server, the service thread's view of the job, its commit worker, another
client that asks for a prepare, and the Launcher. The files are old, mixed or
new. The service may crash, exit when idle, and be started again. A message that
was read is served whether or not its client is still there.

`ProtectedFile` - the contents at `path`, `path.new` and `path.bak`. Only the
service thread touches these files, so a replacement is one step with a set of
outcomes: `ReplaceErrors` and `ReplaceCrashes` are the files that an error or
a crash may leave, `Recovered` is what the next start makes of them.

`RegistryTransaction` (extends `ProtectedFile`) - registry sets of one scope.
A value is the generation that wrote it, a digest is the set of names that a
manifest sets. `base`, `told` and `acked` are bookkeeping for the properties.

`RegistrationStore` (extends `ProtectedFile` for its file type) - the two
registries, which have a save and a load of their own. A save may end, by an
error or a crash, in any of the states between its calls, also with the path
empty and the registry in the backup. `expected` and `blind` are bookkeeping:
the registries a client may expect, and that a start found only a backup.

`ServiceUpgrade` (extends `ProtectedFile`) - the elevated manager: `pc` is its
step, `work` the journal document it works with, `binary` what is at each of
the four paths, `image` and `running` the SCM entry's path and the release that
runs. `Interrupted` ends the manager inside any step; the next one starts from
the release record and the journal. Clients start the service at any moment.
A removal may leave record and journal alone (`LeaveState`), as
`remove_service_state` does with a directory that fails its check.

`FileTransaction_proofs`, `ServiceLoop_proofs`, `ClientUpdate_proofs`,
`ProtectedFile_proofs`, `RegistryTransaction_proofs`, `RegistrationStore_proofs`,
`MaintenanceJobs_proofs`, `ServiceUpgrade_proofs` - lemmas and theorems about the
module of that name. `FileTransaction_proofs` has the lemmas about `Journal` and
the refinement of `AtomicFileSet` as well, `ClientUpdate_proofs` the theorems
about `PipeServer`.

Operators that begin with a comment `Mutant:` are deliberately wrong variants
of the definition below them. No specification uses them; they show that the
properties notice the mistake.

## Runs

Properties that hold:

| Run | Shows | Bounds |
| --- | --- | --- |
| `FileTransaction` | `AllOrNothing`, `OriginalsKept`, `StatusTruthful`, `OutcomeStable`, `CommitDestroysNothing`; `TakesEffectAtOnce`: the job implements `AtomicFileSet`; `RecoveryCompletes`: a start that finds the root and can read the journal leaves no unfinished job | 2 replaced files and 1 removed, each present or not at first; others change entry 1; root present, missing or replaced; every cut of every journal line; crash anywhere |
| `DirectUpdate` | `ExecutableStays` with atomic replacement and a `ReplaceFileW` that may fail half-way; the other promises are theorems for both platforms | the same |
| `MaintenanceJobs` | `LastCommitStays`, `BroughtIsAccepted`, `GenerationNeverBack`, `ServiceComesUp` | manifests 2, 4 and 5: one of generation 1, two of generation 2 |
| `ServiceLoop` | `OneMutation`, `StatusFinal`, `CommittingIsCleared`, `StopNotLost`, `StopIsHonoured`, `PrepareIsAnswered` | 2 pipe instances, 2 commit workers |
| `PipeServer` | `HeldIsOwned`, `AnswerGoesToSender`, `CallEnds` | 2 instances, 3 clients, each with any number of calls |
| `ClientUpdate` | `LauncherIsComplete`, `OutcomeTruthful`, `HelperEnds` | 2 instances, 4 calls of the helper, of which at most 2 before the Launcher exits, 1 of another client |
| `RegistryTransaction` | `SetAllOrNothing`, `AnswerTruthful`, `UndoAvailable`, `GenerationKept`, `NeverAmbiguous`; `RegistryRecoveryCompletes`: the service can be started again when the scope is registered and both files can be read | 2 values, 2 generations, torn files, scope unregistered and registered; no further set after damage (`SetsAfterDamage`) |
| `RegistrationStore` | `RegistrationKept`, and the bound on entries in `TypeOK`; a registry that no start can read would be a deadlock | 3 IDs, room for 2 |
| `ServiceUpgrade` | `RecordedBinaryKept`, `SettledServiceIsRecorded`, `RetainedHasJournal`, `OutcomeTruthful`, `VersionNeverBack`, `UpgradeResumes` | bundles 2, 4 and 5: one of version 1, two of version 2; torn files; a release at the former path |

Two entries of each kind are enough for a crash between two entries, before the
first and after the last one, and for an entry that is done, one in progress
and one not begun; the proofs remove this bound for files. Two commit workers
are what the code can have alive at once: one that has sent its result and not
yet dropped its `CommitActivity`, and the next. Two generations are needed for
a set that follows a failed or unfinished one. Three IDs and room for two reach
the full registry and a replacement in it. Three manifests or bundles, two of
which share a generation or version, reach older, equal and newer ones; with
them a job can be left behind, overtaken and met by a recovery. Three
clients on two instances make one wait for a recycled instance. Four calls
of the helper are the handoff, the check, the commit and a poll, or a keep-alive
instead of the poll; the theorems about it hold for any number, and `LateCommit`
has one more.

Three disagreements between the code and its comments, each as a run whose one
property, the comment's claim, TLC finds violated:

| Run | What happens |
| --- | --- |
| `StopRace` | A stop between the check in `CommitJob` and `COMMITTING.store(true)` lets the service leave its loop under the commit worker. |
| `SilentClient` | Clients that connect and send one after the other keep `next_event` from timing out, so `expire_reads` is never called and a silent client keeps its instance. |
| `LateCommit` | A commit times out while it is queued, the status that follows says "prepared", the Launcher is reopened, and the service then serves the commit: nothing refuses a caller that has closed its pipe. |

The passing run `FileTransaction` leaves out one failure, through the constant
`CommitErrorCuts`: a record "committed" that is in the file although its append
failed. With it `AllOrNothing`, `OutcomeStable` and `TakesEffectAtOnce` are
violated.

Other properties exempt a case in their statement. The case is in the model, and
the property is violated without the exemption:

* `ExecutableStays` admits an absent executable after a half-done `ReplaceFileW`
  and requires that it is then in the backup of a job that a rollback or a
  recovery still has to undo. That the executable "must never disappear"
  (transaction.rs, lines 119-120) does not hold of this failure.
* `SetAllOrNothing`, `AnswerTruthful` and `UndoAvailable` exempt `damaged`: values
  could not be restored, and the journal was removed all the same or the next set
  began on top of them; or a commit marker is found although its write reported
  an error. Damage ends with a set that finds no journal to roll back. The run
  follows damage through crashes and recoveries but not into a further set
  (`SetsAfterDamage`); with one generation it passes with further sets too.
* `CallEnds` assumes that no new clients connect in the end (see `SilentClient`).
* `LauncherIsComplete` and `OutcomeTruthful` of the helper exempt
  `CommitWasPending`: it relied on "prepared" while a commit that it had given up
  was still in the pipe (see `LateCommit`).
* `RegistrationKept` admits that the service works without registrations after a
  start that found no file at the path (`blind`). A save cut short between its
  renames, or whose second rename and rename back both fail, leaves the registry
  in the backup; `recover_service_state` looks whether the file exists and does
  not call `RootRegistry::load`, which would read the backup. The registrations
  are then still in the backup, until the next save.
* `RecordedBinaryKept` exempts `RollbackRepeated`. A rollback that fails or is
  interrupted after it put the previous binary back leaves a journal that asks
  for a health check; the next manager finds the check failing, takes the binary
  at the live path for the candidate, deletes it and finds none to restore.
* `LastCommitStays` exempts commits that began beside an unfinished job
  (`overtaken`). A job left "committing" by a failed rollback, or by an append
  that failed after its line was in the journal, is rolled back by the next
  start over what a later job committed.
* `RecoveryCompletes` assumes that the journal is readable in the end. A crash
  in `write_new_journal`, which writes in place, or an append of recovery to a
  torn line leaves a journal that every later start refuses.
* `RegistryRecoveryCompletes` assumes that the scope is registered and that
  both files are readable in the end. A torn first document is activated unread
  by recovery, and a journal of an unregistered scope is refused at every start.
* `UpgradeResumes` assumes that clients leave the service alone in the end: a
  service started after `OldStopped` is not stopped again on resumption. Besides
  completion and rollback it admits the states that no manager gets out of, and
  only a removal does (`NeedsRemoval`): a torn journal or record, which every
  load refuses; a service that is registered without a record, which
  `install_system_service` refuses to every manager, the one with the same
  bundle included, so that a first installation interrupted between its
  registration and its record stays stuck; a journal of an upgrade, or of an
  installation to be health-checked, without an SCM entry; and a repeated
  rollback.
* `VersionNeverBack` leaves out the steps of a removal that delete the record.

The run `MaintenanceJobs` has `Tears = FALSE`: a torn generation file is refused
whenever it is loaded, as in `RegistryTransaction`, and the service does not
come up. Only `ServiceComesUp` needs this; the theorems hold with torn files.

More consequences are visible in the models: a worker that is late to drop its
`CommitActivity` clears the flag of the next commit, and a commit worker under
which the service has left its loop may signal the stop event after it was
closed (`ServiceLoop`).

## Fairness

`FileTransaction!FairSpec` has weak fairness of `Step`: a started operation of
the code goes on, and the service is started again (it is demand-started by
every client). Calls that fail, crashes, others and the root are not fair;
`RecoveryCompletes` says what follows once they stop interfering.
`ServiceLoop!FairSpec` has weak fairness of every thread: the operating system
schedules them, and none of them waits for another one except where its guard
says so. Its properties assume `<>[]NoneReady`, that requests are not found
queued for ever, because `next_event` returns queued requests before it looks
at the events. `RegistryTransaction!FairSpec` is like the first one; a refusal
for leftover files is a step of the code as well. `MaintenanceJobs!FairSpec`
has weak fairness of `Step`, the code's own steps and the next start.
`PipeServer!PipeFairSpec` has weak fairness of the server thread and of every
read deadline, because time passes; clients need not do anything.
`ClientUpdate!FairSpec` assumes only that the helper runs, not the service, so
`HelperEnds` rests on the helper's own deadlines. `ServiceUpgrade!FairSpec`:
a started manager goes on, the Launcher offers an unfinished upgrade again
(`Resume`), and an unused service ends by its idle timeout (`ServiceEnds`).

## Proofs

`FileTransaction_proofs` proves, for every number of replaced and removed
files, both platforms, any set of exposed entries and any behaviour of
interrupted writes:

* `TypeCorrect` and `CommitDestroysNothingHolds` from `ConstantsOK` alone;
* `AllOrNothingHolds`, `OriginalsKeptHolds`, `StatusTruthfulHolds`,
  `OutcomeStableHolds` and `ExecutableStaysHolds` from `CommitErrorsHonest` in addition: a failed append
  of "committed" leaves no readable record. Without it the statement is false,
  see `CommitErrorCuts` above.

None of the promises is inductive. `IInv` adds what the code relies on:

* `FlowInv` - which caller a step of rollback or cleanup works for, and that a
  job in progress has not been reported yet;
* `JournalInv` - what the journal says at each step. The delicate part is an
  interrupted "committing" without its newline (`BareCommitting`): a later
  append turns it into garbage, and the job is then read as prepared or not at
  all. That is harmless only because no entry was applied under such a journal;
* `ContentInv` - for each state of the journal, what an untouched entry may
  look like: clean, displaced, swapped, or undoable;
* `ProgressInv` - which entries are done, given `pc` and `at`;
* `ReportInv` - that a reported outcome agrees with what the journal, if any,
  will make recovery do.

Initial states satisfy it. `TypeStep`, `FlowStep`, `JournalStep`,
`ContentStep`, `ProgressStep` and `ReportStep` show, action by action, that
every step preserves each conjunct; `Invariance` combines them, and each
promise is a consequence.
The lemmas about the journal reduce what is read after an append to the few
journals that a job can have. They describe journals by their length and lines, so no
induction over sequences is needed.

The last part of `FileTransaction_proofs` proves `TakesEffectAtOnceHolds`, the
refinement, for every number of files, from `CommitErrorsHonest`. It rests on `IInv` and on
`TouchedInv` (only exposed entries are ever touched). `SeenByClient` shows,
action by action, that a step changes what `Settled`, `original` and `report`
say in one of six ways (`SeenStep`): `JournalInv` gives what is read before and
after an append, `ContentInv` and `ProgressInv` that the files agree with the
journal when "committed" appears or the journal goes. `SeenIsAbstract` maps each
of the six to a step of `AtomicFileSet` or a stutter.

`ServiceLoop_proofs` proves its four safety properties for any number of pipe
instances and commit workers. The inductive invariant says, besides types, that
at most one instance is held, for the request in process or for the prepare
(`HeldInv`); that the prepare worker belongs to a prepare in flight until it is
joined (`PrepareInv`); that a commit worker that runs is that of the active job,
and a final state of the job the result its worker sent (`WorkerInv`); and that
a requested stop has a thread that will signal the event, or meets a service
thread that is about to see the flag or has left its loop (`StopInv`).

`ClientUpdate_proofs` proves `HeldIsOwnedHolds` and `AnswerGoesToSenderHolds` for
any number of instances and connections. `OwnerInv` says that the queue, the
request in process and the held ones never share an instance and together have
all held instances; `SenderInv` that an instance keeps its client from the
connection to the recycling. On top of them it proves `LauncherIsCompleteHolds`
and `OutcomeTruthfulHolds`, for any number of calls. `BeforeInv` says what cannot have happened
before the one commit was sent and before the Launcher exited, `JobInv` that the
service's view of the job agrees with its worker and the files, and `AnswerInv`
that an answer that lets the helper start the Launcher was written when nothing
could change the files any more (`Quiet`: no worker runs, and a job that is
still prepared has no commit on the way), or was "prepared" when the commit had
been given up, which is the exemption. `PendingInv`: a message that is not yet
answered has a caller that waits or gave up.

`ProtectedFile_proofs` has the facts about replaced files that other proofs use. `Found` is
the document that a recovery would take. A replacement that is cut short
anywhere leaves an unambiguous file that gives the old or the new document
(`ReplaceInterrupted`); only where there was none before it may be a torn one.
Errors leave files that crashes leave as well (`ErrorsAreCrashes`), and a
recovery that is interrupted changes nothing of it (`RecoveryInterrupted`).

`RegistryTransaction_proofs` proves its five safety properties for any values,
generations and failures; sets after damage, which the run leaves out, are
included (`SoundAgain`: a set that finds no journal starts from what is there).
The invariant: `GenInv`, the generation in memory, on disk and acknowledged; and
while nothing is damaged `Sound`, the conjunction of `JournalInv`, what the journal of the
running or the interrupted set may say at each step; `BaseInv`, that its
snapshot has the values from before that set; `ValuesInv`, which values may
differ from them at each step; `ToldInv`, that an answer given agrees with what
a recovery would decide.

`RegistrationStore_proofs` proves the bound (`TypeOKHolds`) and
`RegistrationKeptHolds` for all constants, any interruption of a save included.
`ExpectedInv`: every document at the path or in the backup is the acknowledged
registry or one whose save was interrupted, and so is what the service works
with unless it started blind.

`MaintenanceJobs_proofs` proves its three safety properties for any set of
manifests, with torn files or without. `ActiveInv` ties the step of the worker
to the journal state of its job. `GenInv` is the order behind
`BroughtIsAccepted` and `GenerationNeverBack`: contents of the root and backups
are not newer than what is saved, which is not newer than what is in memory, or
about to be. `CommitInv` is what makes `LastCommitStays` inductive: unless
overtaken, at most one job is unfinished, and rolling it back, once or again
after an interruption (`CutShortKeeps`), gives what the last commit brought.

`ServiceUpgrade_proofs` proves its four invariants and `VersionNeverBack` for any
releases, with torn files and a release at the former path or without, whatever
is interrupted. The heart of the invariant is `Fits(d)`: for each phase that a
journal `d` may be in, what is recorded, which binaries are where and what the
SCM entry names, for an upgrade (`UpgradeFits`) and for a first installation
(`InstallFits`). `FoundInv` says it of the journal that the next manager will
find (or `Settled`, if there is none), `FitsInv` of the one the present manager
works with, which is a phase ahead while it is being persisted. Four parts are
easy to miss. `Switched`: when a rollback has deleted the candidate, nothing
runs, so that a resumed health check cannot succeed without a binary.
`CutShort`: a rollback has put the previous binary back under a journal that
still asks for a health check; that check fails, because the version is the old
one, and a repeated rollback deletes the binary. `LeftoverInv`: leftovers of the
release record exist only under a complete journal in its last phase, so that a
removal which exposes an older record or journal cannot make them contradict
each other. `RestoredInv`: a rollback that goes on to clear the journal has the
recorded binary in place.

The invariants were model-checked on the bounds of the runs before they were
proved.

Only model-checked: the liveness properties (fairness is outside the prover):
`RecoveryCompletes`, `ServiceComesUp`, `StopIsHonoured`, `PrepareIsAnswered`,
`CallEnds`, `HelperEnds`, `RegistryRecoveryCompletes`, `UpgradeResumes`.

## Abstractions

File contents, manifests, registry data, messages, identities and names are
members of small sets. Copying and hashing a payload is one step that succeeds
or fails. Times are not modelled: a deadline or the idle timeout may pass
whenever nothing that prevents it is there. A panic aborts the process and is a
crash. `FileTransaction` has one job alone in its jobs directory, and
`MaintenanceJobs` several jobs with one file each; a job of several files beside
others is neither.

## Not modelled

* `authorize_request`: a pure decision with one branch per request.
* Signatures, path and name validation (`trust.rs`, `file_set.rs`,
  `registry_set.rs`), request decoding and canonical JSON (`protocol.rs`):
  conversions that no modelled property depends on.
* Security descriptors (`windows_data_directory.rs`); their failure is a failed
  start, which `ServiceLoop` has.
* The direct update's search for its signed package and release document, and
  `direct-update-restart`; its transaction is `FileTransaction` with
  `Atomic = TRUE`. The client's other commands send one request and print the
  answer.
* The manager's copy of itself, the keyring, and the properties of the SCM entry
  other than its image path.
* The size bound of `read_journal`: the journal is abstracted to its lines.
* The log, the installer and the entry points.

## Plan

Done: `Journal`, `FileTransaction`, `AtomicFileSet`, `MaintenanceJobs`,
`ServiceLoop`, `PipeServer`, `ClientUpdate`, `ProtectedFile`,
`RegistryTransaction`, `RegistrationStore`, `ServiceUpgrade`; the proofs listed
above.

Every safety property and action property of the passing runs is a theorem. What
is left to model is listed above: the direct update's search for its package, and
a job of several files beside others in one jobs directory.
