-------------------------- MODULE MaintenanceJobs --------------------------
(***************************************************************************)
(* The file jobs of one registered root, one after the other: what the     *)
(* service thread in src/src/windows.rs makes of the jobs whose inside is  *)
(* FileTransaction.  A job directory is named after the root, generation   *)
(* and digest of its manifest.  It may outlive its job: after a refused    *)
(* commit, a failed save or rollback, a pending cleanup or a crash.        *)
(*                                                                         *)
(* A job replaces one file, which stands for all it replaces; what a job   *)
(* does to several files is FileTransaction's business.  A manifest is its *)
(* generation and its digest: two manifests may share a generation.        *)
(***************************************************************************)
EXTENDS ProtectedFile, Naturals, Sequences

CONSTANT
    Manifest    \* the signed manifests that clients bring

ASSUME JobsOK ==
    /\ Manifest \subseteq Nat \ {0}
    /\ Absent \notin Nat /\ Torn \notin Nat

GenerationOf(manifest) == manifest \div 2

\* The file: Absent, the one found by the first job, or one a job brought.
Original == 0
Content == Manifest \cup {Original, Absent}

NoJob == [state |-> "none", original |-> Absent, backup |-> Absent]

VARIABLES
    jobs,         \* the job directory of each manifest and its last journal state
    target,       \* the file in the root
    generations,  \* the generation registry in its protected file
    accepted,     \* the registry in memory
    active,       \* the active job and its state
    pc,           \* the step of the service thread or the commit worker
    found,        \* recovery: committed jobs, in the order of their names
    told,         \* bookkeeping: the file that the last committed job brought
    overtaken     \* bookkeeping: a commit began beside another, unfinished one

vars == <<jobs, target, generations, accepted, active, pc, found, told, overtaken>>
history == <<told, overtaken>>
memory == <<accepted, active, found>>

NoActive == [job |-> Absent, state |-> "none"]

Init ==
    /\ jobs = [m \in Manifest |-> NoJob]
    /\ target \in {Original, Absent} /\ told = target
    /\ generations = NoFile /\ accepted = Absent
    /\ active = NoActive /\ pc = "serving" /\ found = <<>>
    /\ overtaken = FALSE

\* Mutant: an older manifest is accepted.
AcceptsAny(manifest, previous) == TRUE

\* verify_file_set and GenerationRegistry::accept.
IsAccepted(manifest, previous) ==
    \/ previous = Absent \/ manifest = previous
    \/ previous # Absent /\ GenerationOf(manifest) > GenerationOf(previous)

Completes(state) == active' = [active EXCEPT !.state = state] /\ pc' = "serving"
MyJob == jobs[active.job]

-----------------------------------------------------------------------------
(* PrepareFileSet *)

IsCompleted == active.state \in {"none", "committed", "rolledBack", "failed"}

\* prepare_file_set creates the job directory and fills it; a completed job
\* makes place in memory.
Prepare(manifest) ==
    /\ pc = "serving" /\ IsCompleted
    /\ IsAccepted(manifest, accepted)
    /\ jobs[manifest].state = "none"
    /\ jobs' = [jobs EXCEPT ![manifest] =
                   [state |-> "prepared", original |-> target, backup |-> Absent]]
    /\ active' = [job |-> manifest, state |-> "preparing"] /\ pc' = "accept"
    /\ UNCHANGED <<target, generations, accepted, found, history>>

\* The manifest is refused, or a directory of that name is left from before.
PrepareRefused(manifest) ==
    /\ pc = "serving" /\ IsCompleted /\ active # NoActive
    /\ ~IsAccepted(manifest, accepted) \/ jobs[manifest].state # "none"
    /\ active' = NoActive
    /\ UNCHANGED <<jobs, target, generations, accepted, pc, found, history>>

\* The contents of the job cannot be prepared, and the cleanup may fail too.
PrepareFails(manifest) ==
    /\ pc = "serving" /\ IsCompleted
    /\ IsAccepted(manifest, accepted) /\ jobs[manifest].state = "none"
    /\ jobs' \in {jobs, [jobs EXCEPT ![manifest].state = "empty"]}
    /\ active' = NoActive
    /\ UNCHANGED <<target, generations, accepted, pc, found, history>>

\* Mutant: the accepted generation is not saved.
FinishUnsaved ==
    /\ pc = "accept"
    /\ accepted' = active.job
    /\ Completes("prepared")
    /\ UNCHANGED <<jobs, target, generations, found, history>>

\* finish_prepare: the generation is accepted and saved before the job is active.
FinishPrepare ==
    /\ pc = "accept" /\ ~IsStale(generations)
    /\ accepted' = active.job /\ generations' = Replaced(active.job)
    /\ Completes("prepared")
    /\ UNCHANGED <<jobs, target, found, history>>

\* The save is refused for the leftovers of another one, or it fails: the job is
\* dropped, its directory and the acceptance in memory stay.
FinishPrepareRefused ==
    /\ pc = "accept" /\ IsStale(generations)
    /\ accepted' = active.job
    /\ active' = NoActive /\ pc' = "serving"
    /\ UNCHANGED <<jobs, target, generations, found, history>>

FinishPrepareFails ==
    /\ pc = "accept" /\ ~IsStale(generations)
    /\ accepted' = active.job
    /\ generations' \in ReplaceErrors(generations, active.job)
    /\ active' = NoActive /\ pc' = "serving"
    /\ UNCHANGED <<jobs, target, found, history>>

-----------------------------------------------------------------------------
(* CommitJob and commit_file_set *)

CommitStarts ==
    /\ pc = "serving" /\ active.state = "prepared"
    /\ active' = [active EXCEPT !.state = "committing"] /\ pc' = "verify"
    /\ UNCHANGED <<jobs, target, generations, accepted, found, history>>

\* The root is not the one, or its files are not those of the preparation.  The
\* job counts as rolled back, and its directory stays.
CommitRefused ==
    /\ pc = "verify"
    /\ Completes("rolledBack")
    /\ UNCHANGED <<jobs, target, generations, accepted, found, history>>

\* Another job is left in the middle of its commit or rollback.
Unfinished(manifest) == jobs[manifest].state = "committing"
Overtakes == overtaken' = (overtaken \/ \E m \in Manifest : Unfinished(m))

AppendCommitting ==
    /\ pc = "verify" /\ target = MyJob.original
    /\ jobs' = [jobs EXCEPT ![active.job].state = "committing"]
    /\ pc' = "displace" /\ Overtakes
    /\ UNCHANGED <<target, generations, memory, told>>

\* The append reports an error, but its line is in the journal.
AppendCommittingFails ==
    /\ pc = "verify" /\ target = MyJob.original
    /\ jobs' = [jobs EXCEPT ![active.job].state = "committing"]
    /\ Completes("rolledBack") /\ Overtakes
    /\ UNCHANGED <<target, generations, accepted, found, told>>

\* apply_entries: the original becomes the backup, the new file takes its place.
Displace ==
    /\ pc = "displace"
    /\ jobs' = [jobs EXCEPT ![active.job].backup = target]
    /\ target' = Absent /\ pc' = "install"
    /\ UNCHANGED <<generations, memory, history>>

Install ==
    /\ pc = "install"
    /\ target' = active.job /\ pc' = "mark"
    /\ UNCHANGED <<jobs, generations, memory, history>>

AppendCommitted ==
    /\ pc = "mark"
    /\ jobs' = [jobs EXCEPT ![active.job].state = "committed"]
    /\ told' = active.job /\ pc' = "cleanup"
    /\ UNCHANGED <<target, generations, memory, overtaken>>

Cleanup ==
    /\ pc = "cleanup"
    /\ jobs' = [jobs EXCEPT ![active.job] = NoJob]
    /\ Completes("committed")
    /\ UNCHANGED <<target, generations, accepted, found, history>>

CleanupPending ==
    /\ pc = "cleanup"
    /\ Completes("committed")
    /\ UNCHANGED <<jobs, target, generations, accepted, found, history>>

\* A mutation, or the append of "committed", fails.
ApplyFails ==
    /\ pc \in {"displace", "install", "mark"}
    /\ pc' = "undo"
    /\ UNCHANGED <<jobs, target, generations, memory, history>>

\* Mutant: the rollback does not look whether the job displaced the file.
RestoredBackup(job) == job.backup

\* rollback_entries: the backup replaces what is there; without a backup a file
\* goes that was not there at preparation.
Restored(job) ==
    IF job.backup # Absent THEN job.backup
    ELSE IF job.original = Absent THEN Absent ELSE target

RollBack ==
    /\ pc = "undo"
    /\ target' = Restored(MyJob)
    /\ jobs' = [jobs EXCEPT ![active.job] = NoJob]
    /\ Completes("rolledBack")
    /\ UNCHANGED <<generations, accepted, found, history>>

\* The file and the backup between the calls of a rollback.
RollbackLeaves(job) ==
    {<<target, job.backup>>, <<Restored(job), Absent>>}
        \cup (IF job.backup # Absent THEN {<<Absent, job.backup>>} ELSE {})

CutShort(manifest) ==
    \E left \in RollbackLeaves(jobs[manifest]) :
        /\ target' = left[1]
        /\ jobs' = [jobs EXCEPT ![manifest].backup = left[2]]

\* The rollback or its cleanup fails; the job is left for the next start.
RollBackFails ==
    /\ pc = "undo"
    /\ CutShort(active.job)
    /\ Completes("failed")
    /\ UNCHANGED <<generations, accepted, found, history>>

-----------------------------------------------------------------------------
(* recover_service_state *)

\* A torn document keeps the service from starting.
LoadGenerations ==
    /\ pc = "down" /\ ~IsAmbiguous(generations) /\ Recovered(generations).path # Torn
    /\ generations' = Recovered(generations)
    /\ accepted' = Recovered(generations).path
    /\ pc' = "recover"
    /\ UNCHANGED <<jobs, target, active, found, history>>

\* Mutant: a committed job is reported but its directory is kept.
RecoverKeepsCommitted(manifest) ==
    /\ pc = "recover" /\ jobs[manifest].state # "none"
    /\ target' = IF jobs[manifest].state = "committing"
                 THEN Restored(jobs[manifest]) ELSE target
    /\ found' = IF jobs[manifest].state = "committed"
                THEN Append(found, manifest) ELSE found
    /\ IF jobs[manifest].state = "committed"
       THEN pc' = "accepting" /\ UNCHANGED jobs
       ELSE jobs' = [jobs EXCEPT ![manifest] = NoJob] /\ UNCHANGED pc
    /\ UNCHANGED <<generations, accepted, active, history>>

\* recover_incomplete_with_policy, for one directory.  Directories are taken in
\* the order of their names, which need not be the order of the generations.
RecoverJob(manifest) ==
    /\ pc = "recover" /\ jobs[manifest].state # "none"
    /\ target' = IF jobs[manifest].state = "committing"
                 THEN Restored(jobs[manifest]) ELSE target
    /\ found' = IF jobs[manifest].state = "committed"
                THEN Append(found, manifest) ELSE found
    /\ jobs' = [jobs EXCEPT ![manifest] = NoJob]
    /\ UNCHANGED <<generations, accepted, active, pc, history>>

RecoveryDone ==
    /\ pc = "recover" /\ \A m \in Manifest : jobs[m].state = "none"
    /\ pc' = IF found = <<>> THEN "serving" ELSE "accepting"
    /\ UNCHANGED <<jobs, target, generations, memory, history>>

\* Generations of committed jobs are accepted; an older one ends the start.
AcceptRecovered ==
    /\ pc = "accepting" /\ found # <<>>
    /\ IF IsAccepted(Head(found), accepted)
       THEN accepted' = Head(found) /\ found' = Tail(found) /\ UNCHANGED pc
       ELSE accepted' = Absent /\ found' = <<>> /\ pc' = "down"
    /\ UNCHANGED <<jobs, target, generations, active, history>>

SaveRecovered ==
    /\ pc = "accepting" /\ found = <<>>
    /\ generations' = Replaced(accepted) /\ pc' = "serving"
    /\ UNCHANGED <<jobs, target, memory, history>>

-----------------------------------------------------------------------------
\* Files that a crash may leave while the generations are loaded or saved.
GenerationsAfterCrash ==
    CASE pc = "accept" -> ReplaceCrashes(generations, active.job)
      [] pc = "accepting" /\ found = <<>> -> ReplaceCrashes(generations, accepted)
      [] OTHER -> {generations}

\* The process ends at any step, or a call of the recovery fails, perhaps in the
\* middle of a rollback.
Crash ==
    /\ pc # "down"
    /\ pc' = "down" /\ accepted' = Absent /\ active' = NoActive /\ found' = <<>>
    /\ generations' \in GenerationsAfterCrash
    /\ \/ UNCHANGED <<target, jobs>>
       \/ pc = "undo" /\ CutShort(active.job)
       \/ pc = "recover" /\ \E m \in Manifest : Unfinished(m) /\ CutShort(m)
    /\ UNCHANGED history

Step ==
    \/ FinishPrepare \/ FinishPrepareRefused
    \/ CommitRefused \/ AppendCommitting \/ Displace \/ Install
    \/ AppendCommitted \/ Cleanup \/ CleanupPending \/ RollBack
    \/ LoadGenerations \/ (\E m \in Manifest : RecoverJob(m))
    \/ RecoveryDone \/ AcceptRecovered \/ SaveRecovered

Request ==
    \/ \E m \in Manifest : Prepare(m) \/ PrepareRefused(m)
    \/ CommitStarts

Failure ==
    \/ \E m \in Manifest : PrepareFails(m)
    \/ FinishPrepareFails \/ AppendCommittingFails \/ ApplyFails \/ RollBackFails
    \/ Crash

Next == Step \/ Request \/ Failure

Spec == Init /\ [][Next]_vars

\* What the code has begun goes on, and the service is started again.
FairSpec == Spec /\ WF_vars(Step)

-----------------------------------------------------------------------------
\* When no job is in the middle of a commit or rollback, the root holds what the
\* last committed job brought, whatever directories recovery met and in which
\* order, as long as no job was committed beside an unfinished one
\* (recover_service_state, recover_incomplete_with_policy, PrepareFileSet).
LastCommitStays ==
    ~overtaken /\ (\A m \in Manifest : ~Unfinished(m)) => target = told

\* A file that a job brought has its generation on disk, so that after any crash
\* an older manifest is refused (finish_prepare saves before the job can commit).
BroughtIsAccepted ==
    target \in Manifest =>
        LET saved == Recovered(generations).path IN
        saved \in Manifest /\ GenerationOf(saved) >= GenerationOf(target)

\* Neither the saved generation nor the generation of the files goes back, through
\* refused commits, rollbacks and restarts (verify_file_set, accept).
GenerationNeverBack ==
    [][ LET was == Recovered(generations).path now == Recovered(generations).path' IN
        /\ was \in Manifest => now \in Manifest /\ GenerationOf(now) >= GenerationOf(was)
        /\ told \in Manifest =>
               told' \in Manifest /\ GenerationOf(told') >= GenerationOf(told) ]_vars

\* Whatever was left behind, the service comes up again once nothing fails: a
\* start that ends because a committed job is older than the accepted generation
\* does not repeat for ever (recover_service_state).
ServiceComesUp ==
    <>[][Step \/ Request]_vars => []<>(pc = "serving")
=============================================================================
