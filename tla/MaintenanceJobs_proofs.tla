------------------------ MODULE MaintenanceJobs_proofs ------------------------
(***************************************************************************)
(* The promises of MaintenanceJobs, for any set of manifests.              *)
(***************************************************************************)
EXTENDS MaintenanceJobs, ProtectedFile_proofs, SequenceTheorems

Steps == {"serving", "accept", "verify", "displace", "install", "mark", "cleanup", "undo",
          "down", "recover", "accepting"}
JobStates == {"none", "empty", "prepared", "committing", "committed"}
ActiveStates == {"none", "preparing", "prepared", "committing", "committed",
                 "rolledBack", "failed"}

Job == [state : JobStates, original : Content, backup : Content]

TypeInv ==
    /\ jobs \in [Manifest -> Job]
    /\ target \in Content /\ told \in Content
    /\ generations \in FileOf(Manifest) /\ ~IsAmbiguous(generations)
    /\ accepted \in Manifest \cup {Absent}
    /\ active \in [job : Manifest \cup {Absent}, state : ActiveStates]
    /\ pc \in Steps /\ found \in Seq(Manifest) /\ overtaken \in BOOLEAN

\* The commit worker is at the step of the job that its journal tells.
Applying == {"displace", "install", "mark", "undo"}

\* The active job is prepared, and its generation saved.
IsPrepared == pc = "verify" \/ (pc = "serving" /\ active.state = "prepared")
InHand == IsPrepared \/ pc \in Applying \cup {"cleanup"}

ActiveInv ==
    /\ pc = "accept" \/ InHand => active.job \in Manifest
    /\ pc = "accept" \/ IsPrepared => jobs[active.job].state = "prepared"
    /\ pc \in Applying => jobs[active.job].state = "committing"
    /\ pc = "cleanup" => jobs[active.job].state = "committed"
    /\ \A m \in Manifest : jobs[m].state = "prepared" => jobs[m].backup = Absent
    /\ pc = "serving" => active.state \notin {"preparing", "committing"}
    /\ pc \in {"down", "recover", "accepting"} => active = NoActive

\* What is in the root, or may be put back there, is not newer than what is saved,
\* which is not newer than what is in memory or will be saved next.
GenInv ==
    LET saved == Found(generations) IN
    /\ \A c \in Manifest :
           (c \in {target, told} \/ \E m \in Manifest : jobs[m].backup = c) =>
               saved \in Manifest /\ GenerationOf(saved) >= GenerationOf(c)
    /\ pc # "down" /\ saved \in Manifest =>
           accepted \in Manifest /\ GenerationOf(accepted) >= GenerationOf(saved)
    /\ pc = "accept" /\ accepted \in Manifest =>
           GenerationOf(active.job) >= GenerationOf(accepted)
    /\ InHand => saved = active.job
    /\ pc = "accepting" /\ found = <<>> => accepted \in Manifest

\* As long as no commit began beside an unfinished one: there is at most one, and
\* rolling it back gives what the last committed job brought.
CommitInv ==
    /\ pc = "mark" => target = active.job
    /\ ~overtaken =>
           /\ \A m, n \in Manifest : Unfinished(m) /\ Unfinished(n) => m = n
           /\ (\A m \in Manifest : ~Unfinished(m)) => target = told
           /\ \A m \in Manifest : Unfinished(m) =>
                  jobs[m].original = told /\ Restored(jobs[m]) = told
           /\ pc = "displace" => target = told
           /\ pc = "install" => jobs[active.job].backup = told

IInv == TypeInv /\ ActiveInv /\ GenInv /\ CommitInv

-----------------------------------------------------------------------------
(* Manifests, generations and rollbacks *)

LEMMA ManifestIs ==
    /\ \A m \in Manifest : m # Absent /\ m # Torn /\ m # Original /\ GenerationOf(m) \in Nat
    /\ Original # Absent /\ Absent # Torn /\ Torn \notin Content
<1>1. \A m \in Nat : m \div 2 \in Nat
  OBVIOUS
<1>2. \A m \in Manifest : m \in Nat /\ m # 0
  BY JobsOK
<1>3. \A m \in Manifest : GenerationOf(m) \in Nat
  BY <1>1, <1>2 DEF GenerationOf
<1>4. 0 \in Nat
  OBVIOUS
<1>5. \A m \in Manifest : m # Absent /\ m # Torn /\ m # Original
  BY <1>2, JobsOK DEF Original
<1>6. Original # Absent /\ Absent # Torn /\ Torn \notin Content
  BY <1>4, <1>5, JobsOK, FilesOK DEF Original, Content
<1> QED BY <1>3, <1>5, <1>6

\* An accepted manifest is not older than what it is accepted after.
LEMMA AcceptedIsNewer ==
    ASSUME NEW m \in Manifest, NEW previous \in Manifest, IsAccepted(m, previous)
    PROVE  GenerationOf(m) >= GenerationOf(previous)
  BY ManifestIs DEF IsAccepted

LEMMA RestoredType == ASSUME TypeInv, NEW m \in Manifest
                      PROVE  Restored(jobs[m]) \in {jobs[m].backup, target, Absent}
  BY DEF Restored

\* A rollback that is cut short leaves what another one will restore.
LEMMA CutShortIs ==
    ASSUME TypeInv, NEW m \in Manifest, CutShort(m)
    PROVE  /\ target' \in {target, Restored(jobs[m]), Absent}
           /\ jobs' \in [Manifest -> Job]
           /\ \A n \in Manifest : /\ n # m => jobs'[n] = jobs[n]
                                  /\ jobs'[n].state = jobs[n].state
                                  /\ jobs'[n].original = jobs[n].original
           /\ jobs'[m].backup \in {jobs[m].backup, Absent}
           /\ \/ jobs'[m].backup = jobs[m].backup
                 /\ (target' = target \/ jobs[m].backup # Absent)
              \/ target' = Restored(jobs[m])
<1>1. PICK left \in RollbackLeaves(jobs[m]) :
          target' = left[1] /\ jobs' = [jobs EXCEPT ![m].backup = left[2]]
  BY DEF CutShort
<1>2. \/ left[1] = target /\ left[2] = jobs[m].backup
      \/ left[1] = Restored(jobs[m]) /\ left[2] = Absent
      \/ jobs[m].backup # Absent /\ left[1] = Absent /\ left[2] = jobs[m].backup
  BY DEF RollbackLeaves
<1>3. left[2] \in Content
  BY <1>2 DEF TypeInv, Job, Content
<1>4. /\ jobs' \in [Manifest -> Job]
      /\ \A n \in Manifest : /\ n # m => jobs'[n] = jobs[n]
                             /\ jobs'[n].state = jobs[n].state
                             /\ jobs'[n].original = jobs[n].original
      /\ jobs'[m].backup = left[2]
  BY <1>1, <1>3 DEF TypeInv, Job
<1> QED BY <1>1, <1>2, <1>4

\* What a crash leaves of the generation file.
LEMMA GenerationsInterrupted ==
    ASSUME TypeInv, ActiveInv, GenInv, NEW g \in GenerationsAfterCrash
    PROVE  /\ g \in FileOf(Manifest) /\ ~IsAmbiguous(g)
           /\ \/ Found(g) = Found(generations)
              \/ Found(g) = Torn /\ Found(generations) = Absent
              \/ pc = "accept" /\ Found(g) = active.job
              \/ pc = "accepting" /\ accepted \in Manifest /\ Found(g) = accepted
<1> USE ManifestIs
<1>1. CASE pc = "accept"
  <2>1. active.job \in Manifest /\ g \in ReplaceCrashes(generations, active.job)
    BY <1>1 DEF GenerationsAfterCrash, ActiveInv
  <2> QED BY <1>1, <2>1, ReplaceInterrupted DEF TypeInv, Job
<1>2. CASE pc = "accepting" /\ found = <<>>
  <2>1. accepted \in Manifest /\ g \in ReplaceCrashes(generations, accepted)
    BY <1>2 DEF GenerationsAfterCrash, GenInv
  <2> QED BY <1>2, <2>1, ReplaceInterrupted DEF TypeInv, Job
<1>3. CASE pc # "accept" /\ ~(pc = "accepting" /\ found = <<>>)
  <2>1. g = generations
    BY <1>3 DEF GenerationsAfterCrash
  <2> QED BY <2>1 DEF TypeInv, Job
<1> QED BY <1>1, <1>2, <1>3

LEMMA GenerationsFailed ==
    ASSUME TypeInv, ActiveInv, pc = "accept", NEW g \in ReplaceErrors(generations, active.job)
    PROVE  /\ g \in FileOf(Manifest) /\ ~IsAmbiguous(g)
           /\ \/ Found(g) \in {Found(generations), active.job}
              \/ Found(g) = Torn /\ Found(generations) = Absent
<1>1. active.job \in Manifest /\ g \in ReplaceCrashes(generations, active.job)
  BY ErrorsAreCrashes DEF ActiveInv
<1> QED BY <1>1, ManifestIs, ReplaceInterrupted DEF TypeInv, Job


-----------------------------------------------------------------------------
(* Steps keep the invariant, conjunct by conjunct *)

LEMMA TypeStep == TypeInv /\ ActiveInv /\ GenInv /\ [Next]_vars => TypeInv'
<1> SUFFICES ASSUME TypeInv, ActiveInv, GenInv, [Next]_vars PROVE TypeInv'
  OBVIOUS
<1> USE DEF TypeInv, Job, Steps, ActiveStates, JobStates, NoActive, NoJob, vars,
        history, memory
<1>1. ASSUME NEW m \in Manifest, Prepare(m) PROVE TypeInv'
  BY <1>1 DEF Prepare, IsCompleted, Content
<1>2. ASSUME NEW m \in Manifest, PrepareRefused(m) PROVE TypeInv'
  BY <1>2 DEF PrepareRefused, IsCompleted
<1>3. ASSUME NEW m \in Manifest, PrepareFails(m) PROVE TypeInv'
  BY <1>3 DEF PrepareFails, IsCompleted
<1>4. CASE FinishPrepare
  BY <1>4, ReplacedFile DEF FinishPrepare, Completes, ActiveInv
<1>5. CASE FinishPrepareRefused
  BY <1>5 DEF FinishPrepareRefused, ActiveInv
<1>6. CASE FinishPrepareFails
  BY <1>6, GenerationsFailed DEF FinishPrepareFails, ActiveInv
<1>7. CASE CommitStarts
  BY <1>7 DEF CommitStarts
<1>8. CASE CommitRefused
  BY <1>8 DEF CommitRefused, Completes
<1>9. CASE AppendCommitting
  <2>1. jobs' \in [Manifest -> Job]
    BY <1>9 DEF AppendCommitting
  <2>2. overtaken' \in BOOLEAN
    BY <1>9 DEF AppendCommitting, Overtakes
  <2>3. active' \in [job : Manifest \cup {Absent}, state : ActiveStates] /\ pc' \in Steps
    BY <1>9 DEF AppendCommitting, Completes, memory
  <2> QED BY <1>9, <2>1, <2>2, <2>3 DEF AppendCommitting
<1>10. CASE AppendCommittingFails
  <2>1. jobs' \in [Manifest -> Job]
    BY <1>10 DEF AppendCommittingFails
  <2>2. overtaken' \in BOOLEAN
    BY <1>10 DEF AppendCommittingFails, Overtakes
  <2>3. active' \in [job : Manifest \cup {Absent}, state : ActiveStates] /\ pc' \in Steps
    BY <1>10 DEF AppendCommittingFails, Completes, memory
  <2> QED BY <1>10, <2>1, <2>2, <2>3 DEF AppendCommittingFails
<1>11. CASE Displace
  <2>1. jobs' \in [Manifest -> Job]
    BY <1>11 DEF Displace
  <2> QED BY <1>11, <2>1 DEF Displace, Content
<1>12. CASE Install
  BY <1>12 DEF Install, ActiveInv, InHand, Applying, Content
<1>13. CASE AppendCommitted
  <2>1. jobs' \in [Manifest -> Job]
    BY <1>13 DEF AppendCommitted
  <2> QED BY <1>13, <2>1 DEF AppendCommitted, ActiveInv, InHand, Applying, Content
<1>14. CASE Cleanup
  <2>1. jobs' \in [Manifest -> Job]
    BY <1>14 DEF Cleanup, Content
  <2> QED BY <1>14, <2>1 DEF Cleanup, Completes
<1>15. CASE CleanupPending
  BY <1>15 DEF CleanupPending, Completes
<1>16. CASE ApplyFails
  BY <1>16 DEF ApplyFails
<1>17. CASE RollBack
  <2>1. active.job \in Manifest
    BY <1>17 DEF RollBack, ActiveInv, InHand, Applying
  <2>2. target' \in Content
    BY <1>17, <2>1, RestoredType DEF RollBack, MyJob, Content
  <2>3. jobs' \in [Manifest -> Job]
    BY <1>17 DEF RollBack, Content
  <2> QED BY <1>17, <2>2, <2>3 DEF RollBack, Completes
<1>18. CASE RollBackFails
  <2>1. active.job \in Manifest /\ CutShort(active.job)
    BY <1>18 DEF RollBackFails, ActiveInv, InHand, Applying
  <2>2. target' \in Content /\ jobs' \in [Manifest -> Job]
    BY <2>1, CutShortIs, RestoredType DEF Content
  <2> QED BY <1>18, <2>2 DEF RollBackFails, Completes
<1>19. CASE LoadGenerations
  <2>1. Recovered(generations) = Replaced(Found(generations))
    BY FoundIs
  <2>2. Found(generations) \in Manifest \cup {Absent}
    BY <1>19, FoundType DEF LoadGenerations, Found
  <2>3. generations' \in FileOf(Manifest) /\ ~IsAmbiguous(generations') /\ accepted' \in Manifest \cup {Absent}
    BY <1>19, <2>1, <2>2, ReplacedFile DEF LoadGenerations, Found
  <2> QED BY <1>19, <2>3 DEF LoadGenerations
<1>20. ASSUME NEW m \in Manifest, RecoverJob(m) PROVE TypeInv'
  BY <1>20, RestoredType DEF RecoverJob, Content
<1>21. CASE RecoveryDone
  BY <1>21 DEF RecoveryDone
<1>22. CASE AcceptRecovered
  <2>1. Head(found) \in Manifest /\ Tail(found) \in Seq(Manifest)
    BY <1>22 DEF AcceptRecovered
  <2>2. found' \in Seq(Manifest) /\ accepted' \in Manifest \cup {Absent} /\ pc' \in Steps
    <3>1. <<>> \in Seq(Manifest)
      OBVIOUS
    <3>2. CASE IsAccepted(Head(found), accepted)
      BY <1>22, <2>1, <3>2 DEF AcceptRecovered
    <3>3. CASE ~IsAccepted(Head(found), accepted)
      BY <1>22, <3>1, <3>3 DEF AcceptRecovered
    <3> QED BY <3>2, <3>3
  <2> QED BY <1>22, <2>2 DEF AcceptRecovered
<1>23. CASE SaveRecovered
  BY <1>23, ReplacedFile DEF SaveRecovered
<1>24. CASE Crash
  <2>1. generations' \in FileOf(Manifest) /\ ~IsAmbiguous(generations')
    BY <1>24, GenerationsInterrupted DEF Crash
  <2>2. target' \in Content /\ jobs' \in [Manifest -> Job]
    <3>1. CASE UNCHANGED <<target, jobs>>
      BY <3>1
    <3>2. ASSUME NEW m \in Manifest, CutShort(m)
          PROVE  target' \in Content /\ jobs' \in [Manifest -> Job]
      BY <3>2, CutShortIs, RestoredType DEF Content
    <3>3. pc = "undo" => active.job \in Manifest
      BY DEF ActiveInv, InHand, Applying
    <3> QED BY <1>24, <3>1, <3>2, <3>3 DEF Crash
  <2> QED BY <1>24, <2>1, <2>2 DEF Crash
<1>25. CASE UNCHANGED vars
  BY <1>25
<1> QED BY <1>1, <1>2, <1>3, <1>4, <1>5, <1>6, <1>7, <1>8, <1>9, <1>10, <1>11,
           <1>12, <1>13, <1>14, <1>15, <1>16, <1>17, <1>18, <1>19, <1>20, <1>21,
           <1>22, <1>23, <1>24, <1>25
           DEF Next, Step, Request, Failure

\* The worker and the journal of its job go together.
LEMMA ActiveStep == TypeInv /\ ActiveInv /\ [Next]_vars => ActiveInv'
<1> SUFFICES ASSUME TypeInv, ActiveInv, [Next]_vars PROVE ActiveInv'
  OBVIOUS
<1> USE DEF TypeInv, Job, ActiveInv, InHand, IsPrepared, Applying, NoActive, NoJob,
        Steps, ActiveStates, vars, history, memory
<1>1. ASSUME NEW m \in Manifest, Prepare(m) PROVE ActiveInv'
  BY <1>1 DEF Prepare, IsCompleted
<1>2. ASSUME NEW m \in Manifest, PrepareRefused(m) PROVE ActiveInv'
  BY <1>2 DEF PrepareRefused, IsCompleted
<1>3. ASSUME NEW m \in Manifest, PrepareFails(m) PROVE ActiveInv'
  BY <1>3 DEF PrepareFails, IsCompleted
<1>4. CASE FinishPrepare
  BY <1>4 DEF FinishPrepare, Completes
<1>5. CASE FinishPrepareRefused
  BY <1>5 DEF FinishPrepareRefused
<1>6. CASE FinishPrepareFails
  BY <1>6 DEF FinishPrepareFails
<1>7. CASE CommitStarts
  BY <1>7 DEF CommitStarts
<1>8. CASE CommitRefused
  BY <1>8 DEF CommitRefused, Completes
<1>9. CASE AppendCommitting
  BY <1>9 DEF AppendCommitting, MyJob, Overtakes
<1>10. CASE AppendCommittingFails
  BY <1>10 DEF AppendCommittingFails, MyJob, Completes, Overtakes
<1>11. CASE Displace
  BY <1>11 DEF Displace
<1>12. CASE Install
  BY <1>12 DEF Install
<1>13. CASE AppendCommitted
  BY <1>13 DEF AppendCommitted
<1>14. CASE Cleanup
  BY <1>14 DEF Cleanup, Completes
<1>15. CASE CleanupPending
  BY <1>15 DEF CleanupPending, Completes
<1>16. CASE ApplyFails
  BY <1>16 DEF ApplyFails
<1>17. CASE RollBack
  BY <1>17 DEF RollBack, MyJob, Completes
<1>18. CASE RollBackFails
  <2>1. active.job \in Manifest /\ CutShort(active.job)
    BY <1>18 DEF RollBackFails
  <2>2. \A n \in Manifest : /\ jobs'[n].state = jobs[n].state
                            /\ jobs'[n].backup \in {jobs[n].backup, Absent}
    BY <2>1, CutShortIs
  <2> QED BY <1>18, <2>2 DEF RollBackFails, Completes
<1>19. CASE LoadGenerations
  BY <1>19 DEF LoadGenerations
<1>20. ASSUME NEW m \in Manifest, RecoverJob(m) PROVE ActiveInv'
  BY <1>20 DEF RecoverJob
<1>21. CASE RecoveryDone
  BY <1>21 DEF RecoveryDone
<1>22. CASE AcceptRecovered
  BY <1>22 DEF AcceptRecovered
<1>23. CASE SaveRecovered
  BY <1>23 DEF SaveRecovered
<1>24. CASE Crash
  <2>1. ASSUME NEW m \in Manifest, CutShort(m)
        PROVE  \A n \in Manifest : /\ jobs'[n].state = jobs[n].state
                                   /\ jobs'[n].backup \in {jobs[n].backup, Absent}
    BY <2>1, CutShortIs
  <2>2. pc = "undo" => active.job \in Manifest
    OBVIOUS
  <2>3. \A n \in Manifest : jobs'[n].state = "prepared" => jobs'[n].backup = Absent
    BY <1>24, <2>1, <2>2 DEF Crash
  <2> QED BY <1>24, <2>3 DEF Crash
<1>25. CASE UNCHANGED vars
  BY <1>25
<1> QED BY <1>1, <1>2, <1>3, <1>4, <1>5, <1>6, <1>7, <1>8, <1>9, <1>10, <1>11,
           <1>12, <1>13, <1>14, <1>15, <1>16, <1>17, <1>18, <1>19, <1>20, <1>21,
           <1>22, <1>23, <1>24, <1>25
           DEF Next, Step, Request, Failure

\* Saved generations keep up with the files.
LEMMA GenStep == TypeInv /\ ActiveInv /\ GenInv /\ [Next]_vars => GenInv'
<1> SUFFICES ASSUME TypeInv, ActiveInv, GenInv, [Next]_vars PROVE GenInv'
  OBVIOUS
<1> USE DEF GenInv, InHand, IsPrepared, Applying, NoActive, NoJob, vars, history,
        memory
<1>1. ASSUME NEW m \in Manifest, Prepare(m) PROVE GenInv'
  <2>1. accepted \in Manifest => GenerationOf(m) >= GenerationOf(accepted)
    BY <1>1, AcceptedIsNewer DEF Prepare
  <2>2. \A n \in Manifest : jobs'[n].backup \in {jobs[n].backup, Absent}
    BY <1>1 DEF Prepare, TypeInv, Job
  <2> QED BY <1>1, <2>1, <2>2, ManifestIs DEF Prepare
<1>2. ASSUME NEW m \in Manifest, PrepareRefused(m) PROVE GenInv'
  BY <1>2 DEF PrepareRefused, IsCompleted
<1>3. ASSUME NEW m \in Manifest, PrepareFails(m) PROVE GenInv'
  <2>1. \A n \in Manifest : jobs'[n].backup = jobs[n].backup
    <3>1. CASE jobs' = jobs
      BY <3>1
    <3>2. CASE jobs' = [jobs EXCEPT ![m].state = "empty"]
      BY <3>2 DEF TypeInv, Job
    <3> QED BY <1>3, <3>1, <3>2 DEF PrepareFails
  <2> QED BY <1>3, <2>1 DEF PrepareFails
<1>4. CASE FinishPrepare
  <2>1. Found(generations') = active.job /\ active.job \in Manifest
    BY <1>4, ReplacedFile DEF FinishPrepare, ActiveInv
  <2>2. Found(generations) \in Manifest => GenerationOf(active.job) >= GenerationOf(Found(generations))
    BY <1>4, ManifestIs, <2>1 DEF FinishPrepare
  <2>3. \A c \in Manifest : GenerationOf(c) \in Nat
    BY ManifestIs
  <2> QED BY <1>4, <2>1, <2>2, <2>3 DEF FinishPrepare, Completes
<1>5. CASE FinishPrepareRefused
  <2>1. active.job \in Manifest
    BY <1>5 DEF FinishPrepareRefused, ActiveInv
  <2>2. Found(generations) \in Manifest => GenerationOf(active.job) >= GenerationOf(Found(generations))
    BY <1>5, ManifestIs, <2>1 DEF FinishPrepareRefused
  <2> QED BY <1>5, <2>1, <2>2 DEF FinishPrepareRefused
<1>6. CASE FinishPrepareFails
  <2>1. active.job \in Manifest
    BY <1>6 DEF FinishPrepareFails, ActiveInv
  <2>2. Found(generations) \in Manifest => GenerationOf(active.job) >= GenerationOf(Found(generations))
    BY <1>6, ManifestIs, <2>1 DEF FinishPrepareFails
  <2>3. \/ Found(generations') \in {Found(generations), active.job}
        \/ Found(generations') = Torn /\ Found(generations) = Absent
    BY <1>6, GenerationsFailed DEF FinishPrepareFails
  <2> QED BY <1>6, <2>1, <2>2, <2>3, ManifestIs DEF FinishPrepareFails
<1>7. CASE CommitStarts
  BY <1>7 DEF CommitStarts
<1>8. CASE CommitRefused
  BY <1>8 DEF CommitRefused, Completes
<1>9. CASE AppendCommitting
  <2>1. \A n \in Manifest : jobs'[n].backup = jobs[n].backup
    BY <1>9 DEF AppendCommitting, TypeInv, Job
  <2> QED BY <1>9, <2>1 DEF AppendCommitting
<1>10. CASE AppendCommittingFails
  <2>1. \A n \in Manifest : jobs'[n].backup = jobs[n].backup
    BY <1>10 DEF AppendCommittingFails, TypeInv, Job
  <2> QED BY <1>10, <2>1 DEF AppendCommittingFails, Completes
<1>11. CASE Displace
  <2>1. \A n \in Manifest : jobs'[n].backup \in {jobs[n].backup, target}
    BY <1>11 DEF Displace, TypeInv, Job
  <2> QED BY <1>11, <2>1, ManifestIs DEF Displace
<1>12. CASE Install
  BY <1>12, ManifestIs DEF Install, ActiveInv
<1>13. CASE AppendCommitted
  <2>1. active.job \in Manifest /\ \A n \in Manifest : jobs'[n].backup = jobs[n].backup
    BY <1>13 DEF AppendCommitted, TypeInv, Job, ActiveInv
  <2> QED BY <1>13, <2>1, ManifestIs DEF AppendCommitted
<1>14. CASE Cleanup
  <2>1. \A n \in Manifest : jobs'[n].backup \in {jobs[n].backup, Absent}
    BY <1>14 DEF Cleanup, TypeInv, Job
  <2> QED BY <1>14, <2>1, ManifestIs DEF Cleanup, Completes
<1>15. CASE CleanupPending
  BY <1>15 DEF CleanupPending, Completes
<1>16. CASE ApplyFails
  BY <1>16 DEF ApplyFails
<1>17. CASE RollBack
  <2>1. active.job \in Manifest /\ \A n \in Manifest : jobs'[n].backup \in {jobs[n].backup, Absent}
    BY <1>17 DEF RollBack, TypeInv, Job, ActiveInv
  <2>2. target' \in {jobs[active.job].backup, target, Absent}
    BY <1>17, <2>1, RestoredType DEF RollBack, MyJob
  <2> QED BY <1>17, <2>1, <2>2, ManifestIs DEF RollBack, Completes
<1>18. CASE RollBackFails
  <2>1. active.job \in Manifest /\ CutShort(active.job)
    BY <1>18 DEF RollBackFails, ActiveInv
  <2>2. /\ target' \in {jobs[active.job].backup, target, Absent}
        /\ \A n \in Manifest : jobs'[n].backup \in {jobs[n].backup, Absent}
    BY <2>1, CutShortIs, RestoredType
  <2> QED BY <1>18, <2>1, <2>2, ManifestIs DEF RollBackFails, Completes
<1>19. CASE LoadGenerations
  <2>1. Found(generations') = Found(generations) /\ accepted' = Found(generations)
    BY <1>19, FoundIs, FoundType, ReplacedFile DEF LoadGenerations, TypeInv, Job, Found
  <2> QED BY <1>19, <2>1, ManifestIs DEF LoadGenerations, ActiveInv
<1>20. ASSUME NEW m \in Manifest, RecoverJob(m) PROVE GenInv'
  <2>1. \A n \in Manifest : jobs'[n].backup \in {jobs[n].backup, Absent}
    BY <1>20 DEF RecoverJob, TypeInv, Job
  <2>2. target' \in {jobs[m].backup, target, Absent}
    BY <1>20, RestoredType DEF RecoverJob
  <2> QED BY <1>20, <2>1, <2>2, ManifestIs DEF RecoverJob, ActiveInv
<1>21. CASE RecoveryDone
  BY <1>21 DEF RecoveryDone, ActiveInv
<1>22. CASE AcceptRecovered
  <2>1. Head(found) \in Manifest
    BY <1>22 DEF AcceptRecovered, TypeInv, Job
  <2>2. IsAccepted(Head(found), accepted) /\ accepted \in Manifest => GenerationOf(Head(found)) >= GenerationOf(accepted)
    BY <2>1, AcceptedIsNewer
  <2>3. CASE IsAccepted(Head(found), accepted)
    <3>1. /\ accepted' = Head(found)
          /\ UNCHANGED <<jobs, target, generations, active, told, pc>> /\ pc = "accepting"
      BY <1>22, <2>3 DEF AcceptRecovered
    <3>2. Found(generations) \in Manifest => GenerationOf(Head(found)) >= GenerationOf(Found(generations))
      BY <2>1, <2>2, <2>3, <3>1, ManifestIs
    <3> QED BY <2>1, <3>1, <3>2 DEF ActiveInv
  <2>4. CASE ~IsAccepted(Head(found), accepted)
    BY <1>22, <2>4 DEF AcceptRecovered, ActiveInv
  <2> QED BY <2>3, <2>4
<1>23. CASE SaveRecovered
  <2>1. accepted \in Manifest /\ Found(generations') = accepted
    BY <1>23, ReplacedFile DEF SaveRecovered
  <2> QED BY <1>23, <2>1, ManifestIs DEF SaveRecovered, ActiveInv
<1>24. CASE Crash
  <2>1. \/ Found(generations') = Found(generations)
        \/ Found(generations') = Torn /\ Found(generations) = Absent
        \/ pc = "accept" /\ Found(generations') = active.job
        \/ pc = "accepting" /\ accepted \in Manifest /\ Found(generations') = accepted
    BY <1>24, GenerationsInterrupted DEF Crash
  <2>2. pc = "accept" => active.job \in Manifest
    BY DEF ActiveInv
  <2>3. Found(generations) \in Manifest =>
            Found(generations') \in Manifest /\ GenerationOf(Found(generations')) >= GenerationOf(Found(generations))
    BY <1>24, <2>1, <2>2, ManifestIs DEF Crash
  <2>4. \A c \in Manifest :
            (c \in {target', told'} \/ \E m \in Manifest : jobs'[m].backup = c) =>
            (c \in {target, told} \/ \E m \in Manifest : jobs[m].backup = c)
    <3>1. CASE UNCHANGED <<target, jobs>>
      BY <1>24, <3>1 DEF Crash
    <3>2. ASSUME NEW m \in Manifest, CutShort(m)
          PROVE  /\ target' \in {jobs[m].backup, target, Absent}
                 /\ \A n \in Manifest : jobs'[n].backup \in {jobs[n].backup, Absent}
      BY <3>2, CutShortIs, RestoredType
    <3>3. pc = "undo" => active.job \in Manifest
      BY DEF ActiveInv
    <3> QED BY <1>24, <3>1, <3>2, <3>3, ManifestIs DEF Crash
  <2>5. \A c \in Manifest :
            (c \in {target', told'} \/ \E m \in Manifest : jobs'[m].backup = c) =>
            Found(generations') \in Manifest /\ GenerationOf(Found(generations')) >= GenerationOf(c)
    BY <2>3, <2>4, ManifestIs
  <2> QED BY <1>24, <2>5 DEF Crash
<1>25. CASE UNCHANGED vars
  BY <1>25
<1> QED BY <1>1, <1>2, <1>3, <1>4, <1>5, <1>6, <1>7, <1>8, <1>9, <1>10, <1>11,
           <1>12, <1>13, <1>14, <1>15, <1>16, <1>17, <1>18, <1>19, <1>20, <1>21,
           <1>22, <1>23, <1>24, <1>25
           DEF Next, Step, Request, Failure

\* Four ways to establish CommitInv: a commit has overtaken another one, ...
LEMMA CommitOvertaken ==
    ASSUME overtaken', pc' = "mark" => target' = active'.job PROVE CommitInv'
  BY DEF CommitInv

\* ... no job is unfinished, ...
LEMMA NoneUnfinished ==
    ASSUME \A n \in Manifest : jobs'[n].state # "committing", target' = told',
           pc' \notin {"displace", "install", "mark"}
    PROVE  CommitInv'
  BY DEF CommitInv, Unfinished

\* ... one is, and nothing is lost of what it displaced, ...
LEMMA OneUnfinished ==
    ASSUME NEW m \in Manifest, jobs'[m].state = "committing", jobs'[m].original = told',
           \A n \in Manifest : jobs'[n].state = "committing" => n = m,
           jobs'[m].backup = told' \/ (jobs'[m].backup = Absent /\ target' = told'),
           pc' = "mark" => target' = active'.job,
           pc' = "displace" => target' = told',
           pc' = "install" => m = active'.job /\ jobs'[m].backup = told'
    PROVE  CommitInv'
<1>1. Restored(jobs[m])' = told'
  BY DEF Restored
<1> QED BY <1>1 DEF CommitInv, Unfinished

\* ... or the unfinished jobs and the file are the same as before.
LEMMA CommitKept ==
    ASSUME CommitInv, UNCHANGED <<target, told, overtaken>>,
           pc' \notin {"displace", "install", "mark"},
           \A n \in Manifest : /\ jobs'[n].state = "committing" <=> jobs[n].state = "committing"
                               /\ jobs[n].state = "committing" => jobs'[n] = jobs[n]
    PROVE  CommitInv'
<1>1. \A n \in Manifest : Unfinished(n)' <=> Unfinished(n)
  BY DEF Unfinished
<1>2. ASSUME NEW n \in Manifest, jobs'[n] = jobs[n], jobs[n].original = told, Restored(jobs[n]) = told
      PROVE  jobs'[n].original = told' /\ Restored(jobs[n])' = told'
  BY <1>2 DEF Restored
<1> QED BY <1>1, <1>2 DEF CommitInv, Unfinished

\* A rollback of the unfinished job that is cut short can be repeated.
LEMMA CutShortKeeps ==
    ASSUME TypeInv, CommitInv, NEW m \in Manifest, Unfinished(m), CutShort(m),
           told' = told, overtaken' = overtaken, pc' \in {"serving", "down"}
    PROVE  CommitInv'
<1> USE DEF CommitInv, Unfinished
<1>1. CASE overtaken
  BY <1>1
<1>2. CASE ~overtaken
  <2>1. \A n \in Manifest : Unfinished(n)' = Unfinished(n) /\ (Unfinished(n) => n = m)
    BY <1>2, CutShortIs
  <2>2. jobs[m].original = told /\ jobs'[m].original = told /\ Restored(jobs[m]) = told
    BY <1>2, CutShortIs
  <2>3. /\ jobs'[m].backup \in {jobs[m].backup, Absent}
        /\ \/ jobs'[m].backup = jobs[m].backup /\ (target' = target \/ jobs[m].backup # Absent)
           \/ target' = told
    BY <2>2, CutShortIs
  <2>4. Restored(jobs[m])' = told
    BY <2>2, <2>3 DEF Restored
  <2> QED BY <1>2, <2>1, <2>2, <2>4
<1> QED BY <1>1, <1>2

\* The last commit can always be had back.
LEMMA CommitStep == TypeInv /\ ActiveInv /\ CommitInv /\ [Next]_vars => CommitInv'
<1> SUFFICES ASSUME TypeInv, ActiveInv, CommitInv, [Next]_vars PROVE CommitInv'
  OBVIOUS
<1> USE DEF vars, history, memory
<1>1. ASSUME NEW m \in Manifest, Prepare(m) PROVE CommitInv'
  <2>1. jobs'[m].state = "prepared" /\ \A n \in Manifest : n # m => jobs'[n] = jobs[n]
    BY <1>1 DEF Prepare, TypeInv, Job
  <2>2. jobs[m].state = "none"
    BY <1>1 DEF Prepare
  <2>3. \A n \in Manifest : /\ jobs'[n].state = "committing" <=> jobs[n].state = "committing"
                            /\ jobs[n].state = "committing" => jobs'[n] = jobs[n]
    BY <2>1, <2>2
  <2>4. UNCHANGED <<target, told, overtaken>> /\ pc' \notin {"displace", "install", "mark"}
    BY <1>1 DEF Prepare
  <2> QED BY <2>3, <2>4, CommitKept
<1>2. ASSUME NEW m \in Manifest, PrepareRefused(m) PROVE CommitInv'
  <2>1. \A n \in Manifest : /\ jobs'[n].state = "committing" <=> jobs[n].state = "committing"
                            /\ jobs[n].state = "committing" => jobs'[n] = jobs[n]
    BY <1>2 DEF PrepareRefused, Unfinished, TypeInv, Job
  <2>2. UNCHANGED <<target, told, overtaken>> /\ pc' \notin {"displace", "install", "mark"}
    BY <1>2 DEF PrepareRefused
  <2> QED BY <2>1, <2>2, CommitKept
<1>3. ASSUME NEW m \in Manifest, PrepareFails(m) PROVE CommitInv'
  <2>1. \A n \in Manifest : /\ jobs'[n].state = "committing" <=> jobs[n].state = "committing"
                            /\ jobs[n].state = "committing" => jobs'[n] = jobs[n]
    <3>1. CASE jobs' = jobs
      BY <3>1 DEF Unfinished
    <3>2. CASE jobs' = [jobs EXCEPT ![m].state = "empty"]
      BY <1>3, <3>2 DEF PrepareFails, TypeInv, Job, Unfinished
    <3> QED BY <1>3, <3>1, <3>2 DEF PrepareFails
  <2>2. UNCHANGED <<target, told, overtaken>> /\ pc' \notin {"displace", "install", "mark"}
    BY <1>3 DEF PrepareFails
  <2> QED BY <2>1, <2>2, CommitKept
<1>4. CASE FinishPrepare
  <2>1. \A n \in Manifest : /\ jobs'[n].state = "committing" <=> jobs[n].state = "committing"
                            /\ jobs[n].state = "committing" => jobs'[n] = jobs[n]
    BY <1>4 DEF FinishPrepare, Unfinished, TypeInv, Job
  <2>2. UNCHANGED <<target, told, overtaken>> /\ pc' \notin {"displace", "install", "mark"}
    BY <1>4 DEF FinishPrepare, Completes
  <2> QED BY <2>1, <2>2, CommitKept
<1>5. CASE FinishPrepareRefused
  <2>1. \A n \in Manifest : /\ jobs'[n].state = "committing" <=> jobs[n].state = "committing"
                            /\ jobs[n].state = "committing" => jobs'[n] = jobs[n]
    BY <1>5 DEF FinishPrepareRefused, Unfinished, TypeInv, Job
  <2>2. UNCHANGED <<target, told, overtaken>> /\ pc' \notin {"displace", "install", "mark"}
    BY <1>5 DEF FinishPrepareRefused
  <2> QED BY <2>1, <2>2, CommitKept
<1>6. CASE FinishPrepareFails
  <2>1. \A n \in Manifest : /\ jobs'[n].state = "committing" <=> jobs[n].state = "committing"
                            /\ jobs[n].state = "committing" => jobs'[n] = jobs[n]
    BY <1>6 DEF FinishPrepareFails, Unfinished, TypeInv, Job
  <2>2. UNCHANGED <<target, told, overtaken>> /\ pc' \notin {"displace", "install", "mark"}
    BY <1>6 DEF FinishPrepareFails
  <2> QED BY <2>1, <2>2, CommitKept
<1>7. CASE CommitStarts
  <2>1. \A n \in Manifest : /\ jobs'[n].state = "committing" <=> jobs[n].state = "committing"
                            /\ jobs[n].state = "committing" => jobs'[n] = jobs[n]
    BY <1>7 DEF CommitStarts, Unfinished, TypeInv, Job
  <2>2. UNCHANGED <<target, told, overtaken>> /\ pc' \notin {"displace", "install", "mark"}
    BY <1>7 DEF CommitStarts
  <2> QED BY <2>1, <2>2, CommitKept
<1>8. CASE CommitRefused
  <2>1. \A n \in Manifest : /\ jobs'[n].state = "committing" <=> jobs[n].state = "committing"
                            /\ jobs[n].state = "committing" => jobs'[n] = jobs[n]
    BY <1>8 DEF CommitRefused, Unfinished, TypeInv, Job
  <2>2. UNCHANGED <<target, told, overtaken>> /\ pc' \notin {"displace", "install", "mark"}
    BY <1>8 DEF CommitRefused, Completes
  <2> QED BY <2>1, <2>2, CommitKept
<1>9. CASE AppendCommitting
  <2>1. active.job \in Manifest /\ jobs[active.job].state = "prepared" /\ jobs[active.job].backup = Absent
    BY <1>9 DEF AppendCommitting, ActiveInv, InHand, IsPrepared
  <2> DEFINE j == jobs[active.job]
  <2>2. /\ target' = target /\ told' = told /\ target = j.original
        /\ pc' \in {"displace", "serving"}
    BY <1>9 DEF AppendCommitting, MyJob, Completes
  <2>3. jobs' = [jobs EXCEPT ![active.job].state = "committing"]
    BY <1>9 DEF AppendCommitting
  <2>4. overtaken' = (overtaken \/ \E n \in Manifest : Unfinished(n))
    BY <1>9 DEF AppendCommitting, Overtakes
  <2>5. CASE overtaken'
    BY <2>2, <2>5, CommitOvertaken
  <2>6. CASE ~overtaken'
    <3>1. target = told /\ \A n \in Manifest : ~Unfinished(n)
      BY <2>4, <2>6 DEF CommitInv
    <3>2. ASSUME NEW m \in Manifest, m = active.job PROVE CommitInv'
      <4>1. /\ jobs'[m].state = "committing" /\ jobs'[m].backup = Absent
            /\ jobs'[m].original = j.original
        BY <2>1, <2>3, <3>2 DEF TypeInv, Job
      <4>2. \A n \in Manifest : jobs'[n].state = "committing" => n = m
        BY <2>3, <3>1, <3>2 DEF TypeInv, Job, Unfinished
      <4> QED BY <2>2, <3>1, <4>1, <4>2, OneUnfinished
    <3> QED BY <2>1, <3>2
  <2> QED BY <2>5, <2>6
<1>10. CASE AppendCommittingFails
  <2>1. active.job \in Manifest /\ jobs[active.job].state = "prepared" /\ jobs[active.job].backup = Absent
    BY <1>10 DEF AppendCommittingFails, ActiveInv, InHand, IsPrepared
  <2> DEFINE j == jobs[active.job]
  <2>2. /\ target' = target /\ told' = told /\ target = j.original
        /\ pc' \in {"displace", "serving"}
    BY <1>10 DEF AppendCommittingFails, MyJob, Completes
  <2>3. jobs' = [jobs EXCEPT ![active.job].state = "committing"]
    BY <1>10 DEF AppendCommittingFails
  <2>4. overtaken' = (overtaken \/ \E n \in Manifest : Unfinished(n))
    BY <1>10 DEF AppendCommittingFails, Overtakes
  <2>5. CASE overtaken'
    BY <2>2, <2>5, CommitOvertaken
  <2>6. CASE ~overtaken'
    <3>1. target = told /\ \A n \in Manifest : ~Unfinished(n)
      BY <2>4, <2>6 DEF CommitInv
    <3>2. ASSUME NEW m \in Manifest, m = active.job PROVE CommitInv'
      <4>1. /\ jobs'[m].state = "committing" /\ jobs'[m].backup = Absent
            /\ jobs'[m].original = j.original
        BY <2>1, <2>3, <3>2 DEF TypeInv, Job
      <4>2. \A n \in Manifest : jobs'[n].state = "committing" => n = m
        BY <2>3, <3>1, <3>2 DEF TypeInv, Job, Unfinished
      <4> QED BY <2>2, <3>1, <4>1, <4>2, OneUnfinished
    <3> QED BY <2>1, <3>2
  <2> QED BY <2>5, <2>6
<1>11. CASE Displace
  <2>1. active.job \in Manifest /\ Unfinished(active.job)
    BY <1>11 DEF Displace, ActiveInv, InHand, Applying, Unfinished
  <2>2. /\ target' = Absent /\ told' = told /\ pc' = "install" /\ overtaken' = overtaken
        /\ active' = active /\ jobs' = [jobs EXCEPT ![active.job].backup = target]
    BY <1>11 DEF Displace
  <2>3. CASE ~overtaken
    <3>1. ASSUME NEW m \in Manifest, m = active.job PROVE CommitInv'
      <4>1. target = told /\ jobs[m].original = told
        BY <1>11, <2>1, <2>3, <3>1 DEF Displace, CommitInv
      <4>2. jobs'[m].state = "committing" /\ jobs'[m].original = told /\ jobs'[m].backup = told
        BY <2>1, <2>2, <3>1, <4>1 DEF TypeInv, Job, Unfinished
      <4>3. \A n \in Manifest : jobs'[n].state = "committing" => n = m
        BY <2>1, <2>2, <2>3, <3>1 DEF TypeInv, Job, Unfinished, CommitInv
      <4>4. active'.job = m /\ told' = told /\ pc' = "install"
        BY <2>2, <3>1
      <4> QED BY <4>2, <4>3, <4>4, OneUnfinished
    <3> QED BY <2>1, <3>1
  <2> QED BY <2>2, <2>3, CommitOvertaken
<1>12. CASE Install
  <2>1. active.job \in Manifest /\ Unfinished(active.job)
    BY <1>12 DEF Install, ActiveInv, InHand, Applying, Unfinished
  <2>2. target' = active.job /\ pc' = "mark" /\ UNCHANGED <<jobs, told, overtaken, active>>
    BY <1>12 DEF Install
  <2>3. CASE ~overtaken
    <3>1. ASSUME NEW m \in Manifest, m = active.job PROVE CommitInv'
      <4>1. jobs[m].state = "committing" /\ jobs[m].backup = told /\ jobs[m].original = told
        BY <1>12, <2>1, <2>3, <3>1 DEF Install, CommitInv, Unfinished
      <4>2. \A n \in Manifest : jobs[n].state = "committing" => n = m
        BY <2>1, <2>3, <3>1 DEF Unfinished, CommitInv
      <4>3. target' = active'.job /\ jobs' = jobs /\ told' = told /\ pc' = "mark"
        BY <2>2
      <4> QED BY <4>1, <4>2, <4>3, OneUnfinished
    <3> QED BY <2>1, <3>1
  <2> QED BY <2>2, <2>3, CommitOvertaken
<1>13. CASE AppendCommitted
  <2>1. active.job \in Manifest /\ Unfinished(active.job)
    BY <1>13 DEF AppendCommitted, ActiveInv, InHand, Applying, Unfinished
  <2>2. /\ target' = active.job /\ told' = active.job /\ pc' = "cleanup" /\ overtaken' = overtaken
        /\ jobs' = [jobs EXCEPT ![active.job].state = "committed"]
    BY <1>13 DEF AppendCommitted, CommitInv
  <2>3. CASE ~overtaken
    <3>1. \A n \in Manifest : jobs'[n].state # "committing"
      BY <2>1, <2>2, <2>3 DEF TypeInv, Job, CommitInv, Unfinished
    <3> QED BY <2>2, <3>1, NoneUnfinished
  <2> QED BY <2>2, <2>3, CommitOvertaken
<1>14. CASE Cleanup
  <2>1. \A n \in Manifest : /\ jobs'[n].state = "committing" <=> jobs[n].state = "committing"
                            /\ jobs[n].state = "committing" => jobs'[n] = jobs[n]
    BY <1>14 DEF Cleanup, Unfinished, TypeInv, Job, ActiveInv, NoJob
  <2>2. UNCHANGED <<target, told, overtaken>> /\ pc' \notin {"displace", "install", "mark"}
    BY <1>14 DEF Cleanup, Completes
  <2> QED BY <2>1, <2>2, CommitKept
<1>15. CASE CleanupPending
  <2>1. \A n \in Manifest : /\ jobs'[n].state = "committing" <=> jobs[n].state = "committing"
                            /\ jobs[n].state = "committing" => jobs'[n] = jobs[n]
    BY <1>15 DEF CleanupPending, Unfinished, TypeInv, Job
  <2>2. UNCHANGED <<target, told, overtaken>> /\ pc' \notin {"displace", "install", "mark"}
    BY <1>15 DEF CleanupPending, Completes
  <2> QED BY <2>1, <2>2, CommitKept
<1>16. CASE ApplyFails
  <2>1. \A n \in Manifest : /\ jobs'[n].state = "committing" <=> jobs[n].state = "committing"
                            /\ jobs[n].state = "committing" => jobs'[n] = jobs[n]
    BY <1>16 DEF ApplyFails, Unfinished, TypeInv, Job
  <2>2. UNCHANGED <<target, told, overtaken>> /\ pc' \notin {"displace", "install", "mark"}
    BY <1>16 DEF ApplyFails
  <2> QED BY <2>1, <2>2, CommitKept
<1>17. CASE RollBack
  <2>1. active.job \in Manifest /\ Unfinished(active.job)
    BY <1>17 DEF RollBack, ActiveInv, InHand, Applying, Unfinished
  <2>2. /\ target' = Restored(jobs[active.job]) /\ told' = told /\ pc' = "serving" /\ overtaken' = overtaken
        /\ jobs' = [jobs EXCEPT ![active.job] = NoJob]
    BY <1>17 DEF RollBack, MyJob, Completes
  <2>3. CASE ~overtaken
    <3>1. \A n \in Manifest : jobs'[n].state # "committing"
      BY <2>1, <2>2, <2>3 DEF TypeInv, Job, CommitInv, Unfinished, NoJob
    <3>2. target' = told
      BY <2>1, <2>2, <2>3 DEF CommitInv
    <3> QED BY <2>2, <3>1, <3>2, NoneUnfinished
  <2> QED BY <2>2, <2>3, CommitOvertaken
<1>18. CASE RollBackFails
  <2>1. active.job \in Manifest /\ Unfinished(active.job)
    BY <1>18 DEF RollBackFails, ActiveInv, InHand, Applying, Unfinished
  <2>2. told' = told /\ pc' = "serving" /\ overtaken' = overtaken /\ CutShort(active.job)
    BY <1>18 DEF RollBackFails, Completes
  <2> QED BY <2>1, <2>2, CutShortKeeps
<1>19. CASE LoadGenerations
  <2>1. \A n \in Manifest : /\ jobs'[n].state = "committing" <=> jobs[n].state = "committing"
                            /\ jobs[n].state = "committing" => jobs'[n] = jobs[n]
    BY <1>19 DEF LoadGenerations, Unfinished, TypeInv, Job
  <2>2. UNCHANGED <<target, told, overtaken>> /\ pc' \notin {"displace", "install", "mark"}
    BY <1>19 DEF LoadGenerations
  <2> QED BY <2>1, <2>2, CommitKept
<1>20. ASSUME NEW m \in Manifest, RecoverJob(m) PROVE CommitInv'
  <2>1. /\ told' = told /\ pc' = "recover" /\ overtaken' = overtaken
        /\ target' = IF Unfinished(m) THEN Restored(jobs[m]) ELSE target
        /\ jobs' = [jobs EXCEPT ![m] = NoJob]
    BY <1>20 DEF RecoverJob, Unfinished
  <2>2. CASE overtaken
    BY <2>1, <2>2, CommitOvertaken
  <2>3. CASE ~overtaken /\ Unfinished(m)
    <3>1. \A n \in Manifest : jobs'[n].state # "committing"
      BY <2>1, <2>3 DEF TypeInv, Job, CommitInv, Unfinished, NoJob
    <3>2. target' = told
      BY <2>1, <2>3 DEF CommitInv
    <3> QED BY <2>1, <3>1, <3>2, NoneUnfinished
  <2>4. CASE ~overtaken /\ ~Unfinished(m)
    <3>1. \A n \in Manifest : /\ jobs'[n].state = "committing" <=> jobs[n].state = "committing"
                              /\ jobs[n].state = "committing" => jobs'[n] = jobs[n]
      BY <2>1, <2>4 DEF TypeInv, Job, Unfinished, NoJob
    <3> QED BY <2>1, <2>4, <3>1, CommitKept
  <2> QED BY <2>2, <2>3, <2>4
<1>21. CASE RecoveryDone
  <2>1. \A n \in Manifest : /\ jobs'[n].state = "committing" <=> jobs[n].state = "committing"
                            /\ jobs[n].state = "committing" => jobs'[n] = jobs[n]
    BY <1>21 DEF RecoveryDone, Unfinished, TypeInv, Job
  <2>2. UNCHANGED <<target, told, overtaken>> /\ pc' \notin {"displace", "install", "mark"}
    BY <1>21 DEF RecoveryDone
  <2> QED BY <2>1, <2>2, CommitKept
<1>22. CASE AcceptRecovered
  <2>1. \A n \in Manifest : /\ jobs'[n].state = "committing" <=> jobs[n].state = "committing"
                            /\ jobs[n].state = "committing" => jobs'[n] = jobs[n]
    BY <1>22 DEF AcceptRecovered, Unfinished, TypeInv, Job
  <2>2. UNCHANGED <<target, told, overtaken>> /\ pc' \notin {"displace", "install", "mark"}
    BY <1>22 DEF AcceptRecovered
  <2> QED BY <2>1, <2>2, CommitKept
<1>23. CASE SaveRecovered
  <2>1. \A n \in Manifest : /\ jobs'[n].state = "committing" <=> jobs[n].state = "committing"
                            /\ jobs[n].state = "committing" => jobs'[n] = jobs[n]
    BY <1>23 DEF SaveRecovered, Unfinished, TypeInv, Job
  <2>2. UNCHANGED <<target, told, overtaken>> /\ pc' \notin {"displace", "install", "mark"}
    BY <1>23 DEF SaveRecovered
  <2> QED BY <2>1, <2>2, CommitKept
<1>24. CASE Crash
  <2>1. told' = told /\ pc' = "down" /\ overtaken' = overtaken
    BY <1>24 DEF Crash
  <2>2. CASE UNCHANGED <<target, jobs>>
    BY <2>1, <2>2, CommitKept DEF Unfinished
  <2>3. ASSUME NEW m \in Manifest, Unfinished(m), CutShort(m) PROVE CommitInv'
    BY <2>1, <2>3, CutShortKeeps
  <2>4. pc = "undo" => active.job \in Manifest /\ Unfinished(active.job)
    BY DEF ActiveInv, InHand, Applying, Unfinished
  <2> QED BY <1>24, <2>2, <2>3, <2>4 DEF Crash
<1>25. CASE UNCHANGED vars
  BY <1>25 DEF CommitInv, Unfinished, Restored
<1> QED BY <1>1, <1>2, <1>3, <1>4, <1>5, <1>6, <1>7, <1>8, <1>9, <1>10, <1>11,
           <1>12, <1>13, <1>14, <1>15, <1>16, <1>17, <1>18, <1>19, <1>20, <1>21,
           <1>22, <1>23, <1>24, <1>25
           DEF Next, Step, Request, Failure

-----------------------------------------------------------------------------
(* What follows *)

LEMMA Initially == Init => IInv
<1> SUFFICES ASSUME Init PROVE IInv
  OBVIOUS
<1>1. generations = Replaced(Absent) /\ Absent \in Manifest \cup {Absent}
  BY DEF Init, NoFile, Replaced
<1>2. generations \in FileOf(Manifest) /\ ~IsAmbiguous(generations) /\ Found(generations) = Absent
  BY <1>1, ReplacedFile
<1>3. \A m \in Manifest : jobs[m] = NoJob
  BY DEF Init
<1>4. TypeInv
  <2>1. found = <<>> /\ overtaken = FALSE /\ <<>> \in Seq(Manifest)
    BY DEF Init
  <2>2. jobs \in [Manifest -> Job]
    BY DEF Init, NoJob, Job, JobStates, Content
  <2>3. active \in [job : Manifest \cup {Absent}, state : ActiveStates]
    BY DEF Init, NoActive, ActiveStates
  <2> QED BY <1>2, <2>1, <2>2, <2>3 DEF Init, TypeInv, Content, Steps
<1>5. ActiveInv
  BY <1>3 DEF Init, ActiveInv, InHand, IsPrepared, Applying, NoJob, NoActive
<1>6. GenInv
  BY <1>2, <1>3, ManifestIs DEF Init, GenInv, InHand, IsPrepared, Applying, NoJob, NoActive
<1>7. CommitInv
  BY <1>3 DEF Init, CommitInv, Unfinished, NoJob
<1> QED BY <1>4, <1>5, <1>6, <1>7 DEF IInv

LEMMA Invariance == Spec => []IInv
<1>1. IInv /\ [Next]_vars => IInv'
  BY TypeStep, ActiveStep, GenStep, CommitStep DEF IInv
<1> QED BY Initially, <1>1, PTL DEF Spec

\* As long as no commit began beside an unfinished one, the root holds what the last
\* committed job brought whenever no job is unfinished: after any refused commit,
\* failed append, interrupted rollback and restart, and in whatever order recovery
\* takes the directories (commit_file_set, recover_incomplete_with_policy).
THEOREM LastCommitStaysHolds == Spec => []LastCommitStays
<1>1. IInv => LastCommitStays
  BY DEF IInv, CommitInv, LastCommitStays, TypeInv
<1> QED BY Invariance, <1>1, PTL

\* A file that a job brought never is newer than the generation on disk, also in the
\* middle of a commit or rollback and after a save that failed or was interrupted
\* (finish_prepare, recover_service_state).
THEOREM BroughtIsAcceptedHolds == Spec => []BroughtIsAccepted
<1>1. IInv => BroughtIsAccepted
  BY DEF IInv, GenInv, BroughtIsAccepted, Found
<1> QED BY Invariance, <1>1, PTL

\* Only preparing, a finished recovery and a crash in either of them change what is
\* saved, and they do not take it back.
LEMMA SavedNeverBack ==
    ASSUME IInv, [Next]_vars, Found(generations) \in Manifest
    PROVE  /\ Found(generations') \in Manifest
           /\ GenerationOf(Found(generations')) >= GenerationOf(Found(generations))
<1> DEFINE Kept == /\ Found(generations') \in Manifest
                   /\ GenerationOf(Found(generations')) >= GenerationOf(Found(generations))
<1> SUFFICES Kept
  OBVIOUS
<1>1. GenerationOf(Found(generations)) \in Nat /\ Found(generations) # Absent
  BY ManifestIs
<1>2. CASE generations' = generations
  BY <1>1, <1>2
<1>3. ASSUME active.job \in Manifest, pc = "accept", Found(generations') = active.job PROVE Kept
  <2>1. /\ accepted \in Manifest
        /\ GenerationOf(active.job) >= GenerationOf(accepted)
        /\ GenerationOf(accepted) >= GenerationOf(Found(generations))
    BY <1>3 DEF IInv, GenInv
  <2>2. GenerationOf(active.job) \in Nat /\ GenerationOf(accepted) \in Nat
    BY <1>3, <2>1, ManifestIs
  <2> QED BY <1>1, <1>3, <2>1, <2>2
<1>4. ASSUME accepted \in Manifest, pc = "accepting", Found(generations') = accepted PROVE Kept
  BY <1>4 DEF IInv, GenInv
<1>5. CASE FinishPrepare
  <2>1. active.job \in Manifest /\ pc = "accept" /\ generations' = Replaced(active.job)
    BY <1>5 DEF FinishPrepare, IInv, ActiveInv
  <2> QED BY <1>3, <2>1, ReplacedFile
<1>6. CASE FinishPrepareFails
  <2>1. active.job \in Manifest /\ pc = "accept" /\ generations' \in ReplaceErrors(generations, active.job)
    BY <1>6 DEF FinishPrepareFails, IInv, ActiveInv
  <2>2. Found(generations') \in {Found(generations), active.job}
    BY <1>1, <2>1, GenerationsFailed DEF IInv
  <2> QED BY <1>1, <1>3, <2>1, <2>2
<1>7. CASE LoadGenerations
  <2>1. Found(generations') = Found(generations)
    BY <1>7, FoundIs, FoundType, ReplacedFile DEF LoadGenerations, IInv, TypeInv, Found
  <2> QED BY <1>1, <2>1
<1>8. CASE SaveRecovered
  <2>1. accepted \in Manifest /\ pc = "accepting" /\ generations' = Replaced(accepted)
    BY <1>8 DEF SaveRecovered, IInv, GenInv
  <2> QED BY <1>4, <2>1, ReplacedFile
<1>9. CASE Crash
  <2>1. \/ Found(generations') = Found(generations)
        \/ pc = "accept" /\ Found(generations') = active.job
        \/ pc = "accepting" /\ accepted \in Manifest /\ Found(generations') = accepted
    BY <1>1, <1>9, GenerationsInterrupted DEF Crash, IInv
  <2>2. pc = "accept" => active.job \in Manifest
    BY DEF IInv, ActiveInv
  <2> QED BY <1>1, <1>3, <1>4, <2>1, <2>2
<1> QED
  BY <1>2, <1>5, <1>6, <1>7, <1>8, <1>9
  DEF Next, Step, Request, Failure, vars, Prepare, PrepareRefused, PrepareFails,
      FinishPrepareRefused, CommitStarts, CommitRefused, AppendCommitting,
      AppendCommittingFails, Displace, Install, AppendCommitted, Cleanup, CleanupPending,
      ApplyFails, RollBack, RollBackFails, RecoverJob, RecoveryDone, AcceptRecovered

\* The last committed job is not older than the one before.
LEMMA ToldNeverBack ==
    ASSUME IInv, [Next]_vars, told \in Manifest
    PROVE  told' \in Manifest /\ GenerationOf(told') >= GenerationOf(told)
<1>1. GenerationOf(told) \in Nat
  BY ManifestIs
<1>2. CASE told' = told
  BY <1>1, <1>2
<1>3. CASE AppendCommitted
  <2>1. told' = active.job /\ active.job \in Manifest /\ Found(generations) = active.job
    BY <1>3 DEF AppendCommitted, IInv, ActiveInv, GenInv, InHand, Applying
  <2>2. GenerationOf(Found(generations)) >= GenerationOf(told)
    BY DEF IInv, GenInv
  <2> QED BY <2>1, <2>2
<1> QED
  BY <1>2, <1>3
  DEF Next, Step, Request, Failure, vars, history, Prepare, PrepareRefused, PrepareFails,
      FinishPrepare, FinishPrepareRefused, FinishPrepareFails, CommitStarts, CommitRefused,
      AppendCommitting, AppendCommittingFails, Displace, Install, Cleanup, CleanupPending,
      ApplyFails, RollBack, RollBackFails, LoadGenerations, RecoverJob, RecoveryDone,
      AcceptRecovered, SaveRecovered, Crash

\* Neither the saved generation nor that of the files goes back in any step, crashes and
\* starts included (verify_file_set, GenerationRegistry::accept, finish_prepare).
THEOREM GenerationNeverBackHolds == Spec => GenerationNeverBack
<1> DEFINE Never ==
      LET was == Recovered(generations).path now == Recovered(generations).path' IN
      /\ was \in Manifest => now \in Manifest /\ GenerationOf(now) >= GenerationOf(was)
      /\ told \in Manifest =>
             told' \in Manifest /\ GenerationOf(told') >= GenerationOf(told)
<1>1. IInv /\ [Next]_vars => [Never]_vars
  BY SavedNeverBack, ToldNeverBack DEF Found
<1> QED BY Invariance, <1>1, PTL DEF Spec, GenerationNeverBack
=============================================================================
