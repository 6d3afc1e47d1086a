------------------------- MODULE ServiceLoop_proofs -------------------------
(***************************************************************************)
(* The promises of ServiceLoop, for any number of pipe instances and of    *)
(* commit workers.                                                         *)
(***************************************************************************)
EXTENDS ServiceLoop, FiniteSetTheorems, TLAPS

Mains == {"down", "load", "top", "wait", "failing", "commit", "spawn", "registry",
          "registry_done", "leave", "abort", "closed"}

\* A job that is committing, or that reached a final state, has the worker it
\* was handed to.
Jobs == {NoJob, PreparedJob} \cup [state : {"committing"} \cup Final, worker : Workers]

\* The states of the threads.
TypeInv ==
    /\ main \in Mains /\ slot \in Slots \cup {None}
    /\ phase \in [Slots -> {"listening", "sent", "ready", "held"}]
    /\ active \in Jobs
    /\ preparing \in Slots \cup {None}
    /\ prepare \in {None, "running", "sent", "done"}
    /\ commit \in [Threads -> {None, "running", "sent", "look", "signal", "report"}]
    /\ result \in [Workers -> Final \cup {None}]
    /\ handler \in {None, "called", "look", "signal"}
    /\ stopRequested \in BOOLEAN /\ committing \in BOOLEAN
    /\ stopEvent \in BOOLEAN /\ wakeEvent \in BOOLEAN /\ accepts \in BOOLEAN

Serving == {"top", "wait", "leave", "abort"}
Busy == {"commit", "spawn", "registry", "registry_done"}

\* An instance is held for the request in process or for the prepare, and there
\* is only one of the two.
HeldInv ==
    /\ slot # None => main \in Busy
    /\ preparing # None => main \in Serving
    /\ main # "closed" => \A s \in Slots : phase[s] = "held" => s \in {slot, preparing}
    /\ \A s, t \in Slots : phase[s] = "held" /\ phase[t] = "held" => s = t

\* The prepare worker belongs to a prepare in flight, until it is joined.
PrepareInv ==
    /\ prepare \in {"running", "sent"} => preparing # None
    /\ preparing # None => active = NoJob
    /\ main \in Busy => preparing = None

\* The commit worker that runs is the one of the active job.
WorkerInv ==
    /\ \A w \in Workers : commit[w] = "running" =>
           active = [state |-> "committing", worker |-> w] /\ result[w] = None
    /\ active.state \in Final => active.state = result[active.worker]
    /\ commit[Service] = "running" => main = "registry"
    /\ main \in {"registry", "registry_done"} => active = NoJob
    /\ main \in {"commit", "spawn"} => active = PreparedJob

\* A requested stop has somebody who will signal the event, or the service
\* thread is about to see the flag, or it has left its loop.
StopInv ==
    stopRequested =>
        \/ stopEvent
        \/ handler \in {"look", "signal"}
        \/ \E t \in Threads : commit[t] \in {"running", "sent", "look", "signal"}
        \/ main \in {"spawn", "leave", "abort", "closed"}
        \/ main = "top" /\ ~committing /\ preparing = None

IInv ==
    /\ TypeInv /\ HeldInv /\ PrepareInv /\ WorkerInv
    /\ CommittingIsCleared /\ StopInv
-----------------------------------------------------------------------------
(* refresh_active_job *)

\* The only state it gives a job is the result that the job's worker sent.
LEMMA RefreshedJob ==
    ASSUME TypeInv
    PROVE  /\ Refreshed \in Jobs
           /\ \/ Refreshed = active
              \/ /\ active.state = "committing" /\ active.worker \in Workers
                 /\ result[active.worker] \in Final
                 /\ Refreshed = [state |-> result[active.worker], worker |-> active.worker]
<1> USE DEF TypeInv, Jobs, NoJob, PreparedJob, Final, None
<1>1. CASE active.state = "committing" /\ result[active.worker] # None
  <2>1. active \in [state : {"committing"} \cup Final, worker : Workers]
    BY <1>1
  <2>2. active = [state |-> active.state, worker |-> active.worker]
    BY <2>1
  <2>3. result[active.worker] \in Final
    BY <1>1, <2>1
  <2>4. Refreshed = [state |-> result[active.worker], worker |-> active.worker]
    BY <1>1, <2>2 DEF Refreshed
  <2> QED BY <1>1, <2>1, <2>3, <2>4
<1>2. CASE ~(active.state = "committing" /\ result[active.worker] # None)
  BY <1>2 DEF Refreshed
<1> QED BY <1>1, <1>2

\* What a prepare or a registry set leaves of it is the job itself, or none.
LEMMA ForgottenJob ==
    ASSUME TypeInv
    PROVE  \/ Forgotten = active /\ active.state \notin Final
           \/ Forgotten = NoJob /\ Refreshed.state \in Final
<1>1. CASE Refreshed = active
  BY <1>1 DEF Forgotten
<1>2. CASE Refreshed # active
  BY <1>2, RefreshedJob DEF Forgotten
<1> QED BY <1>1, <1>2

\* An instance that was answered listens again.
LEMMA RespondPhase ==
    ASSUME TypeInv, NEW s, Respond(s)
    PROVE  phase' \in [Slots -> {"listening", "sent", "ready", "held"}]
  BY DEF TypeInv, Respond


-----------------------------------------------------------------------------
(* Steps keep the invariant, conjunct by conjunct.                         *)

\* Every step keeps the states of the threads.
LEMMA TypeStep == TypeInv /\ [Next]_vars => TypeInv'
<1> SUFFICES ASSUME TypeInv, [Next]_vars PROVE TypeInv'
  OBVIOUS
<1> USE ServiceConstants DEF TypeInv, Threads, Final, Mains, NoJob, PreparedJob,
        Jobs, None, Service, flags, events, jobs, workers, vars
<1>1. CASE LoadServiceState
  BY <1>1 DEF LoadServiceState
<1>2. CASE StartPipeServerFails
  BY <1>2 DEF StartPipeServerFails
<1>3. CASE JoinPrepare
  BY <1>3 DEF JoinPrepare
<1>4. CASE EndProcess
  BY <1>4 DEF EndProcess, Exit
<1>5. CASE LoopTop
  BY <1>5 DEF LoopTop
<1>6. CASE TakeStop
  BY <1>6 DEF TakeStop, Waiting
<1>7. CASE TakeIdle
  BY <1>7 DEF TakeIdle, Waiting
<1>8. CASE TakeWake
  <2>1. wakeEvent' \in BOOLEAN
    BY <1>8 DEF TakeWake
  <2>2. CASE preparing = None \/ prepare = "running"
    BY <1>8, <2>1, <2>2 DEF TakeWake
  <2>3. CASE ~(preparing = None \/ prepare = "running")
    <3>1. phase' \in [Slots -> {"listening", "sent", "ready", "held"}]
      BY <1>8, <2>3, RespondPhase DEF TakeWake, FinishPrepare
    <3> QED BY <1>8, <2>1, <2>3, <3>1 DEF TakeWake, FinishPrepare
  <2> QED BY <2>2, <2>3
<1>9. CASE SetCommitting
  <2>1. committing' \in BOOLEAN /\ accepts' \in BOOLEAN
    BY <1>9 DEF SetCommitting
  <2> QED BY <1>9, <2>1 DEF SetCommitting
<1>10. ASSUME NEW w \in Workers, SpawnCommit(w) PROVE TypeInv'
  <2>1. commit' \in [Threads -> {None, "running", "sent", "look", "signal", "report"}]
    BY <1>10 DEF SpawnCommit, Respond
  <2>2. phase' \in [Slots -> {"listening", "sent", "ready", "held"}]
    BY <1>10, RespondPhase DEF SpawnCommit
  <2>3. committing' \in BOOLEAN /\ accepts' \in BOOLEAN
    BY <1>10 DEF SpawnCommit, Respond
  <2> QED BY <1>10, <2>1, <2>2, <2>3 DEF SpawnCommit
<1>11. CASE SpawnCommitFails
  <2>1. phase' \in [Slots -> {"listening", "sent", "ready", "held"}]
    BY <1>11, RespondPhase DEF SpawnCommitFails
  <2>2. committing' \in BOOLEAN /\ accepts' \in BOOLEAN
    BY <1>11 DEF SpawnCommitFails, Respond
  <2> QED BY <1>11, <2>1, <2>2 DEF SpawnCommitFails
<1>12. CASE SetCommittingForRegistry
  BY <1>12 DEF SetCommittingForRegistry
<1>13. CASE RegistryApplied
  BY <1>13 DEF RegistryApplied
<1>14. CASE AnswerRegistrySet
  <2>1. phase' \in [Slots -> {"listening", "sent", "ready", "held"}]
    BY <1>14, RespondPhase DEF AnswerRegistrySet
  <2>2. committing' \in BOOLEAN /\ accepts' \in BOOLEAN
    BY <1>14 DEF AnswerRegistrySet, Respond
  <2> QED BY <1>14, <2>1, <2>2 DEF AnswerRegistrySet
<1>15. ASSUME NEW s \in Slots, AnswerStartupFailure(s) PROVE TypeInv'
  BY <1>15 DEF AnswerStartupFailure, Respond, NextRequest
<1>16. ASSUME NEW s \in Slots, Answer(s) PROVE TypeInv'
  BY <1>16, RefreshedJob, ForgottenJob DEF Answer, Respond, NextRequest
<1>17. ASSUME NEW s \in Slots, RefuseNewJob(s) PROVE TypeInv'
  BY <1>17, RefreshedJob, ForgottenJob DEF RefuseNewJob, Respond, Forget, NextRequest
<1>18. ASSUME NEW s \in Slots, SpawnPrepare(s) PROVE TypeInv'
  BY <1>18, RefreshedJob, ForgottenJob DEF SpawnPrepare, Forget, NextRequest
<1>19. ASSUME NEW s \in Slots, CheckCommit(s) PROVE TypeInv'
  BY <1>19 DEF CheckCommit, NextRequest
<1>20. ASSUME NEW s \in Slots, StartRegistrySet(s) PROVE TypeInv'
  BY <1>20, RefreshedJob, ForgottenJob DEF StartRegistrySet, Forget, NextRequest
<1>21. CASE SendPrepared
  BY <1>21 DEF SendPrepared
<1>22. CASE SignalWake
  BY <1>22 DEF SignalWake
<1>23. CASE RequestStop
  BY <1>23 DEF RequestStop
<1>24. CASE LeaveStopToCommit
  BY <1>24 DEF LeaveStopToCommit
<1>25. CASE HandleStop
  <2>1. handler' \in {None, "called", "look", "signal"}
    BY <1>25 DEF HandleStop
  <2>2. accepts' \in BOOLEAN
    BY <1>25 DEF HandleStop
  <2>3. UNCHANGED <<main, slot, phase, active, preparing, prepare, commit, result,
                    stopRequested, committing, stopEvent, wakeEvent>>
    BY <1>25 DEF HandleStop
  <2> QED BY <2>1, <2>2, <2>3
<1>26. CASE HandlerSignals
  BY <1>26 DEF HandlerSignals
<1>27. CASE Start
  BY <1>27 DEF Start
<1>28. CASE Crash
  BY <1>28 DEF Crash, Exit
<1>29. CASE PipeFails
  BY <1>29 DEF PipeFails, Waiting
<1>30. CASE ControlStop
  BY <1>30 DEF ControlStop
<1>31. ASSUME NEW s \in Slots, ClientSends(s) PROVE TypeInv'
  BY <1>31 DEF ClientSends, Waiting
<1>32. ASSUME NEW w \in Workers, SendResult(w) PROVE TypeInv'
  BY <1>32 DEF SendResult
<1>33. ASSUME NEW t \in Threads, ClearCommitting(t) PROVE TypeInv'
  <2>1. commit' \in [Threads -> {None, "running", "sent", "look", "signal", "report"}]
    BY <1>33 DEF ClearCommitting
  <2>2. committing' \in BOOLEAN /\ accepts' \in BOOLEAN
    BY <1>33 DEF ClearCommitting
  <2> QED BY <1>33, <2>1, <2>2 DEF ClearCommitting
<1>34. ASSUME NEW t \in Threads, SeeStop(t) PROVE TypeInv'
  <2>1. commit' \in [Threads -> {None, "running", "sent", "look", "signal", "report"}]
    BY <1>34 DEF SeeStop
  <2>2. committing' \in BOOLEAN /\ accepts' \in BOOLEAN
    BY <1>34 DEF SeeStop
  <2> QED BY <1>34, <2>1, <2>2 DEF SeeStop
<1>35. ASSUME NEW t \in Threads, SignalStop(t) PROVE TypeInv'
  BY <1>35 DEF SignalStop
<1>36. ASSUME NEW t \in Threads, SeeNoStop(t) PROVE TypeInv'
  BY <1>36 DEF SeeNoStop
<1>37. ASSUME NEW t \in Threads, ReportRunning(t) PROVE TypeInv'
  BY <1>37 DEF ReportRunning
<1>38. CASE UNCHANGED vars
  BY <1>38
<1> QED BY <1>1, <1>2, <1>3, <1>4, <1>5, <1>6, <1>7, <1>8, <1>9, <1>10, <1>11,
           <1>12, <1>13, <1>14, <1>15, <1>16, <1>17, <1>18, <1>19, <1>20, <1>21,
           <1>22, <1>23, <1>24, <1>25, <1>26, <1>27, <1>28, <1>29, <1>30, <1>31,
           <1>32, <1>33, <1>34, <1>35, <1>36, <1>37, <1>38
           DEF Next, ServiceStep, PrepareStep, HandlerStep, Outside, DropStep,
           WorkerStep, Threads

\* Instances are held for one purpose at a time.
LEMMA HeldStep == TypeInv /\ HeldInv /\ PrepareInv /\ [Next]_vars => HeldInv'
<1> SUFFICES ASSUME TypeInv, HeldInv, PrepareInv, [Next]_vars PROVE HeldInv'
  OBVIOUS
<1> USE ServiceConstants DEF TypeInv, Threads, Final, Mains, NoJob, PreparedJob,
        Jobs, None, Service, HeldInv, PrepareInv, Serving, Busy, flags, events,
        jobs, workers, vars
<1>1. CASE LoadServiceState
  BY <1>1 DEF LoadServiceState
<1>2. CASE StartPipeServerFails
  BY <1>2 DEF StartPipeServerFails
<1>3. CASE JoinPrepare
  BY <1>3 DEF JoinPrepare
<1>4. CASE EndProcess
  BY <1>4 DEF EndProcess, Exit
<1>5. CASE LoopTop
  BY <1>5 DEF LoopTop
<1>6. CASE TakeStop
  BY <1>6 DEF TakeStop, Waiting
<1>7. CASE TakeIdle
  BY <1>7 DEF TakeIdle, Waiting
<1>8. CASE TakeWake
  BY <1>8 DEF TakeWake, FinishPrepare, Respond
<1>9. CASE SetCommitting
  BY <1>9 DEF SetCommitting
<1>10. ASSUME NEW w \in Workers, SpawnCommit(w) PROVE HeldInv'
  BY <1>10 DEF SpawnCommit, Respond
<1>11. CASE SpawnCommitFails
  BY <1>11 DEF SpawnCommitFails, Respond
<1>12. CASE SetCommittingForRegistry
  BY <1>12 DEF SetCommittingForRegistry
<1>13. CASE RegistryApplied
  BY <1>13 DEF RegistryApplied
<1>14. CASE AnswerRegistrySet
  BY <1>14 DEF AnswerRegistrySet, Respond
<1>15. ASSUME NEW s \in Slots, AnswerStartupFailure(s) PROVE HeldInv'
  BY <1>15 DEF AnswerStartupFailure, Respond, NextRequest
<1>16. ASSUME NEW s \in Slots, Answer(s) PROVE HeldInv'
  BY <1>16, RefreshedJob, ForgottenJob DEF Answer, Respond, NextRequest
<1>17. ASSUME NEW s \in Slots, RefuseNewJob(s) PROVE HeldInv'
  BY <1>17, RefreshedJob, ForgottenJob DEF RefuseNewJob, Respond, Forget, NextRequest
<1>18. ASSUME NEW s \in Slots, SpawnPrepare(s) PROVE HeldInv'
  BY <1>18, RefreshedJob, ForgottenJob DEF SpawnPrepare, Forget, NextRequest
<1>19. ASSUME NEW s \in Slots, CheckCommit(s) PROVE HeldInv'
  BY <1>19 DEF CheckCommit, NextRequest
<1>20. ASSUME NEW s \in Slots, StartRegistrySet(s) PROVE HeldInv'
  BY <1>20, RefreshedJob, ForgottenJob DEF StartRegistrySet, Forget, NextRequest
<1>21. CASE SendPrepared
  BY <1>21 DEF SendPrepared
<1>22. CASE SignalWake
  BY <1>22 DEF SignalWake
<1>23. CASE RequestStop
  BY <1>23 DEF RequestStop
<1>24. CASE LeaveStopToCommit
  BY <1>24 DEF LeaveStopToCommit
<1>25. CASE HandleStop
  BY <1>25 DEF HandleStop
<1>26. CASE HandlerSignals
  BY <1>26 DEF HandlerSignals
<1>27. CASE Start
  BY <1>27 DEF Start
<1>28. CASE Crash
  BY <1>28 DEF Crash, Exit
<1>29. CASE PipeFails
  BY <1>29 DEF PipeFails, Waiting
<1>30. CASE ControlStop
  BY <1>30 DEF ControlStop
<1>31. ASSUME NEW s \in Slots, ClientSends(s) PROVE HeldInv'
  BY <1>31 DEF ClientSends, Waiting
<1>32. ASSUME NEW w \in Workers, SendResult(w) PROVE HeldInv'
  BY <1>32 DEF SendResult
<1>33. ASSUME NEW t \in Threads, ClearCommitting(t) PROVE HeldInv'
  BY <1>33 DEF ClearCommitting
<1>34. ASSUME NEW t \in Threads, SeeStop(t) PROVE HeldInv'
  BY <1>34 DEF SeeStop
<1>35. ASSUME NEW t \in Threads, SignalStop(t) PROVE HeldInv'
  BY <1>35 DEF SignalStop
<1>36. ASSUME NEW t \in Threads, SeeNoStop(t) PROVE HeldInv'
  BY <1>36 DEF SeeNoStop
<1>37. ASSUME NEW t \in Threads, ReportRunning(t) PROVE HeldInv'
  BY <1>37 DEF ReportRunning
<1>38. CASE UNCHANGED vars
  BY <1>38
<1> QED BY <1>1, <1>2, <1>3, <1>4, <1>5, <1>6, <1>7, <1>8, <1>9, <1>10, <1>11,
           <1>12, <1>13, <1>14, <1>15, <1>16, <1>17, <1>18, <1>19, <1>20, <1>21,
           <1>22, <1>23, <1>24, <1>25, <1>26, <1>27, <1>28, <1>29, <1>30, <1>31,
           <1>32, <1>33, <1>34, <1>35, <1>36, <1>37, <1>38
           DEF Next, ServiceStep, PrepareStep, HandlerStep, Outside, DropStep,
           WorkerStep, Threads

\* A prepare worker is always accounted for.
LEMMA PrepareStepKeeps == TypeInv /\ HeldInv /\ PrepareInv /\ WorkerInv /\ [Next]_vars => PrepareInv'
<1> SUFFICES ASSUME TypeInv, HeldInv, PrepareInv, WorkerInv, [Next]_vars PROVE PrepareInv'
  OBVIOUS
<1> USE ServiceConstants DEF TypeInv, Threads, Final, Mains, NoJob, PreparedJob,
        Jobs, None, Service, HeldInv, PrepareInv, WorkerInv, Serving, Busy, flags,
        events, jobs, workers, vars
<1>1. CASE LoadServiceState
  BY <1>1 DEF LoadServiceState
<1>2. CASE StartPipeServerFails
  BY <1>2 DEF StartPipeServerFails
<1>3. CASE JoinPrepare
  BY <1>3 DEF JoinPrepare
<1>4. CASE EndProcess
  BY <1>4 DEF EndProcess, Exit
<1>5. CASE LoopTop
  BY <1>5 DEF LoopTop
<1>6. CASE TakeStop
  BY <1>6 DEF TakeStop, Waiting
<1>7. CASE TakeIdle
  BY <1>7 DEF TakeIdle, Waiting
<1>8. CASE TakeWake
  BY <1>8 DEF TakeWake, FinishPrepare, Respond
<1>9. CASE SetCommitting
  BY <1>9 DEF SetCommitting
<1>10. ASSUME NEW w \in Workers, SpawnCommit(w) PROVE PrepareInv'
  BY <1>10 DEF SpawnCommit, Respond
<1>11. CASE SpawnCommitFails
  BY <1>11 DEF SpawnCommitFails, Respond
<1>12. CASE SetCommittingForRegistry
  BY <1>12 DEF SetCommittingForRegistry
<1>13. CASE RegistryApplied
  BY <1>13 DEF RegistryApplied
<1>14. CASE AnswerRegistrySet
  BY <1>14 DEF AnswerRegistrySet, Respond
<1>15. ASSUME NEW s \in Slots, AnswerStartupFailure(s) PROVE PrepareInv'
  BY <1>15 DEF AnswerStartupFailure, Respond, NextRequest
<1>16. ASSUME NEW s \in Slots, Answer(s) PROVE PrepareInv'
  BY <1>16, RefreshedJob, ForgottenJob DEF Answer, Respond, NextRequest
<1>17. ASSUME NEW s \in Slots, RefuseNewJob(s) PROVE PrepareInv'
  BY <1>17, RefreshedJob, ForgottenJob DEF RefuseNewJob, Respond, Forget, NextRequest
<1>18. ASSUME NEW s \in Slots, SpawnPrepare(s) PROVE PrepareInv'
  BY <1>18, RefreshedJob, ForgottenJob DEF SpawnPrepare, Forget, NextRequest
<1>19. ASSUME NEW s \in Slots, CheckCommit(s) PROVE PrepareInv'
  BY <1>19 DEF CheckCommit, NextRequest
<1>20. ASSUME NEW s \in Slots, StartRegistrySet(s) PROVE PrepareInv'
  BY <1>20, RefreshedJob, ForgottenJob DEF StartRegistrySet, Forget, NextRequest
<1>21. CASE SendPrepared
  BY <1>21 DEF SendPrepared
<1>22. CASE SignalWake
  BY <1>22 DEF SignalWake
<1>23. CASE RequestStop
  BY <1>23 DEF RequestStop
<1>24. CASE LeaveStopToCommit
  BY <1>24 DEF LeaveStopToCommit
<1>25. CASE HandleStop
  BY <1>25 DEF HandleStop
<1>26. CASE HandlerSignals
  BY <1>26 DEF HandlerSignals
<1>27. CASE Start
  BY <1>27 DEF Start
<1>28. CASE Crash
  BY <1>28 DEF Crash, Exit
<1>29. CASE PipeFails
  BY <1>29 DEF PipeFails, Waiting
<1>30. CASE ControlStop
  BY <1>30 DEF ControlStop
<1>31. ASSUME NEW s \in Slots, ClientSends(s) PROVE PrepareInv'
  BY <1>31 DEF ClientSends, Waiting
<1>32. ASSUME NEW w \in Workers, SendResult(w) PROVE PrepareInv'
  BY <1>32 DEF SendResult
<1>33. ASSUME NEW t \in Threads, ClearCommitting(t) PROVE PrepareInv'
  BY <1>33 DEF ClearCommitting
<1>34. ASSUME NEW t \in Threads, SeeStop(t) PROVE PrepareInv'
  BY <1>34 DEF SeeStop
<1>35. ASSUME NEW t \in Threads, SignalStop(t) PROVE PrepareInv'
  BY <1>35 DEF SignalStop
<1>36. ASSUME NEW t \in Threads, SeeNoStop(t) PROVE PrepareInv'
  BY <1>36 DEF SeeNoStop
<1>37. ASSUME NEW t \in Threads, ReportRunning(t) PROVE PrepareInv'
  BY <1>37 DEF ReportRunning
<1>38. CASE UNCHANGED vars
  BY <1>38
<1> QED BY <1>1, <1>2, <1>3, <1>4, <1>5, <1>6, <1>7, <1>8, <1>9, <1>10, <1>11,
           <1>12, <1>13, <1>14, <1>15, <1>16, <1>17, <1>18, <1>19, <1>20, <1>21,
           <1>22, <1>23, <1>24, <1>25, <1>26, <1>27, <1>28, <1>29, <1>30, <1>31,
           <1>32, <1>33, <1>34, <1>35, <1>36, <1>37, <1>38
           DEF Next, ServiceStep, PrepareStep, HandlerStep, Outside, DropStep,
           WorkerStep, Threads

\* The worker that runs stays the one of the active job.
LEMMA WorkerStepKeeps == TypeInv /\ HeldInv /\ PrepareInv /\ WorkerInv /\ [Next]_vars => WorkerInv'
<1> SUFFICES ASSUME TypeInv, HeldInv, PrepareInv, WorkerInv, [Next]_vars PROVE WorkerInv'
  OBVIOUS
<1> USE ServiceConstants DEF TypeInv, Threads, Final, Mains, NoJob, PreparedJob,
        Jobs, None, Service, HeldInv, PrepareInv, WorkerInv, Serving, Busy, flags,
        events, jobs, workers, vars
<1>1. CASE LoadServiceState
  BY <1>1 DEF LoadServiceState
<1>2. CASE StartPipeServerFails
  BY <1>2 DEF StartPipeServerFails
<1>3. CASE JoinPrepare
  BY <1>3 DEF JoinPrepare
<1>4. CASE EndProcess
  BY <1>4 DEF EndProcess, Exit
<1>5. CASE LoopTop
  BY <1>5 DEF LoopTop
<1>6. CASE TakeStop
  BY <1>6 DEF TakeStop, Waiting
<1>7. CASE TakeIdle
  BY <1>7 DEF TakeIdle, Waiting
<1>8. CASE TakeWake
  BY <1>8 DEF TakeWake, FinishPrepare, Respond
<1>9. CASE SetCommitting
  BY <1>9 DEF SetCommitting
<1>10. ASSUME NEW w \in Workers, SpawnCommit(w) PROVE WorkerInv'
  <2>1. /\ main' = "top" /\ active' = [state |-> "committing", worker |-> w]
        /\ commit' = [commit EXCEPT ![w] = "running"]
        /\ result' = [result EXCEPT ![w] = None] /\ main = "spawn"
    BY <1>10 DEF SpawnCommit
  <2>2. \A v \in Workers : commit[v] # "running"
    BY <2>1
  <2> QED BY <2>1, <2>2
<1>11. CASE SpawnCommitFails
  BY <1>11 DEF SpawnCommitFails, Respond
<1>12. CASE SetCommittingForRegistry
  BY <1>12 DEF SetCommittingForRegistry
<1>13. CASE RegistryApplied
  BY <1>13 DEF RegistryApplied
<1>14. CASE AnswerRegistrySet
  BY <1>14 DEF AnswerRegistrySet, Respond
<1>15. ASSUME NEW s \in Slots, AnswerStartupFailure(s) PROVE WorkerInv'
  BY <1>15 DEF AnswerStartupFailure, Respond, NextRequest
<1>16. ASSUME NEW s \in Slots, Answer(s) PROVE WorkerInv'
  BY <1>16, RefreshedJob, ForgottenJob DEF Answer, Respond, NextRequest
<1>17. ASSUME NEW s \in Slots, RefuseNewJob(s) PROVE WorkerInv'
  BY <1>17, RefreshedJob, ForgottenJob DEF RefuseNewJob, Respond, Forget, NextRequest
<1>18. ASSUME NEW s \in Slots, SpawnPrepare(s) PROVE WorkerInv'
  BY <1>18, RefreshedJob, ForgottenJob DEF SpawnPrepare, Forget, NextRequest
<1>19. ASSUME NEW s \in Slots, CheckCommit(s) PROVE WorkerInv'
  BY <1>19 DEF CheckCommit, NextRequest
<1>20. ASSUME NEW s \in Slots, StartRegistrySet(s) PROVE WorkerInv'
  BY <1>20, RefreshedJob, ForgottenJob DEF StartRegistrySet, Forget, NextRequest
<1>21. CASE SendPrepared
  BY <1>21 DEF SendPrepared
<1>22. CASE SignalWake
  BY <1>22 DEF SignalWake
<1>23. CASE RequestStop
  BY <1>23 DEF RequestStop
<1>24. CASE LeaveStopToCommit
  BY <1>24 DEF LeaveStopToCommit
<1>25. CASE HandleStop
  BY <1>25 DEF HandleStop
<1>26. CASE HandlerSignals
  BY <1>26 DEF HandlerSignals
<1>27. CASE Start
  BY <1>27 DEF Start
<1>28. CASE Crash
  BY <1>28 DEF Crash, Exit
<1>29. CASE PipeFails
  BY <1>29 DEF PipeFails, Waiting
<1>30. CASE ControlStop
  BY <1>30 DEF ControlStop
<1>31. ASSUME NEW s \in Slots, ClientSends(s) PROVE WorkerInv'
  BY <1>31 DEF ClientSends, Waiting
<1>32. ASSUME NEW w \in Workers, SendResult(w) PROVE WorkerInv'
  BY <1>32 DEF SendResult
<1>33. ASSUME NEW t \in Threads, ClearCommitting(t) PROVE WorkerInv'
  BY <1>33 DEF ClearCommitting
<1>34. ASSUME NEW t \in Threads, SeeStop(t) PROVE WorkerInv'
  BY <1>34 DEF SeeStop
<1>35. ASSUME NEW t \in Threads, SignalStop(t) PROVE WorkerInv'
  BY <1>35 DEF SignalStop
<1>36. ASSUME NEW t \in Threads, SeeNoStop(t) PROVE WorkerInv'
  BY <1>36 DEF SeeNoStop
<1>37. ASSUME NEW t \in Threads, ReportRunning(t) PROVE WorkerInv'
  BY <1>37 DEF ReportRunning
<1>38. CASE UNCHANGED vars
  BY <1>38
<1> QED BY <1>1, <1>2, <1>3, <1>4, <1>5, <1>6, <1>7, <1>8, <1>9, <1>10, <1>11,
           <1>12, <1>13, <1>14, <1>15, <1>16, <1>17, <1>18, <1>19, <1>20, <1>21,
           <1>22, <1>23, <1>24, <1>25, <1>26, <1>27, <1>28, <1>29, <1>30, <1>31,
           <1>32, <1>33, <1>34, <1>35, <1>36, <1>37, <1>38
           DEF Next, ServiceStep, PrepareStep, HandlerStep, Outside, DropStep,
           WorkerStep, Threads

\* COMMITTING is set by those who clear it.
LEMMA CommittingStep == TypeInv /\ CommittingIsCleared /\ [Next]_vars => CommittingIsCleared'
<1> SUFFICES ASSUME TypeInv, CommittingIsCleared, [Next]_vars PROVE CommittingIsCleared'
  OBVIOUS
<1> USE ServiceConstants DEF TypeInv, Threads, Final, Mains, NoJob, PreparedJob,
        Jobs, None, Service, CommittingIsCleared, flags, events, jobs, workers, vars
<1>1. CASE LoadServiceState
  BY <1>1 DEF LoadServiceState
<1>2. CASE StartPipeServerFails
  BY <1>2 DEF StartPipeServerFails
<1>3. CASE JoinPrepare
  BY <1>3 DEF JoinPrepare
<1>4. CASE EndProcess
  BY <1>4 DEF EndProcess, Exit
<1>5. CASE LoopTop
  BY <1>5 DEF LoopTop
<1>6. CASE TakeStop
  BY <1>6 DEF TakeStop, Waiting
<1>7. CASE TakeIdle
  BY <1>7 DEF TakeIdle, Waiting
<1>8. CASE TakeWake
  BY <1>8 DEF TakeWake, FinishPrepare, Respond
<1>9. CASE SetCommitting
  BY <1>9 DEF SetCommitting
<1>10. ASSUME NEW w \in Workers, SpawnCommit(w) PROVE CommittingIsCleared'
  BY <1>10 DEF SpawnCommit, Respond
<1>11. CASE SpawnCommitFails
  BY <1>11 DEF SpawnCommitFails, Respond
<1>12. CASE SetCommittingForRegistry
  BY <1>12 DEF SetCommittingForRegistry
<1>13. CASE RegistryApplied
  BY <1>13 DEF RegistryApplied
<1>14. CASE AnswerRegistrySet
  BY <1>14 DEF AnswerRegistrySet, Respond
<1>15. ASSUME NEW s \in Slots, AnswerStartupFailure(s) PROVE CommittingIsCleared'
  BY <1>15 DEF AnswerStartupFailure, Respond, NextRequest
<1>16. ASSUME NEW s \in Slots, Answer(s) PROVE CommittingIsCleared'
  BY <1>16, RefreshedJob, ForgottenJob DEF Answer, Respond, NextRequest
<1>17. ASSUME NEW s \in Slots, RefuseNewJob(s) PROVE CommittingIsCleared'
  BY <1>17, RefreshedJob, ForgottenJob DEF RefuseNewJob, Respond, Forget, NextRequest
<1>18. ASSUME NEW s \in Slots, SpawnPrepare(s) PROVE CommittingIsCleared'
  BY <1>18, RefreshedJob, ForgottenJob DEF SpawnPrepare, Forget, NextRequest
<1>19. ASSUME NEW s \in Slots, CheckCommit(s) PROVE CommittingIsCleared'
  BY <1>19 DEF CheckCommit, NextRequest
<1>20. ASSUME NEW s \in Slots, StartRegistrySet(s) PROVE CommittingIsCleared'
  BY <1>20, RefreshedJob, ForgottenJob DEF StartRegistrySet, Forget, NextRequest
<1>21. CASE SendPrepared
  BY <1>21 DEF SendPrepared
<1>22. CASE SignalWake
  BY <1>22 DEF SignalWake
<1>23. CASE RequestStop
  BY <1>23 DEF RequestStop
<1>24. CASE LeaveStopToCommit
  BY <1>24 DEF LeaveStopToCommit
<1>25. CASE HandleStop
  BY <1>25 DEF HandleStop
<1>26. CASE HandlerSignals
  BY <1>26 DEF HandlerSignals
<1>27. CASE Start
  BY <1>27 DEF Start
<1>28. CASE Crash
  BY <1>28 DEF Crash, Exit
<1>29. CASE PipeFails
  BY <1>29 DEF PipeFails, Waiting
<1>30. CASE ControlStop
  BY <1>30 DEF ControlStop
<1>31. ASSUME NEW s \in Slots, ClientSends(s) PROVE CommittingIsCleared'
  BY <1>31 DEF ClientSends, Waiting
<1>32. ASSUME NEW w \in Workers, SendResult(w) PROVE CommittingIsCleared'
  BY <1>32 DEF SendResult
<1>33. ASSUME NEW t \in Threads, ClearCommitting(t) PROVE CommittingIsCleared'
  BY <1>33 DEF ClearCommitting
<1>34. ASSUME NEW t \in Threads, SeeStop(t) PROVE CommittingIsCleared'
  BY <1>34 DEF SeeStop
<1>35. ASSUME NEW t \in Threads, SignalStop(t) PROVE CommittingIsCleared'
  BY <1>35 DEF SignalStop
<1>36. ASSUME NEW t \in Threads, SeeNoStop(t) PROVE CommittingIsCleared'
  BY <1>36 DEF SeeNoStop
<1>37. ASSUME NEW t \in Threads, ReportRunning(t) PROVE CommittingIsCleared'
  BY <1>37 DEF ReportRunning
<1>38. CASE UNCHANGED vars
  BY <1>38
<1> QED BY <1>1, <1>2, <1>3, <1>4, <1>5, <1>6, <1>7, <1>8, <1>9, <1>10, <1>11,
           <1>12, <1>13, <1>14, <1>15, <1>16, <1>17, <1>18, <1>19, <1>20, <1>21,
           <1>22, <1>23, <1>24, <1>25, <1>26, <1>27, <1>28, <1>29, <1>30, <1>31,
           <1>32, <1>33, <1>34, <1>35, <1>36, <1>37, <1>38
           DEF Next, ServiceStep, PrepareStep, HandlerStep, Outside, DropStep,
           WorkerStep, Threads

\* A stop is handed on until the event is signalled.
LEMMA StopStep == TypeInv /\ HeldInv /\ PrepareInv /\ CommittingIsCleared /\ StopInv /\ [Next]_vars => StopInv'
<1> SUFFICES ASSUME TypeInv, HeldInv, PrepareInv, CommittingIsCleared, StopInv, [Next]_vars PROVE StopInv'
  OBVIOUS
<1> USE ServiceConstants DEF TypeInv, Threads, Final, Mains, NoJob, PreparedJob,
        Jobs, None, Service, HeldInv, PrepareInv, CommittingIsCleared, StopInv,
        Serving, Busy, flags, events, jobs, workers, vars
<1>1. CASE LoadServiceState
  BY <1>1 DEF LoadServiceState
<1>2. CASE StartPipeServerFails
  BY <1>2 DEF StartPipeServerFails
<1>3. CASE JoinPrepare
  BY <1>3 DEF JoinPrepare
<1>4. CASE EndProcess
  BY <1>4 DEF EndProcess, Exit
<1>5. CASE LoopTop
  BY <1>5 DEF LoopTop
<1>6. CASE TakeStop
  BY <1>6 DEF TakeStop, Waiting
<1>7. CASE TakeIdle
  BY <1>7 DEF TakeIdle, Waiting
<1>8. CASE TakeWake
  BY <1>8 DEF TakeWake, FinishPrepare, Respond
<1>9. CASE SetCommitting
  BY <1>9 DEF SetCommitting
<1>10. ASSUME NEW w \in Workers, SpawnCommit(w) PROVE StopInv'
  BY <1>10 DEF SpawnCommit, Respond
<1>11. CASE SpawnCommitFails
  BY <1>11 DEF SpawnCommitFails, Respond
<1>12. CASE SetCommittingForRegistry
  BY <1>12 DEF SetCommittingForRegistry
<1>13. CASE RegistryApplied
  BY <1>13 DEF RegistryApplied
<1>14. CASE AnswerRegistrySet
  BY <1>14 DEF AnswerRegistrySet, Respond
<1>15. ASSUME NEW s \in Slots, AnswerStartupFailure(s) PROVE StopInv'
  BY <1>15 DEF AnswerStartupFailure, Respond, NextRequest
<1>16. ASSUME NEW s \in Slots, Answer(s) PROVE StopInv'
  BY <1>16, RefreshedJob, ForgottenJob DEF Answer, Respond, NextRequest
<1>17. ASSUME NEW s \in Slots, RefuseNewJob(s) PROVE StopInv'
  BY <1>17, RefreshedJob, ForgottenJob DEF RefuseNewJob, Respond, Forget, NextRequest
<1>18. ASSUME NEW s \in Slots, SpawnPrepare(s) PROVE StopInv'
  BY <1>18, RefreshedJob, ForgottenJob DEF SpawnPrepare, Forget, NextRequest
<1>19. ASSUME NEW s \in Slots, CheckCommit(s) PROVE StopInv'
  BY <1>19 DEF CheckCommit, NextRequest
<1>20. ASSUME NEW s \in Slots, StartRegistrySet(s) PROVE StopInv'
  BY <1>20, RefreshedJob, ForgottenJob DEF StartRegistrySet, Forget, NextRequest
<1>21. CASE SendPrepared
  BY <1>21 DEF SendPrepared
<1>22. CASE SignalWake
  BY <1>22 DEF SignalWake
<1>23. CASE RequestStop
  BY <1>23 DEF RequestStop
<1>24. CASE LeaveStopToCommit
  BY <1>24 DEF LeaveStopToCommit
<1>25. CASE HandleStop
  BY <1>25 DEF HandleStop
<1>26. CASE HandlerSignals
  BY <1>26 DEF HandlerSignals
<1>27. CASE Start
  BY <1>27 DEF Start
<1>28. CASE Crash
  BY <1>28 DEF Crash, Exit
<1>29. CASE PipeFails
  BY <1>29 DEF PipeFails, Waiting
<1>30. CASE ControlStop
  BY <1>30 DEF ControlStop
<1>31. ASSUME NEW s \in Slots, ClientSends(s) PROVE StopInv'
  BY <1>31 DEF ClientSends, Waiting
<1>32. ASSUME NEW w \in Workers, SendResult(w) PROVE StopInv'
  BY <1>32 DEF SendResult
<1>33. ASSUME NEW t \in Threads, ClearCommitting(t) PROVE StopInv'
  BY <1>33 DEF ClearCommitting
<1>34. ASSUME NEW t \in Threads, SeeStop(t) PROVE StopInv'
  BY <1>34 DEF SeeStop
<1>35. ASSUME NEW t \in Threads, SignalStop(t) PROVE StopInv'
  BY <1>35 DEF SignalStop
<1>36. ASSUME NEW t \in Threads, SeeNoStop(t) PROVE StopInv'
  BY <1>36 DEF SeeNoStop
<1>37. ASSUME NEW t \in Threads, ReportRunning(t) PROVE StopInv'
  BY <1>37 DEF ReportRunning
<1>38. CASE UNCHANGED vars
  BY <1>38
<1> QED BY <1>1, <1>2, <1>3, <1>4, <1>5, <1>6, <1>7, <1>8, <1>9, <1>10, <1>11,
           <1>12, <1>13, <1>14, <1>15, <1>16, <1>17, <1>18, <1>19, <1>20, <1>21,
           <1>22, <1>23, <1>24, <1>25, <1>26, <1>27, <1>28, <1>29, <1>30, <1>31,
           <1>32, <1>33, <1>34, <1>35, <1>36, <1>37, <1>38
           DEF Next, ServiceStep, PrepareStep, HandlerStep, Outside, DropStep,
           WorkerStep, Threads

-----------------------------------------------------------------------------
(* What follows                                                            *)

LEMMA Initially == Init => IInv
<1> SUFFICES ASSUME Init PROVE IInv
  OBVIOUS
<1> USE ServiceConstants DEF Init, Threads, NoJob, None, Service
<1>1. TypeInv
  BY DEF TypeInv, Mains, Jobs
<1>2. HeldInv /\ PrepareInv
  BY DEF HeldInv, PrepareInv, Serving, Busy
<1>3. WorkerInv
  BY DEF WorkerInv, Final
<1>4. CommittingIsCleared /\ StopInv
  BY DEF CommittingIsCleared, StopInv
<1> QED BY <1>1, <1>2, <1>3, <1>4 DEF IInv

LEMMA Invariance == Spec => []IInv
<1>1. IInv /\ [Next]_vars => IInv'
  BY TypeStep, HeldStep, PrepareStepKeeps, WorkerStepKeeps, CommittingStep, StopStep DEF IInv
<1> QED BY <1>1, Initially, PTL DEF Spec

\* A set in which any two elements are equal has at most one.
LEMMA AtMostOne ==
    ASSUME NEW S, \A x, y \in S : x = y
    PROVE  Cardinality(S) <= 1
<1>1. CASE S = {}
  BY <1>1, FS_EmptySet
<1>2. CASE S # {}
  <2>1. PICK x \in S : TRUE
    BY <1>2
  <2>2. S = {x}
    BY <2>1
  <2> QED BY <2>2, FS_Singleton
<1> QED BY <1>1, <1>2

\* commit_file_set, prepare_file_set and registry sets never overlap, for any
\* number of clients and workers.
THEOREM OneMutationHolds == Spec => []OneMutation
<1>1. IInv => OneMutation
  <2> SUFFICES ASSUME IInv PROVE OneMutation
    OBVIOUS
  <2> USE DEF IInv, TypeInv, HeldInv, PrepareInv, WorkerInv, Serving, Busy
  <2> DEFINE Running == {t \in Threads : commit[t] = "running"}
             Held == {s \in Slots : phase[s] = "held"}
  <2>1. \A t, u \in Running : t = u
    BY ServiceConstants DEF Threads, NoJob, Final
  <2>2. \A s, t \in Held : s = t
    OBVIOUS
  <2>3. Cardinality(Running) <= 1 /\ Cardinality(Held) <= 1
    <3> HIDE DEF Running, Held
    <3> QED BY <2>1, <2>2, AtMostOne
  <2>4. prepare = "running" =>
           /\ preparing # None /\ main \notin {"registry", "commit", "spawn"}
           /\ \A t \in Threads : commit[t] # "running"
    BY DEF Threads, NoJob, None
  <2> QED BY <2>3, <2>4 DEF OneMutation
<1> QED BY <1>1, Invariance, PTL

\* No final state is told of a job whose worker has not sent it.
THEOREM StatusFinalHolds == Spec => []StatusFinal
<1>1. IInv => StatusFinal
  <2> SUFFICES ASSUME IInv, active.state \in Final PROVE StatusFinal
    BY DEF StatusFinal
  <2>1. active.worker \in Workers /\ active.state = result[active.worker]
    BY DEF IInv, TypeInv, WorkerInv, Jobs, NoJob, PreparedJob, Final, None
  <2>2. commit[active.worker] # "running"
    BY <2>1 DEF IInv, WorkerInv, Final
  <2> QED BY <2>1, <2>2 DEF StatusFinal
<1> QED BY <1>1, Invariance, PTL

\* COMMITTING is never left set without somebody who will clear it.
THEOREM CommittingIsClearedHolds == Spec => []CommittingIsCleared
<1>1. IInv => CommittingIsCleared
  BY DEF IInv
<1> QED BY <1>1, Invariance, PTL

\* A stop that meets a commit is signalled by the handler or by the commit.
THEOREM StopNotLostHolds == Spec => []StopNotLost
<1>1. IInv => StopNotLost
  BY DEF IInv, StopInv, StopNotLost, None
<1> QED BY <1>1, Invariance, PTL
=============================================================================
