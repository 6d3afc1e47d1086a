----------------------------- MODULE ServiceLoop -----------------------------
(***************************************************************************)
(* The threads of the maintenance service (src/src/windows.rs): the        *)
(* service thread that runs service_loop, the prepare worker, the commit   *)
(* workers and the control handler that the service manager calls.  They   *)
(* share two flags, a stop and a wake event, and the last reported status. *)
(*                                                                         *)
(* A request is abstracted to what it makes the service thread do, a pipe  *)
(* instance to its phase.  What prepare_file_set and commit_file_set do to *)
(* the files is FileTransaction; here they only succeed or fail.           *)
(***************************************************************************)
EXTENDS Naturals, FiniteSets

CONSTANTS
    Slots,      \* the instances of the pipe
    Workers,    \* commit workers: how many may exist at the same time
    MayStop     \* whether the service manager may ask the service to stop

None == "none"
Service == "service"   \* the service thread, where it has a CommitActivity

ASSUME ServiceConstants ==
    /\ Slots # {} /\ Workers # {} /\ {None, Service} \cap (Slots \cup Workers) = {}
    /\ IsFiniteSet(Slots) /\ IsFiniteSet(Workers) /\ MayStop \in BOOLEAN

VARIABLES
    \* the service thread
    main,       \* where it is
    slot,       \* the pipe instance whose request it is processing
    phase,      \* the phase of every pipe instance
    active,     \* active_job: its state and the commit worker it waits for
    preparing,  \* PrepareInFlight: the pipe instance whose job is prepared
    \* the other threads
    prepare,    \* the prepare worker
    commit,     \* every commit worker, and the CommitActivity of a registry set
    result,     \* what every commit worker sent last
    handler,    \* service_control_handler
    \* shared
    stopRequested, committing,  \* STOP_REQUESTED and COMMITTING
    stopEvent, wakeEvent,       \* whether the events are signalled
    accepts                     \* whether the reported status accepts a stop

flags == <<stopRequested, committing>>
events == <<stopEvent, wakeEvent>>
jobs == <<active, preparing>>
workers == <<prepare, commit, result>>
vars == <<main, slot, phase, jobs, workers, handler, flags, events, accepts>>

Threads == Workers \cup {Service}
Final == {"committed", "rolledBack", "failed"}
NoJob == [state |-> None, worker |-> None]
PreparedJob == [state |-> "prepared", worker |-> None]

Init ==
    /\ main = "down" /\ slot = None /\ phase = [s \in Slots |-> "listening"]
    /\ active = NoJob /\ preparing = None
    /\ prepare = None /\ commit = [t \in Threads |-> None]
    /\ result = [w \in Workers |-> None]
    /\ handler = None /\ accepts = FALSE
    /\ stopRequested = FALSE /\ committing = FALSE
    /\ stopEvent = FALSE /\ wakeEvent = FALSE

-----------------------------------------------------------------------------
(* service_loop: start and end *)

Start ==
    /\ main = "down"
    /\ main' = "load"
    /\ stopRequested' = FALSE /\ committing' = FALSE
    /\ stopEvent' = FALSE /\ wakeEvent' = FALSE
    /\ UNCHANGED <<slot, phase, jobs, workers, handler, accepts>>

\* load_service_state succeeded, or its error will be the answer to every
\* request; either way the pipe server is created and Running reported.
LoadServiceState ==
    /\ main = "load"
    /\ main' \in {"top", "failing"}
    /\ accepts' = TRUE
    /\ UNCHANGED <<slot, phase, jobs, workers, handler, flags, events>>

StartPipeServerFails ==
    /\ main = "load"
    /\ main' = "closed"
    /\ UNCHANGED <<slot, phase, jobs, workers, handler, flags, events, accepts>>

\* After the loop the prepare worker is joined, the pipe server dropped,
\* STOP_EVENT cleared and the event closed.
JoinPrepare ==
    /\ main \in {"leave", "abort"} /\ prepare \in {None, "done"}
    /\ main' = "closed" /\ preparing' = None
    /\ UNCHANGED <<slot, phase, active, workers, handler, flags, events, accepts>>

\* The process ends, with all its threads and pipe instances.
Exit ==
    /\ main' = "down" /\ slot' = None /\ phase' = [s \in Slots |-> "listening"]
    /\ active' = NoJob /\ preparing' = None
    /\ prepare' = None /\ commit' = [t \in Threads |-> None]
    /\ result' = [w \in Workers |-> None]
    /\ handler' = None /\ accepts' = FALSE
    /\ stopRequested' = FALSE /\ committing' = FALSE
    /\ stopEvent' = FALSE /\ wakeEvent' = FALSE

\* service_main reports Stopped and the dispatcher returns.
EndProcess == main = "closed" /\ Exit

\* The process is killed, or a panic aborts it.
Crash == main \notin {"down", "closed"} /\ Exit

-----------------------------------------------------------------------------
(* serve_requests and PipeServer::next_event *)

\* The flags are read one after the other, but only this thread sets
\* COMMITTING and nobody clears STOP_REQUESTED: one step shows the same.
LoopTop ==
    /\ main = "top"
    /\ main' = IF stopRequested /\ ~committing /\ preparing = None
               THEN "leave" ELSE "wait"
    /\ UNCHANGED <<slot, phase, jobs, workers, handler, flags, events, accepts>>

Waiting == main \in {"wait", "failing"}
NoneReady == \A s \in Slots : phase[s] # "ready"

\* A client connects to a listening instance and sends its request.
ClientSends(s) ==
    /\ Waiting /\ phase[s] = "listening"
    /\ phase' = [phase EXCEPT ![s] = "sent"]
    /\ UNCHANGED <<main, slot, jobs, workers, handler, flags, events, accepts>>

\* next_event returns queued requests first, then the events in their order.
NextRequest(s) ==
    \/ phase[s] = "ready"
    \/ phase[s] = "sent" /\ NoneReady /\ ~stopEvent /\ ~wakeEvent

TakeStop ==
    /\ Waiting /\ NoneReady /\ stopEvent
    /\ main' = IF main = "wait" THEN "leave" ELSE "closed"
    /\ UNCHANGED <<slot, phase, jobs, workers, handler, flags, events, accepts>>

TakeIdle ==
    /\ Waiting /\ ~stopEvent /\ ~wakeEvent
    /\ \A s \in Slots : phase[s] = "listening"
    /\ main' = CASE main = "failing"                  -> "closed"
                 [] committing \/ preparing # None    -> "top"
                 [] OTHER                             -> "leave"
    /\ UNCHANGED <<slot, phase, jobs, workers, handler, flags, events, accepts>>

\* next_event or respond returns an error.
PipeFails ==
    /\ Waiting
    /\ main' = IF main = "wait" THEN "abort" ELSE "closed"
    /\ UNCHANGED <<slot, phase, jobs, workers, handler, flags, events, accepts>>

\* The answer is written, or lost with its client; the instance listens
\* again, and the next client may have connected and sent already.
Respond(s) ==
    \E p \in {"listening", "ready"} : phase' = [phase EXCEPT ![s] = p]

\* serve_startup_failure answers every request with the startup error.
AnswerStartupFailure(s) ==
    /\ main = "failing" /\ NextRequest(s)
    /\ Respond(s)
    /\ UNCHANGED <<main, slot, jobs, workers, handler, flags, events, accepts>>

-----------------------------------------------------------------------------
(* process_request *)

\* Mutant: an empty channel is taken for a worker that is gone.
RefreshedTooEarly ==
    IF active.state # "committing" THEN active
    ELSE [active EXCEPT !.state = IF commit[active.worker] = "running" THEN "failed"
                                  ELSE result[active.worker]]

\* refresh_active_job: the commit worker's result, once it was sent.
Refreshed ==
    IF active.state = "committing" /\ result[active.worker] # None
    THEN [active EXCEPT !.state = result[active.worker]]
    ELSE active

\* A prepare and a registry set forget a completed job first.
Forgotten == IF Refreshed.state \in Final THEN NoJob ELSE Refreshed

\* A job that is forgotten takes the result of its worker with it.
Forget ==
    /\ active' = Forgotten
    /\ result' = IF Forgotten = NoJob THEN [w \in Workers |-> None] ELSE result

\* A query, a registration, or a request that is refused: by authorization, by
\* the state of the active job, or, before active_job is refreshed, because a
\* job is being prepared or the message cannot be decoded.
Answer(s) ==
    /\ main = "wait" /\ NextRequest(s)
    /\ active' \in {active, Refreshed}
    /\ Respond(s)
    /\ main' = "top"
    /\ UNCHANGED <<slot, preparing, workers, handler, flags, events, accepts>>

\* A prepare or a registry set that is refused for an active job or its
\* manifest, or whose worker cannot be started.
RefuseNewJob(s) ==
    /\ main = "wait" /\ NextRequest(s) /\ preparing = None
    /\ Forget
    /\ Respond(s)
    /\ main' = "top"
    /\ UNCHANGED <<slot, preparing, prepare, commit, handler, flags, events, accepts>>

\* Mutant: a mutation is not refused while a job is being prepared.
PrepareTwice(s) ==
    /\ main = "wait" /\ NextRequest(s)
    /\ Forgotten = NoJob /\ Forget
    /\ preparing' = s /\ prepare' = "running"
    /\ phase' = [phase EXCEPT ![s] = "held"]
    /\ main' = "top"
    /\ UNCHANGED <<slot, commit, handler, flags, events, accepts>>

SpawnPrepare(s) ==
    /\ main = "wait" /\ NextRequest(s) /\ preparing = None
    /\ Forgotten = NoJob /\ Forget
    /\ preparing' = s /\ prepare' = "running"
    /\ phase' = [phase EXCEPT ![s] = "held"]
    /\ main' = "top"
    /\ UNCHANGED <<slot, commit, handler, flags, events, accepts>>

\* CommitJob: the job is prepared and no stop was requested when it was read.
CheckCommit(s) ==
    /\ main = "wait" /\ NextRequest(s) /\ preparing = None
    /\ active = PreparedJob /\ ~stopRequested
    /\ slot' = s /\ phase' = [phase EXCEPT ![s] = "held"]
    /\ main' = "commit"
    /\ UNCHANGED <<jobs, workers, handler, flags, events, accepts>>

\* COMMITTING is set, then a Running that accepts no stop is reported.
SetCommitting ==
    /\ main = "commit"
    /\ committing' = TRUE /\ accepts' = FALSE
    /\ main' = "spawn"
    /\ UNCHANGED <<slot, phase, jobs, workers, handler, stopRequested, events>>

\* Which of the workers that may still exist it is makes no difference.
SpawnCommit(w) ==
    /\ main = "spawn" /\ commit[w] = None
    /\ w = CHOOSE free \in Workers : commit[free] = None
    /\ commit' = [commit EXCEPT ![w] = "running"]
    /\ result' = [result EXCEPT ![w] = None]
    /\ active' = [state |-> "committing", worker |-> w]
    /\ Respond(slot) /\ slot' = None
    /\ main' = "top"
    /\ UNCHANGED <<preparing, prepare, handler, flags, events, accepts>>

\* Mutant: the flag stays set when no worker was started.
SpawnFailsFlagged ==
    /\ main = "spawn"
    /\ accepts' = TRUE
    /\ Respond(slot) /\ slot' = None
    /\ main' = "top"
    /\ UNCHANGED <<jobs, workers, handler, flags, events>>

SpawnCommitFails ==
    /\ main = "spawn"
    /\ committing' = FALSE /\ accepts' = TRUE
    /\ Respond(slot) /\ slot' = None
    /\ main' = "top"
    /\ UNCHANGED <<jobs, workers, handler, stopRequested, events>>

\* ApplyRegistrySet: the journal is written before COMMITTING is set ...
StartRegistrySet(s) ==
    /\ main = "wait" /\ NextRequest(s) /\ preparing = None
    /\ Forgotten = NoJob /\ Forget /\ ~stopRequested
    /\ slot' = s /\ phase' = [phase EXCEPT ![s] = "held"]
    /\ main' = "registry"
    /\ UNCHANGED <<preparing, prepare, commit, handler, flags, events, accepts>>

SetCommittingForRegistry ==
    /\ main = "registry" /\ commit[Service] = None
    /\ committing' = TRUE
    /\ commit' = [commit EXCEPT ![Service] = "running"]
    /\ UNCHANGED <<main, slot, phase, jobs, prepare, result, handler,
                   stopRequested, events, accepts>>

\* ... and the answer is written after its CommitActivity was dropped.
RegistryApplied ==
    /\ main = "registry" /\ commit[Service] = "running"
    /\ commit' = [commit EXCEPT ![Service] = "sent"]
    /\ main' = "registry_done"
    /\ UNCHANGED <<slot, phase, jobs, prepare, result, handler, flags, events, accepts>>

AnswerRegistrySet ==
    /\ main = "registry_done" /\ commit[Service] = None
    /\ Respond(slot) /\ slot' = None
    /\ main' = "top"
    /\ UNCHANGED <<jobs, workers, handler, flags, events, accepts>>

-----------------------------------------------------------------------------
(* spawn_prepare and finish_prepare *)

\* The worker sends its result and signals the wake event afterwards.
SendPrepared ==
    /\ prepare = "running"
    /\ prepare' = "sent"
    /\ UNCHANGED <<main, slot, phase, jobs, commit, result, handler, flags, events, accepts>>

\* Mutant: the worker ends without a signal.
EndSilently ==
    /\ prepare = "sent"
    /\ prepare' = "done"
    /\ UNCHANGED <<main, slot, phase, jobs, commit, result, handler, flags, events, accepts>>

SignalWake ==
    /\ prepare = "sent"
    /\ prepare' = "done"
    /\ wakeEvent' = TRUE
    /\ UNCHANGED <<main, slot, phase, jobs, commit, result, handler, flags, stopEvent, accepts>>

\* The job was prepared and its generation saved, or one of them failed.
FinishPrepare ==
    /\ prepare = "done" /\ prepare' = None
    /\ preparing' = None
    /\ active' \in {PreparedJob, active}
    /\ Respond(preparing)

\* The event resets itself; a worker without a result stays in flight.
TakeWake ==
    /\ main = "wait" /\ NoneReady /\ ~stopEvent /\ wakeEvent
    /\ wakeEvent' = FALSE
    /\ main' = "top"
    /\ IF preparing = None \/ prepare = "running"
       THEN UNCHANGED <<phase, jobs, prepare>>
       ELSE FinishPrepare
    /\ UNCHANGED <<slot, commit, result, handler, flags, stopEvent, accepts>>

-----------------------------------------------------------------------------
(* The commit worker and CommitActivity::drop *)

\* commit_file_set returns and its result is sent.
SendResult(w) ==
    /\ commit[w] = "running"
    /\ commit' = [commit EXCEPT ![w] = "sent"]
    /\ \E r \in Final : result' = [result EXCEPT ![w] = r]
    /\ UNCHANGED <<main, slot, phase, jobs, prepare, handler, flags, events, accepts>>

ClearCommitting(t) ==
    /\ commit[t] = "sent"
    /\ committing' = FALSE
    /\ commit' = [commit EXCEPT ![t] = "look"]
    /\ UNCHANGED <<main, slot, phase, jobs, prepare, result, handler,
                   stopRequested, events, accepts>>

\* A stop was requested meanwhile: report a pending stop and load STOP_EVENT.
SeeStop(t) ==
    /\ commit[t] = "look" /\ stopRequested
    /\ accepts' = FALSE
    /\ commit' = [commit EXCEPT ![t] = IF main = "closed" THEN None ELSE "signal"]
    /\ UNCHANGED <<main, slot, phase, jobs, prepare, result, handler, flags, events>>

\* Mutant: the stop that was requested during the commit is left to the handler.
DropWithoutSignal(t) ==
    /\ commit[t] = "signal"
    /\ commit' = [commit EXCEPT ![t] = None]
    /\ UNCHANGED <<main, slot, phase, jobs, prepare, result, handler, flags, events, accepts>>

SignalStop(t) ==
    /\ commit[t] = "signal"
    /\ stopEvent' = TRUE
    /\ commit' = [commit EXCEPT ![t] = None]
    /\ UNCHANGED <<main, slot, phase, jobs, prepare, result, handler, flags,
                   wakeEvent, accepts>>

SeeNoStop(t) ==
    /\ commit[t] = "look" /\ ~stopRequested
    /\ commit' = [commit EXCEPT ![t] = "report"]
    /\ UNCHANGED <<main, slot, phase, jobs, prepare, result, handler, flags, events, accepts>>

ReportRunning(t) ==
    /\ commit[t] = "report"
    /\ accepts' = TRUE
    /\ commit' = [commit EXCEPT ![t] = None]
    /\ UNCHANGED <<main, slot, phase, jobs, prepare, result, handler, flags, events>>

-----------------------------------------------------------------------------
(* service_control_handler *)

ControlStop ==
    /\ MayStop /\ accepts /\ handler = None
    /\ handler' = "called"
    /\ UNCHANGED <<main, slot, phase, jobs, workers, flags, events, accepts>>

RequestStop ==
    /\ handler = "called"
    /\ stopRequested' = TRUE
    /\ handler' = "look"
    /\ UNCHANGED <<main, slot, phase, jobs, workers, committing, events, accepts>>

\* COMMITTING is set: whoever clears it will signal the stop.
LeaveStopToCommit ==
    /\ handler = "look" /\ committing
    /\ handler' = None
    /\ UNCHANGED <<main, slot, phase, jobs, workers, flags, events, accepts>>

HandleStop ==
    /\ handler = "look" /\ ~committing
    /\ accepts' = FALSE
    /\ handler' = IF main = "closed" THEN None ELSE "signal"
    /\ UNCHANGED <<main, slot, phase, jobs, workers, flags, events>>

HandlerSignals ==
    /\ handler = "signal"
    /\ stopEvent' = TRUE
    /\ handler' = None
    /\ UNCHANGED <<main, slot, phase, jobs, workers, flags, wakeEvent, accepts>>

-----------------------------------------------------------------------------
ServiceStep ==
    \/ LoadServiceState \/ StartPipeServerFails \/ JoinPrepare \/ EndProcess
    \/ LoopTop \/ TakeStop \/ TakeIdle \/ TakeWake
    \/ SetCommitting \/ (\E w \in Workers : SpawnCommit(w)) \/ SpawnCommitFails
    \/ SetCommittingForRegistry \/ RegistryApplied \/ AnswerRegistrySet
    \/ \E s \in Slots : \/ AnswerStartupFailure(s) \/ Answer(s) \/ RefuseNewJob(s)
                        \/ SpawnPrepare(s) \/ CheckCommit(s) \/ StartRegistrySet(s)

PrepareStep == SendPrepared \/ SignalWake

DropStep(t) ==
    ClearCommitting(t) \/ SeeStop(t) \/ SignalStop(t) \/ SeeNoStop(t) \/ ReportRunning(t)

WorkerStep(w) == SendResult(w) \/ DropStep(w)

HandlerStep == RequestStop \/ LeaveStopToCommit \/ HandleStop \/ HandlerSignals

Outside ==
    \/ Start \/ Crash \/ PipeFails \/ ControlStop
    \/ \E s \in Slots : ClientSends(s)

Next ==
    \/ ServiceStep \/ PrepareStep \/ HandlerStep \/ Outside
    \/ DropStep(Service) \/ \E w \in Workers : WorkerStep(w)

Spec == Init /\ [][Next]_vars

\* Every thread that can go on does so: the operating system schedules them
\* all, and prepare_file_set, commit_file_set and the registry calls return.
FairSpec ==
    /\ Spec
    /\ WF_vars(ServiceStep) /\ WF_vars(PrepareStep) /\ WF_vars(HandlerStep)
    /\ WF_vars(DropStep(Service)) /\ \A w \in Workers : WF_vars(WorkerStep(w))

-----------------------------------------------------------------------------
\* One mutation at a time: commit_file_set, prepare_file_set and a registry
\* set never overlap, whatever is requested while a worker runs.
OneMutation ==
    /\ Cardinality({t \in Threads : commit[t] = "running"}) <= 1
    /\ prepare = "running" =>
           /\ preparing # None /\ main \notin {"registry", "commit", "spawn"}
           /\ \A t \in Threads : commit[t] # "running"
    /\ Cardinality({s \in Slots : phase[s] = "held"}) <= 1

\* A final state is told of a job only after its worker sent that result.
StatusFinal ==
    active.state \in Final =>
        commit[active.worker] # "running" /\ active.state = result[active.worker]

\* COMMITTING, which keeps the service from stopping and from idling out, is
\* never left set without somebody who will clear it.
CommittingIsCleared ==
    committing => \/ main = "spawn"
                  \/ \E t \in Threads : commit[t] \in {"running", "sent"}

\* A stop is never left to the idle timeout: whoever misses the other's flag,
\* the handler or CommitActivity::drop, the event ends up signalled.
StopNotLost ==
    /\ main = "wait" /\ stopRequested /\ handler = None
    /\ \A t \in Threads : commit[t] = None
    => stopEvent

\* A requested stop always stops the service, also when it meets the start or
\* the end of a commit, unless requests are found queued forever.
StopIsHonoured == <>[]NoneReady => (stopRequested ~> main = "down")

\* A prepared job is always answered for, or the service ends.
PrepareIsAnswered == <>[]NoneReady => (prepare = "running" ~> preparing = None)

\* "the service keeps answering status requests instead of exiting under the
\* commit worker" (serve_requests).
NoExitUnderCommit == main = "leave" => \A w \in Workers : commit[w] # "running"
=============================================================================
