--------------------------- MODULE ClientUpdate ---------------------------
(***************************************************************************)
(* wait-commit-restart of src/src/bin/client.rs, a helper process that     *)
(* commits a prepared job of the service once the Launcher has exited, and *)
(* starts the Launcher again when that is safe.  It is composed with the   *)
(* pipe server, the service's handling of the job, and another client that *)
(* asks for a prepare of its own.                                          *)
(*                                                                         *)
(* What a commit does to the files is FileTransaction: here they are old,  *)
(* mixed or new.  Call 0 is the other client's; calls 1.. are the helper's *)
(* in their order, and their number bounds how often it polls.             *)
(***************************************************************************)
EXTENDS PipeServer

CONSTANT
    MaxKeepAlive  \* the bound on calls made before the Launcher has exited

ASSUME ClientOK ==
    IsFiniteSet(Call) /\ Call = 0..(Cardinality(Call) - 1) /\ MaxKeepAlive + 2 \in Call

VARIABLES
    step,       \* where the helper is
    mine,       \* its last call
    commitCall, \* the call that sends CommitJob; 0 before it is made
    lost,       \* the answer to CommitJob was an error
    reply,      \* what the service wrote as answer to the last call
    launcher,   \* the Launcher process
    up,         \* the service process runs
    job,        \* the active job, as the service thread knows it
    worker,     \* the commit worker and its result
    files       \* the files of the Launcher

client == <<step, mine, commitCall, lost, launcher>>
service == <<up, job, worker, files>>
vars == <<pipeVars, client, reply, service>>

Ended == {"refused", "withheld", "updated", "original"}

Init ==
    /\ Listening
    /\ step = "handoff" /\ mine = 0 /\ commitCall = 0 /\ lost = FALSE
    /\ reply = "rejected" /\ launcher = "running"
    /\ up = TRUE /\ job = "prepared" /\ worker = "none" /\ files = "old"

-----------------------------------------------------------------------------
(* Calls of the helper: call_checked *)

IsOver(c) == call[c] \in {"answered", "dropped", "gone", "gaveUp"}
MayCall == mine = 0 \/ IsOver(mine)

\* A rejected, lost or late answer is an error.
Result ==
    IF call[mine] = "answered" /\ reply # "rejected" THEN reply ELSE "error"

\* The next call is made, on the way to step s.
Ask(s) ==
    /\ MayCall /\ mine + 1 \in Call
    /\ mine' = mine + 1 /\ step' = s /\ reply' = "rejected"
    /\ UNCHANGED <<lost, launcher, pipeVars, service>>

\* The service cannot be started or its pipe does not become ready in time.
CannotOpen(c) ==
    /\ call[c] = "new"
    /\ call' = [call EXCEPT ![c] = "gone"]
    /\ UNCHANGED server

\* open_verified_client, transact_pipe_message and their time-outs.
ClientCall(c) ==
    /\ \/ up /\ \E s \in Slot : Connect(c, s)
       \/ Send(c) \/ GiveUp(c) \/ CannotOpen(c)
    /\ UNCHANGED <<client, reply, service>>

HelperCalls == mine # 0 /\ ClientCall(mine)

-----------------------------------------------------------------------------
(* wait-commit-restart *)

Goto(s) ==
    /\ step' = s
    /\ UNCHANGED <<mine, commitCall, lost, launcher, reply, pipeVars, service>>

\* restart_launcher; it may fail.
Restart(s) ==
    /\ launcher' \in {"restarted", launcher} /\ step' = s
    /\ UNCHANGED <<mine, commitCall, lost, reply, pipeVars, service>>

AskStatus(s) == Ask(s) /\ UNCHANGED commitCall

AskHandoff == step = "handoff" /\ mine = 0 /\ AskStatus("handoff")

\* The Launcher is told that the helper is ready only for a prepared job.
Handoff ==
    /\ step = "handoff" /\ mine # 0 /\ MayCall
    /\ Goto(IF Result = "prepared" THEN "waiting" ELSE "refused")

KeepAlive ==
    /\ step = "waiting" /\ launcher = "running" /\ mine < MaxKeepAlive
    /\ AskStatus("waiting")

LauncherStays == step = "waiting" /\ launcher = "running" /\ MayCall /\ Goto("refused")

AskCheck == step = "waiting" /\ launcher # "running" /\ AskStatus("check")

\* Before the commit was sent, an error makes the old Launcher start again.
Check ==
    /\ step = "check" /\ MayCall
    /\ CASE Result = "error" -> Restart("original")
         [] Result = "prepared" -> Goto("commit")
         [] OTHER -> Goto("judge")

\* commit_after_launcher_exit: CommitJob is sent once.
AskCommit == step = "commit" /\ Ask("judge") /\ commitCall' = mine + 1

-----------------------------------------------------------------------------
(* wait_for_job_completion_with *)

\* Mutant: any answer to the commit will do.
JudgeEarly ==
    /\ step = "judge" /\ MayCall
    /\ CASE Result \in {"committed", "committing"} -> Restart("updated")
         [] Result \in {"rolledBack", "prepared"} -> Restart("original")
         [] Result = "failed" -> Goto("withheld")
         [] OTHER -> Goto("wait")

\* Mutant: an incomplete recovery counts as a rollback.
JudgeFailedAsRolledBack ==
    /\ step = "judge" /\ MayCall
    /\ CASE Result = "committed" -> Restart("updated")
         [] Result \in {"rolledBack", "failed"} -> Restart("original")
         [] OTHER -> Goto("wait")

\* The Launcher is started after a final and safe answer.  The only error of a
\* failed job is an incomplete recovery (refresh_active_job).
Judge ==
    /\ step = "judge" /\ MayCall /\ Result # "error"
    /\ CASE Result = "committed" -> Restart("updated")
         [] Result = "rolledBack" -> Restart("original")
         [] Result = "prepared" /\ lost -> Restart("original")
         [] Result = "failed" -> Goto("withheld")
         [] OTHER -> Goto("wait")

\* An error is no answer; commit_response_failed remembers the one to CommitJob.
Unanswered ==
    /\ step = "judge" /\ MayCall /\ Result = "error"
    /\ step' = "wait" /\ lost' = (lost \/ mine = commitCall)
    /\ UNCHANGED <<mine, commitCall, launcher, reply, pipeVars, service>>

Poll == step = "wait" /\ AskStatus("judge")

\* Mutant: there is no deadline.
NoDeadline == step = "wait" /\ FALSE /\ Goto("withheld")

Deadline == step = "wait" /\ Goto("withheld")

HelperStep ==
    \/ HelperCalls
    \/ AskHandoff \/ Handoff \/ KeepAlive \/ LauncherStays \/ AskCheck \/ Check
    \/ AskCommit \/ Judge \/ Unanswered \/ Poll \/ Deadline

\* The user closes the Launcher, at any time.
LauncherExits ==
    /\ launcher = "running" /\ launcher' = "gone"
    /\ UNCHANGED <<step, mine, commitCall, lost, reply, pipeVars, service>>

-----------------------------------------------------------------------------
(* The service: process_request for this job, the commit worker, restarts *)

\* What the service thread answers, and whether the answer arrives.
Answer(value) ==
    /\ \E written \in BOOLEAN : Respond(written)
    /\ reply' = IF handling.message = mine THEN value ELSE reply
    /\ UNCHANGED <<client, up, files>>

\* refresh_active_job
Refreshed == IF worker \in {"none", "running"} THEN job ELSE worker
Refresh ==
    /\ job' = Refreshed
    /\ worker' = IF worker = "running" THEN worker ELSE "none"

IsHandling(c) == up /\ handling # Nothing /\ handling.message = c

\* A message that cannot be read is rejected, or one whose caller is gone and cannot
\* be told (caller_identity_from_connected_pipe); usually it can, and is served.
ServeNothing ==
    /\ up /\ handling # Nothing
    /\ \/ handling.message = None
       \/ handling.message # None /\ call[handling.message] # "sent"
    /\ IF handling.message = None THEN UNCHANGED <<job, worker>> ELSE Refresh
    /\ Answer("rejected")

\* job_status_response
ServeStatus(c) ==
    /\ IsHandling(c) /\ c \notin {0, commitCall}
    /\ Refresh
    /\ Answer(IF job' = "none" THEN "rejected" ELSE job')

ServeCommit(c) ==
    /\ IsHandling(c) /\ c = commitCall /\ c # 0
    /\ job = "prepared"
    /\ job' = "committing" /\ worker' = "running"
    /\ Answer("committing")

\* The job is not prepared any more, a stop was requested or no thread starts.
RefuseCommit(c) ==
    /\ IsHandling(c) /\ c = commitCall /\ c # 0
    /\ Refresh
    /\ Answer("rejected")

\* Another client's prepare replaces a completed job,
ServePrepare ==
    /\ IsHandling(0) /\ Refreshed \notin {"prepared", "committing"}
    /\ job' = "none" /\ worker' = "none"
    /\ Hold
    /\ UNCHANGED <<client, reply, up, files>>

\* also when it is refused for its manifest, or it is refused for a job that is
\* not completed, or for its caller.
RefusePrepare ==
    /\ IsHandling(0)
    /\ \/ Refresh
       \/ Refreshed \notin {"prepared", "committing"} /\ job' = "none" /\ worker' = "none"
    /\ Answer("rejected")

PrepareEnds ==
    /\ up /\ \E held \in holding, written \in BOOLEAN : RespondHeld(held, written)
    /\ UNCHANGED <<client, reply, service>>

PipeWorks ==
    /\ up
    /\ \/ \E s \in Slot : Complete(s) \/ DeadlinePasses(s)
       \/ TakeReady \/ ExpireReads
    /\ UNCHANGED <<client, reply, service>>

\* commit_file_set begins to change files,
WorkerApplies ==
    /\ worker = "running" /\ files = "old"
    /\ files' = "mixed"
    /\ UNCHANGED <<pipeVars, client, reply, up, job, worker>>

\* and ends: refused before it began, committed, rolled back or left in between.
WorkerEnds ==
    /\ worker = "running"
    /\ \/ worker' = "rolledBack" /\ files' = "old"
       \/ files = "mixed" /\ worker' = "committed" /\ files' = "new"
       \/ files = "mixed" /\ worker' = "failed" /\ UNCHANGED files
    /\ UNCHANGED <<pipeVars, client, reply, up, job>>

\* The process ends: all connections break and the job is forgotten.
ProcessEnds ==
    /\ up /\ up' = FALSE
    /\ phase' = [s \in Slot |-> "Listening"] /\ peer' = [s \in Slot |-> None]
    /\ overdue' = [s \in Slot |-> FALSE]
    /\ ready' = <<>> /\ handling' = Nothing /\ holding' = {}
    /\ call' = [c \in Call |->
                    IF call[c] \in {"connected", "sent"} THEN "dropped" ELSE call[c]]
    /\ job' = "none" /\ worker' = "none"
    /\ UNCHANGED <<client, reply, files>>

Crash == ProcessEnds

\* serve_requests leaves when nothing was asked for a while.
IdleExit == IsIdle /\ worker # "running" /\ ProcessEnds

\* A client starts the service, which recovers unfinished jobs or fails to.  Who
\* connects while it starts is as good as one that connects right after it.
ServiceStarts ==
    /\ ~up /\ up' = TRUE
    /\ files' \in IF files = "mixed" THEN {"old", "mixed"} ELSE {files}
    /\ UNCHANGED <<pipeVars, client, reply, job, worker>>

ServiceStep ==
    \/ ServeNothing \/ \E c \in Call : ServeStatus(c) \/ ServeCommit(c) \/ RefuseCommit(c)
    \/ ServePrepare \/ RefusePrepare \/ PrepareEnds \/ PipeWorks
    \/ WorkerApplies \/ WorkerEnds
    \/ Crash \/ IdleExit \/ ServiceStarts

Next ==
    \/ HelperStep \/ LauncherExits \/ ClientCall(0) \/ ServiceStep

Spec == Init /\ [][Next]_vars

\* The helper runs; nothing is assumed of the Launcher, the service or others.
FairSpec == Spec /\ WF_vars(HelperStep)

-----------------------------------------------------------------------------
\* The helper relied on a status of "prepared", but the commit whose answer it did
\* not wait for is still in its pipe, or was served after that status.
CommitWasPending ==
    step = "original" /\ lost /\ reply = "prepared" /\ call[commitCall] = "gaveUp"

\* "An ambiguous or failed recovery must never execute a possibly incomplete
\* Launcher" (client.rs): a Launcher that runs finds its files complete, unless
\* it was started while a commit that had timed out was pending.
LauncherIsComplete == launcher # "gone" => files # "mixed" \/ CommitWasPending

\* What the helper reports is what the files are, also later, with the same
\* exception.
OutcomeTruthful ==
    /\ step = "updated" => files = "new"
    /\ step = "original" => files = "old" \/ CommitWasPending

\* "The serialized service has explicitly confirmed that the failed Commit never
\* left Prepared. It is safe to reopen the unchanged old executable" (client.rs).
SafeToReopen == step = "original" /\ lost /\ reply = "prepared" => files = "old"

\* The helper ends, whatever the Launcher, the service and other clients do: each
\* of its waits has a deadline.
HelperEnds == <>(step \in Ended)
=============================================================================
