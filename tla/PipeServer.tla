---------------------------- MODULE PipeServer ----------------------------
(***************************************************************************)
(* The pipe server of src/src/windows_pipe.rs: a fixed number of instances *)
(* that listen, read one message, are held while the service thread works  *)
(* on it, and listen again.  Only the service thread runs the server; the  *)
(* clients, which connect, write, wait and give up, are other processes.   *)
(*                                                                         *)
(* A call is a connection of a client; by itself the server meets clients  *)
(* that call again and again.  The stop and wake events, which next_event  *)
(* also waits for, are part of ServiceLoop.  An error of listen ends the   *)
(* service: that is a crash of ClientUpdate.                               *)
(***************************************************************************)
EXTENDS Naturals, Sequences, FiniteSets

CONSTANTS
    Instances,   \* SERVICE_PIPE_INSTANCES
    Call,        \* the connections that clients may make
    None         \* no client, or no message

ASSUME PipeOK == Instances \in Nat \ {0} /\ None \notin Call

Slot == 1..Instances

VARIABLES
    phase,      \* of each instance
    peer,       \* the call that is connected to each instance
    overdue,    \* whether the read deadline of an instance has passed
    ready,      \* messages that were read and not yet returned by next_event
    handling,   \* the slot and message the service thread works on
    holding,    \* slots and messages that are answered later, after a prepare
    call        \* where each call stands, as its client knows it

pipeVars == <<phase, peer, overdue, ready, handling, holding, call>>
server == <<phase, peer, overdue, ready, handling, holding>>

Request == [slot : Slot, message : Call \cup {None}]
Nothing == [slot |-> 0, message |-> None]

\* No instance has a client.
Listening ==
    /\ phase = [s \in Slot |-> "Listening"] /\ peer = [s \in Slot |-> None]
    /\ overdue = [s \in Slot |-> FALSE]
    /\ ready = <<>> /\ handling = Nothing /\ holding = {}
    /\ call = [c \in Call |-> "new"]

\* PipeServer::create: instances can be connected to before they are made to
\* listen, and one whose client has sent its message by then is read at once.
\* They are made to listen in their order, and so are the messages queued.
Created ==
    /\ peer \in [Slot -> Call \cup {None}]
    /\ \A s, t \in Slot : peer[s] = peer[t] /\ peer[s] # None => s = t
    /\ call \in [Call -> {"new", "connected", "sent"}]
    /\ \A c \in Call : call[c] = "new" <=> \A s \in Slot : peer[s] # c
    /\ phase = [s \in Slot |-> IF peer[s] = None THEN "Listening"
                                ELSE IF call[peer[s]] = "sent" THEN "Held" ELSE "Reading"]
    /\ overdue = [s \in Slot |-> FALSE]
    /\ ready \in UNION {[1..n -> Request] : n \in 0..Instances}
    /\ \A i, j \in DOMAIN ready : i < j => ready[i].slot < ready[j].slot
    /\ {ready[i] : i \in DOMAIN ready} = {request \in Request :
           phase[request.slot] = "Held" /\ request.message = peer[request.slot]}
    /\ handling = Nothing /\ holding = {}

-----------------------------------------------------------------------------
(* Clients *)

\* open_verified_client: any listening instance may take the connection.
Connect(c, s) ==
    /\ call[c] = "new" /\ phase[s] = "Listening" /\ peer[s] = None
    /\ peer' = [peer EXCEPT ![s] = c] /\ call' = [call EXCEPT ![c] = "connected"]
    /\ UNCHANGED <<phase, overdue, ready, handling, holding>>

\* transact_pipe_message_with_timeout writes the request,
Send(c) ==
    /\ call[c] = "connected"
    /\ call' = [call EXCEPT ![c] = "sent"]
    /\ UNCHANGED server

\* and may time out before the answer; the message stays where it was written.
GiveUp(c) ==
    /\ call[c] \in {"connected", "sent"}
    /\ call' = [call EXCEPT ![c] = IF @ = "sent" THEN "gaveUp" ELSE "gone"]
    /\ UNCHANGED server

\* A client whose call is over, and whose instance is rid of it, calls again.
CallAgain(c) ==
    /\ call[c] \notin {"new", "connected", "sent"} /\ \A s \in Slot : peer[s] # c
    /\ call' = [call EXCEPT ![c] = "new"]
    /\ UNCHANGED server

-----------------------------------------------------------------------------
(* PipeServer::next_event and Instance::complete *)

\* What the kernel has signalled: a connection, a message, or a closed client.
Signaled(s) ==
    \/ phase[s] = "Listening" /\ peer[s] # None
    \/ phase[s] = "Reading" /\ call[peer[s]] # "connected"

IsWaiting == handling = Nothing /\ ready = <<>>

\* finish_read; a client that closed without a message is a read error.
Message(s) == IF call[peer[s]] \in {"sent", "gaveUp"} THEN peer[s] ELSE None

\* Mutant: any signalled instance is held although nothing was read from it.
HoldSilent(s) ==
    /\ IsWaiting /\ Signaled(s)
    /\ phase' = [phase EXCEPT ![s] = "Held"]
    /\ UNCHANGED <<ready, overdue, peer, handling, holding, call>>

\* One wait: of the signalled instances the one with the lowest number is
\* served; a connection is read from at once, or waited on until its deadline.
Complete(s) ==
    /\ IsWaiting /\ Signaled(s) /\ \A t \in 1..(s - 1) : ~Signaled(t)
    /\ IF call[peer[s]] = "connected"
       THEN /\ phase' = [phase EXCEPT ![s] = "Reading"]
            /\ overdue' = [overdue EXCEPT ![s] = FALSE]
            /\ UNCHANGED ready
       ELSE /\ phase' = [phase EXCEPT ![s] = "Held"]
            /\ ready' = Append(ready, [slot |-> s, message |-> Message(s)])
            /\ UNCHANGED overdue
    /\ UNCHANGED <<peer, handling, holding, call>>

\* Messages that were read are returned before anything is waited for.
TakeReady ==
    /\ handling = Nothing /\ ready # <<>>
    /\ handling' = Head(ready) /\ ready' = Tail(ready)
    /\ UNCHANGED <<phase, peer, overdue, holding, call>>

\* Instance::listen drops the client, if any, and waits for the next one; an error
\* of its own ends the service, which ClientUpdate has as a crash.
Dropped(s, answered) ==
    IF peer[s] # None /\ call[peer[s]] \in {"connected", "sent"}
    THEN [call EXCEPT ![peer[s]] = IF answered THEN "answered" ELSE "dropped"]
    ELSE call

Listen(s, answered) ==
    /\ phase' = [phase EXCEPT ![s] = "Listening"]
    /\ peer' = [peer EXCEPT ![s] = None]
    /\ overdue' = [overdue EXCEPT ![s] = FALSE]
    /\ call' = Dropped(s, answered)

\* PipeServer::respond: the instance is recycled whether the write succeeds or not.
Respond(written) ==
    /\ handling # Nothing
    /\ Listen(handling.slot, written)
    /\ handling' = Nothing
    /\ UNCHANGED <<ready, holding>>

\* A prepare keeps its instance until its worker is done.
Hold ==
    /\ handling # Nothing /\ handling.message # None
    /\ holding' = holding \cup {handling} /\ handling' = Nothing
    /\ UNCHANGED <<phase, peer, overdue, ready, call>>

RespondHeld(held, written) ==
    /\ handling = Nothing
    /\ Listen(held.slot, written)
    /\ holding' = holding \ {held}
    /\ UNCHANGED <<ready, handling>>

\* Mutant: reads that are overdue are left alone.
ExpireNothing ==
    /\ IsWaiting
    /\ \A s \in Slot : ~Signaled(s)
    /\ UNCHANGED pipeVars

\* Mutant: the deadline also counts for an instance that is held.
OverdueOrHeld == {s \in Slot : overdue[s]}

\* expire_reads, when a wait times out, which it does only with nothing signalled.
Overdue == {s \in Slot : phase[s] = "Reading" /\ overdue[s]}

ExpireReads ==
    /\ IsWaiting /\ Overdue # {}
    /\ \A s \in Slot : ~Signaled(s)
    /\ phase' = [s \in Slot |-> IF s \in Overdue THEN "Listening" ELSE phase[s]]
    /\ peer' = [s \in Slot |-> IF s \in Overdue THEN None ELSE peer[s]]
    /\ overdue' = [s \in Slot |-> FALSE]
    /\ call' = [c \in Call |-> IF \E s \in Overdue : peer[s] = c THEN "dropped" ELSE call[c]]
    /\ UNCHANGED <<ready, handling, holding>>

\* The deadline of a read passes.
DeadlinePasses(s) ==
    /\ phase[s] = "Reading" /\ ~overdue[s]
    /\ overdue' = [overdue EXCEPT ![s] = TRUE]
    /\ UNCHANGED <<phase, peer, ready, handling, holding, call>>

\* PipeEvent::Idle: no instance has a client.
IsIdle == IsWaiting /\ \A s \in Slot : phase[s] = "Listening" /\ peer[s] = None

-----------------------------------------------------------------------------
(* The server by itself, with a service thread that answers everything *)

ServerStep ==
    \/ \E s \in Slot : Complete(s)
    \/ \E held \in holding : RespondHeld(held, TRUE)
    \/ TakeReady \/ Hold \/ Respond(TRUE) \/ ExpireReads

\* The write of an answer fails or times out.
WriteFails == Respond(FALSE) \/ \E held \in holding : RespondHeld(held, FALSE)

PipeStep ==
    \/ \E c \in Call : (\E s \in Slot : Connect(c, s)) \/ Send(c) \/ GiveUp(c)
    \/ ServerStep \/ WriteFails
    \/ \E s \in Slot : DeadlinePasses(s)

PipeNext == PipeStep \/ \E c \in Call : CallAgain(c)

PipeSpec == Created /\ [][PipeNext]_pipeVars

\* The service thread goes on, and time passes; clients need not do anything.
PipeFairSpec ==
    /\ PipeSpec /\ WF_pipeVars(ServerStep)
    /\ \A s \in Slot : WF_pipeVars(DeadlinePasses(s))

-----------------------------------------------------------------------------
\* Exactly the held instances are in the hands of somebody who will recycle
\* them: read and queued, worked on, or kept for a prepare.  No instance is lost
\* to the server and none is in two hands (PipeServer, Phase::Held).
HeldIsOwned ==
    \A s \in Slot :
        LET owners == Cardinality({i \in DOMAIN ready : ready[i].slot = s})
                          + (IF handling.slot = s THEN 1 ELSE 0)
                          + Cardinality({held \in holding : held.slot = s})
        IN  owners = IF phase[s] = "Held" THEN 1 ELSE 0

\* A request is answered to the client that sent it: while it is queued, worked
\* on or kept, no other client gets the instance (Instance::listen).
AnswerGoesToSender ==
    /\ handling.message # None => peer[handling.slot] = handling.message
    /\ \A i \in DOMAIN ready :
           ready[i].message # None => peer[ready[i].slot] = ready[i].message
    /\ \A held \in holding : peer[held.slot] = held.message
    /\ \A s, t \in Slot : peer[s] = peer[t] /\ peer[s] # None => s = t

IsServed(c) == call[c] \in {"connected", "sent"}

\* Once no new clients connect, every client that is silent or waits is rid of its
\* connection: a request is answered, and a client that never sends one does not
\* keep its instance (next_event, expire_reads).
CallEnds ==
    <>[][\A c \in Call, s \in Slot : ~Connect(c, s)]_pipeVars
        => \A c \in Call : IsServed(c) ~> ~IsServed(c)

\* "one client that connects without writing can hold only its own instance until
\* the read timeout" (windows_pipe.rs): whatever the others do, a client that has
\* written nothing when its deadline passes does not keep its instance.
IsSilent(s) == phase[s] = "Reading" /\ call[peer[s]] = "connected"
SilentClientEnds == \A s \in Slot : (IsSilent(s) /\ overdue[s]) ~> ~IsSilent(s)
=============================================================================
