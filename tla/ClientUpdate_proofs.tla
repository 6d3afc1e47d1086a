------------------------ MODULE ClientUpdate_proofs ------------------------
(***************************************************************************)
(* The promises of PipeServer, for any number of instances and connections,*)
(* and those of wait-commit-restart, for any number of calls.              *)
(***************************************************************************)
EXTENDS ClientUpdate, FiniteSetTheorems, SequenceTheorems, TLAPS

-----------------------------------------------------------------------------
(* The pipe server *)

CallStates == {"new", "connected", "sent", "answered", "dropped", "gone", "gaveUp"}

PipeTypes ==
    /\ phase \in [Slot -> {"Listening", "Reading", "Held"}]
    /\ peer \in [Slot -> Call \cup {None}]
    /\ overdue \in [Slot -> BOOLEAN]
    /\ ready \in Seq(Request) /\ handling \in Request \cup {Nothing} /\ holding \subseteq Request
    /\ call \in [Call -> CallStates]

\* A held instance has an owner, and only one.
OwnerInv ==
    /\ \A i \in DOMAIN ready : phase[ready[i].slot] = "Held" /\ ready[i].slot # handling.slot
    /\ \A i, j \in DOMAIN ready : ready[i].slot = ready[j].slot => i = j
    /\ handling # Nothing => phase[handling.slot] = "Held"
    /\ \A held \in holding :
           /\ phase[held.slot] = "Held" /\ held.slot # handling.slot
           /\ \A i \in DOMAIN ready : ready[i].slot # held.slot
    /\ \A held, other \in holding : held.slot = other.slot => held = other
    /\ \A s \in Slot : phase[s] = "Held" =>
           \/ s = handling.slot
           \/ \E i \in DOMAIN ready : ready[i].slot = s
           \/ \E held \in holding : held.slot = s

\* An instance that is read from or held keeps the client it had.
SenderInv ==
    /\ AnswerGoesToSender
    /\ \A s \in Slot : phase[s] # "Listening" => peer[s] # None
    /\ \A s \in Slot : peer[s] # None => call[peer[s]] # "new"

PipeInv == PipeTypes /\ OwnerInv /\ SenderInv

LEMMA RequestIs ==
    /\ \A request \in Request : /\ request.slot \in Slot /\ request.slot # 0
                                /\ request.message \in Call \cup {None} /\ request # Nothing
    /\ Nothing.slot = 0 /\ Nothing.message = None /\ 0 \notin Slot
  BY PipeOK DEF Request, Nothing, Slot

LEMMA ReadyIs ==
    ASSUME PipeTypes
    PROVE  DOMAIN ready = 1..Len(ready) /\ \A i \in DOMAIN ready : ready[i] \in Request
  BY DEF PipeTypes

\* Recycling an instance changes nothing of another one.
LEMMA ListenIs ==
    ASSUME PipeTypes, NEW s \in Slot, NEW answered, Listen(s, answered)
    PROVE  /\ phase' \in [Slot -> {"Listening", "Reading", "Held"}]
           /\ peer' \in [Slot -> Call \cup {None}]
           /\ overdue' \in [Slot -> BOOLEAN]
           /\ call' \in [Call -> CallStates]
           /\ phase'[s] = "Listening" /\ peer'[s] = None
           /\ \A t \in Slot \ {s} : phase'[t] = phase[t] /\ peer'[t] = peer[t]
           /\ \A c \in Call : /\ call'[c] = "new" <=> call[c] = "new"
                              /\ \/ call'[c] = call[c]
                                 \/ c = peer[s] /\ call[c] \in {"connected", "sent"}
<1> USE DEF PipeTypes
<1>1. /\ phase' \in [Slot -> {"Listening", "Reading", "Held"}]
      /\ peer' \in [Slot -> Call \cup {None}] /\ overdue' \in [Slot -> BOOLEAN]
      /\ phase'[s] = "Listening" /\ peer'[s] = None
      /\ \A t \in Slot \ {s} : phase'[t] = phase[t] /\ peer'[t] = peer[t]
  BY DEF Listen
<1>2. CASE peer[s] # None /\ call[peer[s]] \in {"connected", "sent"}
  <2>1. call' = [call EXCEPT ![peer[s]] = IF answered THEN "answered" ELSE "dropped"]
    BY <1>2 DEF Listen, Dropped
  <2>2. peer[s] \in Call
    BY <1>2
  <2>3. \A c \in Call : \/ c # peer[s] /\ call'[c] = call[c]
                        \/ /\ c = peer[s] /\ call[c] \in {"connected", "sent"}
                           /\ call'[c] \in {"answered", "dropped"}
    BY <1>2, <2>1, <2>2
  <2>4. call' \in [Call -> CallStates]
    BY <2>1, <2>2 DEF CallStates
  <2> QED BY <1>1, <1>2, <2>2, <2>3, <2>4
<1>3. CASE ~(peer[s] # None /\ call[peer[s]] \in {"connected", "sent"})
  <2>1. call' = call
    BY <1>3 DEF Listen, Dropped
  <2> QED BY <1>1, <2>1
<1> QED BY <1>2, <1>3

LEMMA PipeTypesStep == PipeTypes /\ [PipeNext]_pipeVars => PipeTypes'
<1> SUFFICES ASSUME PipeTypes, [PipeNext]_pipeVars PROVE PipeTypes'
  OBVIOUS
<1> USE DEF PipeTypes, pipeVars
<1>1. ASSUME NEW c \in Call, NEW s \in Slot, Connect(c, s) PROVE PipeTypes'
  BY <1>1 DEF Connect, CallStates
<1>2. ASSUME NEW c \in Call, Send(c) PROVE PipeTypes'
  BY <1>2 DEF Send, server, CallStates
<1>3. ASSUME NEW c \in Call, GiveUp(c) PROVE PipeTypes'
  BY <1>3 DEF GiveUp, server, CallStates
<1>4. ASSUME NEW s \in Slot, Complete(s) PROVE PipeTypes'
  <2>1. CASE call[peer[s]] = "connected"
    BY <1>4, <2>1 DEF Complete
  <2>2. CASE call[peer[s]] # "connected"
    <3>1. peer[s] \in Call \cup {None} /\ Message(s) \in Call \cup {None}
      BY DEF Message
    <3>2. [slot |-> s, message |-> Message(s)] \in Request
      BY <3>1 DEF Request
    <3>3. phase' \in [Slot -> {"Listening", "Reading", "Held"}]
      BY <1>4, <2>2 DEF Complete
    <3>4. ready' \in Seq(Request)
      BY <1>4, <2>2, <3>2, AppendProperties DEF Complete
    <3> QED BY <1>4, <2>2, <3>3, <3>4 DEF Complete
  <2> QED BY <2>1, <2>2
<1>5. CASE TakeReady
  <2>1. Head(ready) \in Request /\ Tail(ready) \in Seq(Request)
    BY <1>5, HeadTailProperties DEF TakeReady
  <2> QED BY <1>5, <2>1 DEF TakeReady
<1>6. CASE Hold
  BY <1>6 DEF Hold
<1>7. ASSUME NEW written \in BOOLEAN, Respond(written) PROVE PipeTypes'
  <2>1. handling \in Request /\ handling.slot \in Slot /\ Listen(handling.slot, written)
    BY <1>7, RequestIs DEF Respond, PipeTypes
  <2> QED BY <1>7, <2>1, ListenIs DEF Respond
<1>8. ASSUME NEW held \in holding, NEW written \in BOOLEAN, RespondHeld(held, written) PROVE PipeTypes'
  <2>1. held \in Request /\ held.slot \in Slot /\ Listen(held.slot, written)
    BY <1>8, RequestIs DEF RespondHeld, PipeTypes
  <2> QED BY <1>8, <2>1, ListenIs DEF RespondHeld
<1>9. CASE ExpireReads
  <2>1. phase' \in [Slot -> {"Listening", "Reading", "Held"}]
    BY <1>9 DEF ExpireReads
  <2>2. peer' \in [Slot -> Call \cup {None}] /\ overdue' \in [Slot -> BOOLEAN]
    BY <1>9 DEF ExpireReads
  <2>3. call' \in [Call -> CallStates]
    BY <1>9 DEF ExpireReads, CallStates
  <2> QED BY <1>9, <2>1, <2>2, <2>3 DEF ExpireReads
<1>10. ASSUME NEW s \in Slot, DeadlinePasses(s) PROVE PipeTypes'
  BY <1>10 DEF DeadlinePasses
<1>11. CASE UNCHANGED pipeVars
  BY <1>11
<1>12. ASSUME NEW c \in Call, CallAgain(c) PROVE PipeTypes'
  BY <1>12 DEF CallAgain, server, CallStates
<1> QED BY <1>1, <1>2, <1>3, <1>4, <1>5, <1>6, <1>7, <1>8, <1>9, <1>10, <1>11, <1>12
           DEF PipeNext, PipeStep, ServerStep, WriteFails

\* Instances are held and recycled together with their owners.
LEMMA OwnerStep == PipeTypes /\ OwnerInv /\ [PipeNext]_pipeVars => OwnerInv'
<1> SUFFICES ASSUME PipeTypes, OwnerInv, [PipeNext]_pipeVars PROVE OwnerInv'
  OBVIOUS
<1> USE DEF OwnerInv, pipeVars
<1>1. ASSUME NEW c \in Call, NEW s \in Slot, Connect(c, s) PROVE OwnerInv'
  BY <1>1 DEF Connect
<1>2. ASSUME NEW c \in Call, Send(c) PROVE OwnerInv'
  BY <1>2 DEF Send, server
<1>3. ASSUME NEW c \in Call, GiveUp(c) PROVE OwnerInv'
  BY <1>3 DEF GiveUp, server
<1>4. ASSUME NEW s \in Slot, Complete(s) PROVE OwnerInv'
  <2>1. CASE call[peer[s]] = "connected"
    <3>1. /\ \A t \in Slot \ {s} : phase'[t] = phase[t]
          /\ phase[s] # "Held" /\ phase'[s] # "Held"
      BY <1>4, <2>1 DEF Complete, Signaled, PipeTypes
    <3> QED BY <1>4, <2>1, <3>1, RequestIs, ReadyIs DEF Complete, PipeTypes
  <2>2. CASE call[peer[s]] # "connected"
    <3> DEFINE request == [slot |-> s, message |-> Message(s)]
    <3>1. /\ \A t \in Slot \ {s} : phase'[t] = phase[t]
          /\ phase[s] # "Held" /\ phase'[s] = "Held"
          /\ ready' = <<request>> /\ ready = <<>> /\ handling = Nothing
          /\ handling' = handling /\ holding' = holding /\ request.slot = s
      BY <1>4, <2>2 DEF Complete, Signaled, PipeTypes, IsWaiting
    <3>2. DOMAIN ready' = {1} /\ ready'[1].slot = s /\ DOMAIN ready = {}
      BY <3>1
    <3>3. \A held \in holding : held.slot \in Slot \ {s}
      BY <3>1, RequestIs DEF PipeTypes
    <3> QED BY <3>1, <3>2, <3>3, RequestIs
  <2> QED BY <2>1, <2>2
<1>5. CASE TakeReady
  <2>1. /\ handling' = ready[1] /\ 1 \in DOMAIN ready
        /\ \A i \in DOMAIN ready' : i + 1 \in DOMAIN ready /\ ready'[i] = ready[i + 1] /\ i + 1 # 1
        /\ \A i \in DOMAIN ready : i # 1 => i - 1 \in DOMAIN ready' /\ ready'[i - 1] = ready[i]
    BY <1>5 DEF TakeReady, PipeTypes
  <2>2. \A i, j \in DOMAIN ready' : ready'[i].slot = ready'[j].slot => i = j
    <3> SUFFICES ASSUME NEW i \in DOMAIN ready', NEW j \in DOMAIN ready', ready'[i].slot = ready'[j].slot
                 PROVE  i = j
      OBVIOUS
    <3>1. i + 1 = j + 1
      BY <2>1
    <3>2. i \in Int /\ j \in Int
      BY <1>5, HeadTailProperties DEF TakeReady, PipeTypes
    <3> QED BY <3>1, <3>2
  <2>3. ready[1] \in Request /\ ready[1] # Nothing /\ handling = Nothing
    BY <1>5, <2>1, RequestIs, ReadyIs DEF TakeReady
  <2>4. \A i \in DOMAIN ready' : phase[ready'[i].slot] = "Held" /\ ready'[i].slot # ready[1].slot
    BY <2>1
  <2>5. \A s \in Slot : phase[s] = "Held" =>
            \/ s = handling'.slot
            \/ \E i \in DOMAIN ready' : ready'[i].slot = s
            \/ \E held \in holding : held.slot = s
    BY <2>1, <2>3, RequestIs
  <2> QED BY <1>5, <2>1, <2>2, <2>3, <2>4, <2>5 DEF TakeReady
<1>6. CASE Hold
  <2>1. handling \in Request /\ handling.slot \in Slot /\ handling' = Nothing
    BY <1>6, RequestIs DEF Hold, PipeTypes
  <2>2. \A i \in DOMAIN ready : ready[i].slot # Nothing.slot
    BY RequestIs, ReadyIs
  <2>3. \A held \in holding : held.slot # Nothing.slot
    BY RequestIs DEF PipeTypes
  <2> QED BY <1>6, <2>1, <2>2, <2>3, RequestIs DEF Hold
<1>7. ASSUME NEW written \in BOOLEAN, Respond(written) PROVE OwnerInv'
  <2>1. handling \in Request /\ handling.slot \in Slot /\ Listen(handling.slot, written)
    BY <1>7, RequestIs DEF Respond, PipeTypes
  <2>2. handling' = Nothing /\ UNCHANGED <<ready, holding>>
    BY <1>7 DEF Respond
  <2>3. \A i \in DOMAIN ready : ready[i].slot \in Slot \ {handling.slot}
    BY RequestIs, ReadyIs
  <2>4. \A held \in holding : held.slot \in Slot \ {handling.slot}
    BY RequestIs DEF PipeTypes
  <2> QED BY <2>1, <2>2, <2>3, <2>4, ListenIs, RequestIs
<1>8. ASSUME NEW held \in holding, NEW written \in BOOLEAN, RespondHeld(held, written) PROVE OwnerInv'
  <2>1. held \in Request /\ held.slot \in Slot /\ Listen(held.slot, written)
    BY <1>8, RequestIs DEF RespondHeld, PipeTypes
  <2>2. handling' = handling /\ handling = Nothing /\ ready' = ready /\ holding' = holding \ {held}
    BY <1>8 DEF RespondHeld
  <2>3. \A i \in DOMAIN ready : ready[i].slot \in Slot \ {held.slot}
    BY RequestIs, ReadyIs
  <2>4. \A other \in holding' : other.slot \in Slot \ {held.slot} /\ other \in holding
    BY <2>2, RequestIs DEF PipeTypes
  <2> QED BY <2>1, <2>2, <2>3, <2>4, ListenIs, RequestIs
<1>9. CASE ExpireReads
  <2>1. \A s \in Slot : phase'[s] = "Held" <=> phase[s] = "Held"
    BY <1>9 DEF ExpireReads, Overdue, PipeTypes
  <2>2. UNCHANGED <<ready, handling, holding>>
    BY <1>9 DEF ExpireReads
  <2>3. /\ \A i \in DOMAIN ready : ready[i].slot \in Slot
        /\ \A held \in holding : held.slot \in Slot
        /\ handling # Nothing => handling.slot \in Slot
    BY RequestIs, ReadyIs DEF PipeTypes
  <2> QED BY <2>1, <2>2, <2>3
<1>10. ASSUME NEW s \in Slot, DeadlinePasses(s) PROVE OwnerInv'
  BY <1>10 DEF DeadlinePasses
<1>11. CASE UNCHANGED pipeVars
  BY <1>11
<1>12. ASSUME NEW c \in Call, CallAgain(c) PROVE OwnerInv'
  BY <1>12 DEF CallAgain, server
<1> QED BY <1>1, <1>2, <1>3, <1>4, <1>5, <1>6, <1>7, <1>8, <1>9, <1>10, <1>11, <1>12
           DEF PipeNext, PipeStep, ServerStep, WriteFails

\* An instance gets another client only when it is recycled.
LEMMA SenderStep == PipeTypes /\ OwnerInv /\ SenderInv /\ [PipeNext]_pipeVars => SenderInv'
<1> SUFFICES ASSUME PipeTypes, OwnerInv, SenderInv, [PipeNext]_pipeVars PROVE SenderInv'
  OBVIOUS
<1> USE DEF SenderInv, pipeVars
<1>1. ASSUME NEW c \in Call, NEW s \in Slot, Connect(c, s) PROVE SenderInv'
  <2>1. /\ \A t \in Slot : peer'[t] = IF t = s THEN c ELSE peer[t]
        /\ phase[s] = "Listening" /\ peer[s] = None
        /\ UNCHANGED <<phase, ready, handling, holding>>
        /\ call' = [call EXCEPT ![c] = "connected"] /\ call[c] = "new"
    BY <1>1 DEF Connect, PipeTypes
  <2>2. \A t \in Slot : peer[t] # c
    BY <2>1, PipeOK
  <2>3. \A t \in Slot : peer'[t] # None => call'[peer'[t]] # "new"
    BY <2>1, <2>2, PipeOK DEF PipeTypes
  <2>4. \A t, u \in Slot : peer'[t] = peer'[u] /\ peer'[t] # None => t = u
    BY <2>1, <2>2 DEF AnswerGoesToSender
  <2>5. /\ \A i \in DOMAIN ready : ready[i].slot \in Slot \ {s}
        /\ \A held \in holding : held.slot \in Slot \ {s}
        /\ handling.message # None => handling.slot \in Slot \ {s}
    BY <2>1, RequestIs, ReadyIs DEF PipeTypes, OwnerInv
  <2>6. AnswerGoesToSender'
    BY <2>1, <2>4, <2>5 DEF AnswerGoesToSender
  <2> QED BY <2>1, <2>3, <2>6, PipeOK
<1>2. ASSUME NEW c \in Call, Send(c) PROVE SenderInv'
  <2>1. \A d \in Call : call'[d] = "new" <=> call[d] = "new"
    BY <1>2 DEF Send, PipeTypes
  <2> QED BY <1>2, <2>1 DEF Send, server, PipeTypes, AnswerGoesToSender
<1>3. ASSUME NEW c \in Call, GiveUp(c) PROVE SenderInv'
  <2>1. \A d \in Call : call'[d] = "new" <=> call[d] = "new"
    BY <1>3 DEF GiveUp, PipeTypes
  <2> QED BY <1>3, <2>1 DEF GiveUp, server, PipeTypes, AnswerGoesToSender
<1>4. ASSUME NEW s \in Slot, Complete(s) PROVE SenderInv'
  <2>1. /\ \A t \in Slot \ {s} : phase'[t] = phase[t]
        /\ peer[s] # None /\ UNCHANGED <<peer, handling, holding, call>>
    BY <1>4 DEF Complete, Signaled, PipeTypes
  <2>2. \A i \in DOMAIN ready' : ready'[i].message # None => peer[ready'[i].slot] = ready'[i].message
    <3>1. CASE ready' = ready
      BY <3>1 DEF AnswerGoesToSender
    <3>2. CASE ready' = Append(ready, [slot |-> s, message |-> Message(s)])
      <4>1. DOMAIN ready' = {1} /\ ready'[1] = [slot |-> s, message |-> Message(s)]
        BY <1>4, <3>2 DEF Complete, IsWaiting
      <4>2. Message(s) \in {peer[s], None}
        BY DEF Message
      <4> QED BY <4>1, <4>2
    <3> QED BY <1>4, <3>1, <3>2 DEF Complete
  <2>3. AnswerGoesToSender'
    BY <2>1, <2>2 DEF AnswerGoesToSender
  <2> QED BY <2>1, <2>3 DEF PipeTypes
<1>5. CASE TakeReady
  <2>1. /\ handling' = ready[1] /\ 1 \in DOMAIN ready
        /\ \A i \in DOMAIN ready' : i + 1 \in DOMAIN ready /\ ready'[i] = ready[i + 1]
    BY <1>5 DEF TakeReady, PipeTypes
  <2>2. UNCHANGED <<phase, peer, holding, call>>
    BY <1>5 DEF TakeReady
  <2>3. AnswerGoesToSender'
    BY <2>1, <2>2 DEF AnswerGoesToSender
  <2> QED BY <2>2, <2>3
<1>6. CASE Hold
  <2>1. UNCHANGED <<phase, peer, ready, call>> /\ handling' = Nothing
        /\ holding' = holding \cup {handling} /\ handling.message # None
    BY <1>6 DEF Hold
  <2>2. AnswerGoesToSender'
    BY <2>1, RequestIs DEF AnswerGoesToSender
  <2> QED BY <2>1, <2>2
<1>7. ASSUME NEW written \in BOOLEAN, Respond(written) PROVE SenderInv'
  <2>1. handling \in Request /\ handling.slot \in Slot /\ Listen(handling.slot, written)
    BY <1>7, RequestIs DEF Respond, PipeTypes
  <2>2. handling' = Nothing /\ UNCHANGED <<ready, holding>>
    BY <1>7 DEF Respond
  <2>3. \A i \in DOMAIN ready : ready[i].slot \in Slot \ {handling.slot}
    BY RequestIs, ReadyIs DEF OwnerInv
  <2>4. \A held \in holding : held.slot \in Slot \ {handling.slot}
    BY RequestIs DEF PipeTypes, OwnerInv
  <2>5. /\ peer' \in [Slot -> Call \cup {None}] /\ phase'[handling.slot] = "Listening" /\ peer'[handling.slot] = None
        /\ \A t \in Slot \ {handling.slot} : phase'[t] = phase[t] /\ peer'[t] = peer[t]
        /\ \A c \in Call : call'[c] = "new" <=> call[c] = "new"
    BY <2>1, ListenIs
  <2>6. AnswerGoesToSender'
    BY <2>2, <2>3, <2>4, <2>5, RequestIs DEF AnswerGoesToSender
  <2> QED BY <2>5, <2>6
<1>8. ASSUME NEW held \in holding, NEW written \in BOOLEAN, RespondHeld(held, written) PROVE SenderInv'
  <2>1. held \in Request /\ held.slot \in Slot /\ Listen(held.slot, written)
    BY <1>8, RequestIs DEF RespondHeld, PipeTypes
  <2>2. handling' = handling /\ handling = Nothing /\ ready' = ready /\ holding' = holding \ {held}
    BY <1>8 DEF RespondHeld
  <2>3. \A i \in DOMAIN ready : ready[i].slot \in Slot \ {held.slot}
    BY RequestIs, ReadyIs DEF OwnerInv
  <2>4. \A other \in holding' : other.slot \in Slot \ {held.slot} /\ other \in holding
    BY <2>2, RequestIs DEF PipeTypes, OwnerInv
  <2>5. /\ peer' \in [Slot -> Call \cup {None}] /\ phase'[held.slot] = "Listening" /\ peer'[held.slot] = None
        /\ \A t \in Slot \ {held.slot} : phase'[t] = phase[t] /\ peer'[t] = peer[t]
        /\ \A c \in Call : call'[c] = "new" <=> call[c] = "new"
    BY <2>1, ListenIs
  <2>6. AnswerGoesToSender'
    BY <2>2, <2>3, <2>4, <2>5, RequestIs DEF AnswerGoesToSender
  <2> QED BY <2>5, <2>6
<1>9. CASE ExpireReads
  <2>1. \A s \in Slot : \/ phase'[s] = phase[s] /\ peer'[s] = peer[s]
                        \/ phase[s] = "Reading" /\ phase'[s] = "Listening" /\ peer'[s] = None
    BY <1>9 DEF ExpireReads, Overdue, PipeTypes
  <2>2. UNCHANGED <<ready, handling, holding>>
    BY <1>9 DEF ExpireReads
  <2>3. \A c \in Call : call'[c] = "new" => call[c] = "new"
    BY <1>9 DEF ExpireReads
  <2>4. /\ \A i \in DOMAIN ready : peer'[ready[i].slot] = peer[ready[i].slot]
        /\ \A held \in holding : peer'[held.slot] = peer[held.slot]
        /\ handling.message # None => peer'[handling.slot] = peer[handling.slot]
    BY <2>1, RequestIs, ReadyIs DEF PipeTypes, OwnerInv
  <2>5. AnswerGoesToSender'
    BY <2>1, <2>2, <2>4 DEF AnswerGoesToSender
  <2> QED BY <2>1, <2>3, <2>5 DEF PipeTypes
<1>10. ASSUME NEW s \in Slot, DeadlinePasses(s) PROVE SenderInv'
  BY <1>10 DEF DeadlinePasses, AnswerGoesToSender
<1>11. CASE UNCHANGED pipeVars
  BY <1>11 DEF AnswerGoesToSender
<1>12. ASSUME NEW c \in Call, CallAgain(c) PROVE SenderInv'
  <2>1. \A t \in Slot : peer[t] # None => call'[peer[t]] = call[peer[t]]
    BY <1>12 DEF CallAgain, PipeTypes
  <2> QED BY <1>12, <2>1 DEF CallAgain, server, AnswerGoesToSender
<1> QED BY <1>1, <1>2, <1>3, <1>4, <1>5, <1>6, <1>7, <1>8, <1>9, <1>10, <1>11, <1>12
           DEF PipeNext, PipeStep, ServerStep, WriteFails

\* Clients that connected before the instances were made to listen are as good as
\* others, and each message they sent is queued once.
LEMMA CreatedIsOwned == Created => PipeInv
<1> SUFFICES ASSUME Created PROVE PipeInv
  OBVIOUS
<1>1. PICK n \in 0..Instances : ready \in [1..n -> Request]
  BY DEF Created
<1>2. ready \in Seq(Request) /\ DOMAIN ready = 1..n
  BY <1>1, PipeOK
<1>3. \A c \in Call : c # None
  BY PipeOK
<1>4. PipeTypes
  <2>1. /\ phase = [s \in Slot |-> IF peer[s] = None THEN "Listening"
                                ELSE IF call[peer[s]] = "sent" THEN "Held" ELSE "Reading"]
        /\ overdue = [s \in Slot |-> FALSE] /\ handling = Nothing /\ holding = {}
        /\ peer \in [Slot -> Call \cup {None}] /\ call \in [Call -> {"new", "connected", "sent"}]
    BY DEF Created
  <2>2. phase \in [Slot -> {"Listening", "Reading", "Held"}] /\ overdue \in [Slot -> BOOLEAN]
    BY <2>1
  <2>3. call \in [Call -> CallStates]
    BY <2>1 DEF CallStates
  <2> QED BY <1>2, <2>1, <2>2, <2>3 DEF PipeTypes
<1>5. \A i \in DOMAIN ready : /\ ready[i] \in Request /\ phase[ready[i].slot] = "Held"
                              /\ ready[i].message = peer[ready[i].slot]
  BY <1>1 DEF Created
<1>6. \A s \in Slot : phase[s] = "Held" => \E i \in DOMAIN ready : ready[i].slot = s
  <2> SUFFICES ASSUME NEW s \in Slot, phase[s] = "Held" PROVE \E i \in DOMAIN ready : ready[i].slot = s
    OBVIOUS
  <2>1. peer[s] \in Call \cup {None}
    BY <1>4 DEF PipeTypes
  <2>2. [slot |-> s, message |-> peer[s]] \in {ready[i] : i \in DOMAIN ready}
    BY <2>1 DEF Created, Request
  <2> QED BY <2>2
<1>7. \A i, j \in DOMAIN ready : ready[i].slot = ready[j].slot => i = j
  <2> SUFFICES ASSUME NEW i \in 1..n, NEW j \in 1..n, ready[i].slot = ready[j].slot, i < j PROVE FALSE
    BY <1>2
  <2>1. ready[i].slot < ready[j].slot
    BY <1>2 DEF Created
  <2>2. ready[i].slot \in Slot
    BY <1>2, <1>5, RequestIs
  <2> QED BY <2>1, <2>2 DEF Slot
<1>8. OwnerInv
  BY <1>5, <1>6, <1>7, RequestIs DEF Created, OwnerInv
<1>9. AnswerGoesToSender
  BY <1>5, RequestIs DEF Created, AnswerGoesToSender
<1>10. \A s \in Slot : /\ phase[s] # "Listening" => peer[s] # None
                       /\ peer[s] # None => call[peer[s]] # "new"
  BY DEF Created
<1> QED BY <1>4, <1>8, <1>9, <1>10 DEF PipeInv, SenderInv

LEMMA PipeInvariance == PipeSpec => []PipeInv
<1>1. PipeInv /\ [PipeNext]_pipeVars => PipeInv'
  BY PipeTypesStep, OwnerStep, SenderStep DEF PipeInv
<1> QED BY CreatedIsOwned, <1>1, PTL DEF PipeSpec

\* Every held instance has exactly one owner who will recycle it, and no other
\* instance has any, for any number of instances and clients (PipeServer).
THEOREM HeldIsOwnedHolds == PipeSpec => []HeldIsOwned
<1>1. ASSUME PipeInv, NEW s \in Slot
      PROVE  LET owners == Cardinality({i \in DOMAIN ready : ready[i].slot = s})
                               + (IF handling.slot = s THEN 1 ELSE 0)
                               + Cardinality({held \in holding : held.slot = s})
             IN  owners = IF phase[s] = "Held" THEN 1 ELSE 0
  <2> DEFINE queued == {i \in DOMAIN ready : ready[i].slot = s}
             kept == {held \in holding : held.slot = s}
  <2> USE DEF PipeInv, PipeTypes, OwnerInv
  <2>1. Cardinality({}) = 0 /\ \A x : Cardinality({x}) = 1
    BY FS_EmptySet, FS_Singleton
  <2>2. /\ queued = {} \/ \E i \in DOMAIN ready : queued = {i}
        /\ kept = {} \/ \E held \in holding : kept = {held}
    BY <1>1
  <2>3. handling.slot = s => queued = {} /\ kept = {} /\ phase[s] = "Held"
    BY <1>1, RequestIs
  <2>4. queued # {} => kept = {} /\ phase[s] = "Held"
    BY <1>1
  <2>5. kept # {} => phase[s] = "Held"
    BY <1>1
  <2>6. phase[s] = "Held" => handling.slot = s \/ queued # {} \/ kept # {}
    BY <1>1
  <2> HIDE DEF queued, kept
  <2>7. Cardinality(queued) = (IF queued = {} THEN 0 ELSE 1) /\ Cardinality(kept) = (IF kept = {} THEN 0 ELSE 1)
    BY <2>1, <2>2
  <2>8. Cardinality(queued) + (IF handling.slot = s THEN 1 ELSE 0) + Cardinality(kept)
            = IF phase[s] = "Held" THEN 1 ELSE 0
    BY <2>3, <2>4, <2>5, <2>6, <2>7
  <2> QED BY <2>8 DEF queued, kept
<1>2. PipeInv => HeldIsOwned
  BY <1>1 DEF HeldIsOwned
<1> QED BY <1>2, PipeInvariance, PTL

\* A request is answered to the client that sent it, whoever gives up or connects
\* meanwhile (Instance::listen, respond).
THEOREM AnswerGoesToSenderHolds == PipeSpec => []AnswerGoesToSender
<1>1. PipeInv => AnswerGoesToSender
  BY DEF PipeInv, SenderInv
<1> QED BY <1>1, PipeInvariance, PTL

-----------------------------------------------------------------------------
(* The server as a part of the composed system *)

Over == {"answered", "dropped", "gone", "gaveUp"}

\* Calls are numbered from 0, the other client's.
LEMMA CallIs == Call \subseteq Nat /\ 0 \in Call
<1>1. Cardinality(Call) \in Nat
  BY ClientOK, FS_CardinalityType
<1>2. Call = 0..(Cardinality(Call) - 1) /\ MaxKeepAlive + 2 \in Call
  BY ClientOK
<1>3. Call \subseteq Nat
  BY <1>1, <1>2
<1>4. PICK c \in Call : TRUE
  BY <1>2
<1>5. 0 <= c /\ c <= Cardinality(Call) - 1
  BY <1>1, <1>2
<1>6. 0 \in 0..(Cardinality(Call) - 1)
  BY <1>1, <1>3, <1>5
<1> QED BY <1>2, <1>3, <1>6

HelperSteps == {"handoff", "waiting", "check", "commit", "judge", "wait",
                "refused", "withheld", "updated", "original"}

ClientTypes ==
    /\ mine \in Call /\ commitCall \in Call /\ commitCall <= mine
    /\ step \in HelperSteps /\ launcher \in {"running", "gone", "restarted"}
    /\ job \in {"none", "prepared", "committing", "committed", "rolledBack", "failed"}
    /\ worker \in {"none", "running", "committed", "rolledBack", "failed"}
    /\ files \in {"old", "mixed", "new"}

\* The job is committed only after the Launcher has exited and CommitJob was sent.
BeforeInv ==
    /\ commitCall = 0 => job \in {"none", "prepared"} /\ worker = "none" /\ files = "old"
    /\ step \in {"handoff", "waiting", "check", "commit", "refused"} => commitCall = 0
    /\ step \in {"check", "commit", "judge", "wait"} => launcher = "gone"
    /\ launcher = "running" => commitCall = 0
    /\ launcher = "restarted" => step \in {"updated", "original"}

\* What the service knows of the job and of its worker is what the files are.
JobInv ==
    /\ job = "prepared" => worker = "none" /\ files = "old"
    /\ worker = "running" => job = "committing"
    /\ "committed" \in {job, worker} => files = "new"
    /\ "rolledBack" \in {job, worker} => files = "old"
    /\ worker \in {"committed", "rolledBack", "failed"} => job = "committing"

\* A message that is not yet answered was sent, and its caller waits or gave up.
PendingInv ==
    /\ handling.message # None => call[handling.message] \in {"sent", "gaveUp"}
    /\ \A i \in DOMAIN ready : ready[i].message # None =>
           call[ready[i].message] \in {"sent", "gaveUp"}

\* Nothing will change the files any more: if there is a job to commit, then
\* CommitJob is not in the pipe, where a caller that gave up leaves it.
Quiet ==
    /\ files # "mixed" /\ worker # "running"
    /\ job = "prepared" => commitCall = 0 \/ call[commitCall] \in Over \ {"gaveUp"}

\* An answer that lets the Launcher be started was written when all was quiet, or
\* it was "prepared" while CommitJob was pending.
AnswerInv ==
    /\ commitCall # 0 /\ mine # commitCall => call[commitCall] \in Over
    /\ step = "updated" \/ reply = "committed" => files = "new" /\ Quiet
    /\ reply = "rolledBack" => files = "old" /\ Quiet
    /\ reply = "prepared" /\ commitCall # 0 =>
           call[commitCall] = "gaveUp" \/ (files = "old" /\ Quiet)
    /\ step = "original" => CommitWasPending \/ (files = "old" /\ Quiet)
    /\ step = "original" /\ commitCall # 0 => call[mine] = "answered"

IInv == PipeInv /\ PendingInv /\ ClientTypes /\ BeforeInv /\ JobInv /\ AnswerInv

\* What a process that ends leaves to the next one has no owners and no clients.
LEMMA ProcessEndsIs ==
    ASSUME PipeTypes, ProcessEnds
    PROVE  PipeInv' /\ PendingInv' /\ \A c \in Call : call[c] \in Over => call'[c] = call[c]
<1>1. /\ phase' = [s \in Slot |-> "Listening"] /\ peer' = [s \in Slot |-> None]
      /\ overdue' = [s \in Slot |-> FALSE]
      /\ ready' = <<>> /\ handling' = Nothing /\ holding' = {}
      /\ call' = [c \in Call |->
                      IF call[c] \in {"connected", "sent"} THEN "dropped" ELSE call[c]]
  BY DEF ProcessEnds
<1>2. call' \in [Call -> CallStates] /\ \A c \in Call : call[c] \in Over => call'[c] = call[c]
  BY <1>1 DEF PipeTypes, CallStates, Over
<1>3. PipeTypes'
  BY <1>1, <1>2 DEF PipeTypes
<1>4. OwnerInv' /\ SenderInv'
  BY <1>1, RequestIs DEF OwnerInv, SenderInv, AnswerGoesToSender
<1>5. PendingInv'
  BY <1>1, RequestIs DEF PendingInv
<1> QED BY <1>2, <1>3, <1>4, <1>5 DEF PipeInv

LEMMA CannotOpenIs ==
    ASSUME PipeInv, PendingInv, NEW c \in Call, CannotOpen(c)
    PROVE  PipeInv' /\ PendingInv' /\ \A d \in Call : call[d] \in Over => call'[d] = call[d]
<1>1. /\ call' \in [Call -> CallStates] /\ UNCHANGED <<phase, peer, overdue, ready, handling, holding>>
      /\ \A d \in Call : call'[d] = IF d = c THEN "gone" ELSE call[d]
  BY DEF CannotOpen, server, PipeInv, PipeTypes, CallStates
<1>2. PipeTypes' /\ OwnerInv'
  BY <1>1 DEF PipeInv, PipeTypes, OwnerInv
<1>3. SenderInv'
  BY <1>1 DEF PipeInv, PipeTypes, SenderInv, AnswerGoesToSender
<1>4. PendingInv'
  <2>1. call[c] = "new"
    BY DEF CannotOpen
  <2> QED BY <1>1, <2>1, ReadyIs, RequestIs DEF PipeInv, PipeTypes, PendingInv
<1>5. \A d \in Call : call[d] \in Over => call'[d] = call[d]
  BY <1>1 DEF CannotOpen, Over
<1> QED BY <1>2, <1>3, <1>4, <1>5 DEF PipeInv

\* A step of the system is one of the server and its clients, or nothing to them.
LEMMA PipeIsSeen ==
    ASSUME ClientTypes, [Next]_vars
    PROVE  [PipeStep]_pipeVars \/ (\E c \in Call : CannotOpen(c)) \/ ProcessEnds
<1> USE DEF vars, pipeVars
<1>1. ASSUME NEW c \in Call, ClientCall(c) PROVE PipeStep \/ CannotOpen(c)
  BY <1>1 DEF ClientCall, PipeStep
<1>2. CASE HelperStep
  <2>1. CASE HelperCalls
    BY <1>1, <2>1 DEF HelperCalls, ClientTypes
  <2>2. CASE HelperStep /\ ~HelperCalls
    <3>1. UNCHANGED pipeVars
      BY <2>2 DEF HelperStep, AskHandoff, Handoff, KeepAlive, LauncherStays, AskCheck, Check,
         AskCommit, Judge, Unanswered, Poll, Deadline, AskStatus, Ask, Goto, Restart
    <3> QED BY <3>1
  <2> QED BY <1>2, <2>1, <2>2
<1>3. ASSUME NEW value, Answer(value) PROVE PipeStep
  <2>1. Respond(TRUE) \/ Respond(FALSE)
    BY <1>3 DEF Answer
  <2> QED BY <2>1 DEF PipeStep, ServerStep, WriteFails
<1>4. CASE ServiceStep
  <2>1. CASE ServeNothing \/ (\E c \in Call : ServeStatus(c) \/ ServeCommit(c) \/ RefuseCommit(c))
             \/ RefusePrepare
    BY <1>3, <2>1 DEF ServeNothing, ServeStatus, ServeCommit, RefuseCommit, RefusePrepare
  <2>2. CASE ServePrepare
    BY <2>2 DEF ServePrepare, PipeStep, ServerStep
  <2>3. CASE PrepareEnds
    <3>1. PICK held \in holding : RespondHeld(held, TRUE) \/ RespondHeld(held, FALSE)
      BY <2>3 DEF PrepareEnds
    <3> QED BY <3>1 DEF PipeStep, ServerStep, WriteFails
  <2>4. CASE PipeWorks
    BY <2>4 DEF PipeWorks, PipeStep, ServerStep
  <2>5. CASE WorkerApplies \/ WorkerEnds \/ ServiceStarts
    <3>1. UNCHANGED pipeVars
      BY <2>5 DEF WorkerApplies, WorkerEnds, ServiceStarts
    <3> QED BY <3>1
  <2>6. CASE Crash \/ IdleExit
    BY <2>6 DEF Crash, IdleExit
  <2> QED BY <1>4, <2>1, <2>2, <2>3, <2>4, <2>5, <2>6 DEF ServiceStep
<1>5. CASE LauncherExits
  BY <1>5 DEF LauncherExits
<1>6. CASE ClientCall(0)
  BY <1>1, <1>6, CallIs
<1>7. CASE UNCHANGED vars
  BY <1>7
<1> QED BY <1>2, <1>4, <1>5, <1>6, <1>7 DEF Next

\* A call that is over stays so.
LEMMA OverStays ==
    ASSUME PipeTypes, [PipeStep]_pipeVars, NEW c \in Call, call[c] \in Over
    PROVE  call'[c] = call[c]
<1> USE DEF PipeTypes, Over, pipeVars
<1>1. ASSUME NEW d \in Call, NEW s \in Slot, Connect(d, s) PROVE call'[c] = call[c]
  BY <1>1 DEF Connect
<1>2. ASSUME NEW d \in Call, Send(d) \/ GiveUp(d) PROVE call'[c] = call[c]
  BY <1>2 DEF Send, GiveUp
<1>3. ASSUME NEW s \in Slot, Complete(s) \/ DeadlinePasses(s) PROVE call'[c] = call[c]
  BY <1>3 DEF Complete, DeadlinePasses
<1>4. ASSUME NEW s \in Slot, NEW answered, Listen(s, answered) PROVE call'[c] = call[c]
  BY <1>4, ListenIs
<1>5. ASSUME NEW written, Respond(written) PROVE call'[c] = call[c]
  <2>1. handling.slot \in Slot /\ Listen(handling.slot, written)
    BY <1>5, RequestIs DEF Respond
  <2> QED BY <1>4, <2>1
<1>6. ASSUME NEW held \in holding, NEW written, RespondHeld(held, written) PROVE call'[c] = call[c]
  <2>1. held.slot \in Slot /\ Listen(held.slot, written)
    BY <1>6, RequestIs DEF RespondHeld
  <2> QED BY <1>4, <2>1
<1>7. CASE ExpireReads
  BY <1>7 DEF ExpireReads, Overdue, Signaled
<1>8. CASE TakeReady \/ Hold \/ UNCHANGED pipeVars
  BY <1>8 DEF TakeReady, Hold
<1> QED BY <1>1, <1>2, <1>3, <1>5, <1>6, <1>7, <1>8 DEF PipeStep, ServerStep, WriteFails

\* A message is answered once, and its call is not over before, except for its caller.
LEMMA PendingStep ==
    ASSUME PipeInv, PendingInv, [PipeStep]_pipeVars
    PROVE  PendingInv'
<1> USE DEF PipeInv, PipeTypes, PendingInv, pipeVars
<1>0. /\ \A i \in DOMAIN ready : ready[i].message \in Call \cup {None} /\ ready[i].slot \in Slot
      /\ handling.message \in Call \cup {None}
  BY ReadyIs, RequestIs
<1>1. ASSUME NEW d \in Call, NEW s \in Slot, Connect(d, s) PROVE PendingInv'
  BY <1>1, <1>0 DEF Connect
<1>2. ASSUME NEW d \in Call, Send(d) \/ GiveUp(d) PROVE PendingInv'
  BY <1>2, <1>0 DEF Send, GiveUp, server
<1>3. ASSUME NEW s \in Slot, Complete(s) PROVE PendingInv'
  <2>1. UNCHANGED <<handling, call>> /\ ready = <<>>
    BY <1>3 DEF Complete, IsWaiting
  <2>2. CASE ready' = Append(ready, [slot |-> s, message |-> Message(s)])
    <3>1. DOMAIN ready' = {1} /\ ready'[1].message = Message(s)
      BY <2>1, <2>2
    <3>2. Message(s) # None => call[Message(s)] \in {"sent", "gaveUp"}
      BY DEF Message
    <3> QED BY <2>1, <3>1, <3>2
  <2>3. CASE ready' = ready
    BY <2>1, <2>3
  <2> QED BY <1>3, <2>2, <2>3 DEF Complete
<1>4. ASSUME NEW s \in Slot, DeadlinePasses(s) PROVE PendingInv'
  BY <1>4 DEF DeadlinePasses
<1>5. ASSUME NEW s \in Slot, NEW answered, Listen(s, answered), UNCHANGED ready,
             handling' = Nothing, \A i \in DOMAIN ready : ready[i].slot # s,
             phase[s] = "Held"
      PROVE  PendingInv'
  <2>1. \A i \in DOMAIN ready : ready[i].message # None => ready[i].message # peer[s]
    BY <1>0, <1>5 DEF SenderInv, AnswerGoesToSender
  <2>2. \A c \in Call : call'[c] = call[c] \/ c = peer[s]
    BY <1>5, ListenIs
  <2> QED BY <1>0, <1>5, <2>1, <2>2, RequestIs
<1>6. ASSUME NEW written, Respond(written) PROVE PendingInv'
  <2>1. handling.slot \in Slot /\ Listen(handling.slot, written)
    BY <1>6, RequestIs DEF Respond
  <2>2. /\ UNCHANGED ready /\ handling' = Nothing /\ phase[handling.slot] = "Held"
        /\ \A i \in DOMAIN ready : ready[i].slot # handling.slot
    BY <1>6 DEF Respond, OwnerInv
  <2> QED BY <1>5, <2>1, <2>2
<1>7. ASSUME NEW held \in holding, NEW written, RespondHeld(held, written) PROVE PendingInv'
  <2>1. held.slot \in Slot /\ Listen(held.slot, written)
    BY <1>7, RequestIs DEF RespondHeld
  <2>2. /\ UNCHANGED ready /\ handling' = Nothing /\ phase[held.slot] = "Held"
        /\ \A i \in DOMAIN ready : ready[i].slot # held.slot
    BY <1>7 DEF RespondHeld, OwnerInv
  <2> QED BY <1>5, <2>1, <2>2
<1>8. CASE ExpireReads
  <2>1. \A c \in Call : call[c] \in {"sent", "gaveUp"} => call'[c] = call[c]
    BY <1>8 DEF ExpireReads, Overdue, Signaled
  <2>2. UNCHANGED <<ready, handling>>
    BY <1>8 DEF ExpireReads
  <2> QED BY <1>0, <2>1, <2>2
<1>9. CASE TakeReady
  <2>1. /\ handling' = ready[1] /\ 1 \in DOMAIN ready
        /\ \A i \in DOMAIN ready' : i + 1 \in DOMAIN ready /\ ready'[i] = ready[i + 1]
    BY <1>9 DEF TakeReady
  <2> QED BY <1>9, <2>1 DEF TakeReady
<1>10. CASE Hold
  BY <1>10, RequestIs DEF Hold
<1>11. CASE UNCHANGED pipeVars
  BY <1>11
<1> QED BY <1>1, <1>2, <1>3, <1>4, <1>6, <1>7, <1>8, <1>9, <1>10, <1>11
           DEF PipeStep, ServerStep, WriteFails

LEMMA ServerStays ==
    ASSUME PipeInv, PendingInv, ClientTypes, [Next]_vars
    PROVE  PipeInv' /\ PendingInv' /\ \A c \in Call : call[c] \in Over => call'[c] = call[c]
<1>1. CASE [PipeStep]_pipeVars
  <2>1. [PipeNext]_pipeVars
    BY <1>1 DEF PipeNext
  <2> QED BY <1>1, <2>1, PipeTypesStep, OwnerStep, SenderStep, PendingStep, OverStays DEF PipeInv
<1>2. CASE \E c \in Call : CannotOpen(c)
  BY <1>2, CannotOpenIs
<1>3. CASE ProcessEnds
  BY <1>3, ProcessEndsIs DEF PipeInv
<1> QED BY <1>1, <1>2, <1>3, PipeIsSeen

LEMMA ClientTypesStep == ClientTypes /\ [Next]_vars => ClientTypes'
<1> SUFFICES ASSUME ClientTypes, [Next]_vars PROVE ClientTypes'
  OBVIOUS
<1> USE DEF ClientTypes, HelperSteps, client, service, vars
<1>1. CASE HelperCalls
  BY <1>1, CallIs DEF HelperCalls, ClientCall
<1>2. CASE AskHandoff
  BY <1>2, CallIs DEF AskHandoff, AskStatus, Ask
<1>3. CASE Handoff
  BY <1>3, CallIs DEF Handoff, Goto
<1>4. CASE KeepAlive
  BY <1>4, CallIs DEF KeepAlive, AskStatus, Ask
<1>5. CASE LauncherStays
  BY <1>5, CallIs DEF LauncherStays, Goto
<1>6. CASE AskCheck
  BY <1>6, CallIs DEF AskCheck, AskStatus, Ask
<1>7. CASE Check
  BY <1>7, CallIs DEF Check, Goto, Restart
<1>8. CASE AskCommit
  BY <1>8, CallIs DEF AskCommit, Ask
<1>9. CASE Judge
  BY <1>9, CallIs DEF Judge, Goto, Restart
<1>10. CASE Unanswered
  BY <1>10, CallIs DEF Unanswered
<1>11. CASE Poll
  BY <1>11, CallIs DEF Poll, AskStatus, Ask
<1>12. CASE Deadline
  BY <1>12, CallIs DEF Deadline, Goto
<1>13. CASE LauncherExits
  BY <1>13, CallIs DEF LauncherExits
<1>14. CASE ClientCall(0)
  BY <1>14, CallIs DEF ClientCall
<1>15. CASE ServeNothing
  BY <1>15, CallIs DEF ServeNothing, Answer, Refresh, Refreshed
<1>16. ASSUME NEW c \in Call, ServeStatus(c) PROVE ClientTypes'
  BY <1>16, CallIs DEF ServeStatus, Answer, Refresh, Refreshed
<1>17. ASSUME NEW c \in Call, ServeCommit(c) PROVE ClientTypes'
  BY <1>17, CallIs DEF ServeCommit, Answer
<1>18. ASSUME NEW c \in Call, RefuseCommit(c) PROVE ClientTypes'
  BY <1>18, CallIs DEF RefuseCommit, Answer, Refresh, Refreshed
<1>19. CASE ServePrepare
  BY <1>19, CallIs DEF ServePrepare
<1>20. CASE RefusePrepare
  BY <1>20, CallIs DEF RefusePrepare, Answer, Refresh, Refreshed
<1>21. CASE PrepareEnds
  BY <1>21, CallIs DEF PrepareEnds
<1>22. CASE PipeWorks
  BY <1>22, CallIs DEF PipeWorks
<1>23. CASE WorkerApplies
  BY <1>23, CallIs DEF WorkerApplies
<1>24. CASE WorkerEnds
  BY <1>24, CallIs DEF WorkerEnds
<1>25. CASE Crash
  BY <1>25, CallIs DEF Crash, ProcessEnds
<1>26. CASE IdleExit
  BY <1>26, CallIs DEF IdleExit, ProcessEnds
<1>27. CASE ServiceStarts
  BY <1>27, CallIs DEF ServiceStarts
<1>28. CASE UNCHANGED vars
  BY <1>28, CallIs
<1> QED BY <1>1, <1>2, <1>3, <1>4, <1>5, <1>6, <1>7, <1>8, <1>9, <1>10, <1>11,
           <1>12, <1>13, <1>14, <1>15, <1>16, <1>17, <1>18, <1>19, <1>20, <1>21,
           <1>22, <1>23, <1>24, <1>25, <1>26, <1>27, <1>28
           DEF Next, HelperStep, ServiceStep

\* Nothing is committed before the Launcher has exited.
LEMMA BeforeStep == ClientTypes /\ BeforeInv /\ [Next]_vars => BeforeInv'
<1> SUFFICES ASSUME ClientTypes, BeforeInv, [Next]_vars PROVE BeforeInv'
  OBVIOUS
<1> USE DEF ClientTypes, BeforeInv, client, service, vars
<1>1. CASE HelperCalls
  BY <1>1, CallIs DEF HelperCalls, ClientCall
<1>2. CASE AskHandoff
  BY <1>2, CallIs DEF AskHandoff, AskStatus, Ask
<1>3. CASE Handoff
  BY <1>3, CallIs DEF Handoff, Goto
<1>4. CASE KeepAlive
  BY <1>4, CallIs DEF KeepAlive, AskStatus, Ask
<1>5. CASE LauncherStays
  BY <1>5, CallIs DEF LauncherStays, Goto
<1>6. CASE AskCheck
  BY <1>6, CallIs DEF AskCheck, AskStatus, Ask
<1>7. CASE Check
  BY <1>7, CallIs DEF Check, Goto, Restart
<1>8. CASE AskCommit
  BY <1>8, CallIs DEF AskCommit, Ask
<1>9. CASE Judge
  BY <1>9, CallIs DEF Judge, Goto, Restart
<1>10. CASE Unanswered
  BY <1>10, CallIs DEF Unanswered
<1>11. CASE Poll
  BY <1>11, CallIs DEF Poll, AskStatus, Ask
<1>12. CASE Deadline
  BY <1>12, CallIs DEF Deadline, Goto
<1>13. CASE LauncherExits
  BY <1>13, CallIs DEF LauncherExits
<1>14. CASE ClientCall(0)
  BY <1>14, CallIs DEF ClientCall
<1>15. CASE ServeNothing
  BY <1>15, CallIs DEF ServeNothing, Answer, Refresh, Refreshed
<1>16. ASSUME NEW c \in Call, ServeStatus(c) PROVE BeforeInv'
  BY <1>16, CallIs DEF ServeStatus, Answer, Refresh, Refreshed
<1>17. ASSUME NEW c \in Call, ServeCommit(c) PROVE BeforeInv'
  BY <1>17, CallIs DEF ServeCommit, Answer
<1>18. ASSUME NEW c \in Call, RefuseCommit(c) PROVE BeforeInv'
  BY <1>18, CallIs DEF RefuseCommit, Answer, Refresh, Refreshed
<1>19. CASE ServePrepare
  BY <1>19, CallIs DEF ServePrepare
<1>20. CASE RefusePrepare
  BY <1>20, CallIs DEF RefusePrepare, Answer, Refresh, Refreshed
<1>21. CASE PrepareEnds
  BY <1>21, CallIs DEF PrepareEnds
<1>22. CASE PipeWorks
  BY <1>22, CallIs DEF PipeWorks
<1>23. CASE WorkerApplies
  BY <1>23, CallIs DEF WorkerApplies
<1>24. CASE WorkerEnds
  BY <1>24, CallIs DEF WorkerEnds
<1>25. CASE Crash
  BY <1>25, CallIs DEF Crash, ProcessEnds
<1>26. CASE IdleExit
  BY <1>26, CallIs DEF IdleExit, ProcessEnds
<1>27. CASE ServiceStarts
  BY <1>27, CallIs DEF ServiceStarts
<1>28. CASE UNCHANGED vars
  BY <1>28, CallIs
<1> QED BY <1>1, <1>2, <1>3, <1>4, <1>5, <1>6, <1>7, <1>8, <1>9, <1>10, <1>11,
           <1>12, <1>13, <1>14, <1>15, <1>16, <1>17, <1>18, <1>19, <1>20, <1>21,
           <1>22, <1>23, <1>24, <1>25, <1>26, <1>27, <1>28
           DEF Next, HelperStep, ServiceStep

\* The service thread, its worker and the files keep step.
LEMMA JobStep == ClientTypes /\ BeforeInv /\ JobInv /\ [Next]_vars => JobInv'
<1> SUFFICES ASSUME ClientTypes, BeforeInv, JobInv, [Next]_vars PROVE JobInv'
  OBVIOUS
<1> USE DEF ClientTypes, BeforeInv, JobInv, client, service, vars
<1>1. CASE HelperCalls
  BY <1>1 DEF HelperCalls, ClientCall
<1>2. CASE AskHandoff
  BY <1>2 DEF AskHandoff, AskStatus, Ask
<1>3. CASE Handoff
  BY <1>3 DEF Handoff, Goto
<1>4. CASE KeepAlive
  BY <1>4 DEF KeepAlive, AskStatus, Ask
<1>5. CASE LauncherStays
  BY <1>5 DEF LauncherStays, Goto
<1>6. CASE AskCheck
  BY <1>6 DEF AskCheck, AskStatus, Ask
<1>7. CASE Check
  BY <1>7 DEF Check, Goto, Restart
<1>8. CASE AskCommit
  BY <1>8 DEF AskCommit, Ask
<1>9. CASE Judge
  BY <1>9 DEF Judge, Goto, Restart
<1>10. CASE Unanswered
  BY <1>10 DEF Unanswered
<1>11. CASE Poll
  BY <1>11 DEF Poll, AskStatus, Ask
<1>12. CASE Deadline
  BY <1>12 DEF Deadline, Goto
<1>13. CASE LauncherExits
  BY <1>13 DEF LauncherExits
<1>14. CASE ClientCall(0)
  BY <1>14 DEF ClientCall
<1>15. CASE ServeNothing
  BY <1>15 DEF ServeNothing, Answer, Refresh, Refreshed
<1>16. ASSUME NEW c \in Call, ServeStatus(c) PROVE JobInv'
  BY <1>16 DEF ServeStatus, Answer, Refresh, Refreshed
<1>17. ASSUME NEW c \in Call, ServeCommit(c) PROVE JobInv'
  BY <1>17 DEF ServeCommit, Answer
<1>18. ASSUME NEW c \in Call, RefuseCommit(c) PROVE JobInv'
  BY <1>18 DEF RefuseCommit, Answer, Refresh, Refreshed
<1>19. CASE ServePrepare
  BY <1>19 DEF ServePrepare
<1>20. CASE RefusePrepare
  BY <1>20 DEF RefusePrepare, Answer, Refresh, Refreshed
<1>21. CASE PrepareEnds
  BY <1>21 DEF PrepareEnds
<1>22. CASE PipeWorks
  BY <1>22 DEF PipeWorks
<1>23. CASE WorkerApplies
  BY <1>23 DEF WorkerApplies
<1>24. CASE WorkerEnds
  BY <1>24 DEF WorkerEnds
<1>25. CASE Crash
  BY <1>25 DEF Crash, ProcessEnds
<1>26. CASE IdleExit
  BY <1>26 DEF IdleExit, ProcessEnds
<1>27. CASE ServiceStarts
  BY <1>27 DEF ServiceStarts
<1>28. CASE UNCHANGED vars
  BY <1>28
<1> QED BY <1>1, <1>2, <1>3, <1>4, <1>5, <1>6, <1>7, <1>8, <1>9, <1>10, <1>11,
           <1>12, <1>13, <1>14, <1>15, <1>16, <1>17, <1>18, <1>19, <1>20, <1>21,
           <1>22, <1>23, <1>24, <1>25, <1>26, <1>27, <1>28
           DEF Next, HelperStep, ServiceStep

\* Once the helper has an answer to rely on, all stays quiet.
LEMMA AnswerStep == PipeInv /\ PendingInv /\ ClientTypes /\ BeforeInv /\ JobInv /\ AnswerInv /\ [Next]_vars => AnswerInv'
<1> SUFFICES ASSUME PipeInv, PendingInv, ClientTypes, BeforeInv, JobInv, AnswerInv, [Next]_vars PROVE AnswerInv'
  OBVIOUS
<1> USE DEF ClientTypes, BeforeInv, JobInv, AnswerInv, Quiet, Result, MayCall,
        IsOver, Over, IsHandling, CommitWasPending, PendingInv, client, service, vars
<1>0. (\A c \in Call : call[c] \in Over => call'[c] = call[c]) /\ \A c \in Call : c # None
  BY ServerStays, PipeOK
<1>1. CASE HelperCalls
  BY <1>1, <1>0, CallIs DEF HelperCalls, ClientCall
<1>2. CASE AskHandoff
  BY <1>2, <1>0, CallIs DEF AskHandoff, AskStatus, Ask
<1>3. CASE Handoff
  BY <1>3, <1>0, CallIs DEF Handoff, Goto
<1>4. CASE KeepAlive
  BY <1>4, <1>0, CallIs DEF KeepAlive, AskStatus, Ask
<1>5. CASE LauncherStays
  BY <1>5, <1>0, CallIs DEF LauncherStays, Goto
<1>6. CASE AskCheck
  BY <1>6, <1>0, CallIs DEF AskCheck, AskStatus, Ask
<1>7. CASE Check
  BY <1>7, <1>0, CallIs DEF Check, Goto, Restart
<1>8. CASE AskCommit
  BY <1>8, <1>0, CallIs DEF AskCommit, Ask
<1>9. CASE Judge
  BY <1>9, <1>0, CallIs DEF Judge, Goto, Restart
<1>10. CASE Unanswered
  BY <1>10, <1>0, CallIs DEF Unanswered
<1>11. CASE Poll
  BY <1>11, <1>0, CallIs DEF Poll, AskStatus, Ask
<1>12. CASE Deadline
  BY <1>12, <1>0, CallIs DEF Deadline, Goto
<1>13. CASE LauncherExits
  BY <1>13, <1>0, CallIs DEF LauncherExits
<1>14. CASE ClientCall(0)
  BY <1>14, <1>0, CallIs DEF ClientCall
<1>15. CASE ServeNothing
  BY <1>15, <1>0, CallIs DEF ServeNothing, Answer, Refresh, Refreshed
<1>16. ASSUME NEW c \in Call, ServeStatus(c) PROVE AnswerInv'
  <2>1. handling.message = c /\ c # commitCall /\ Refresh /\ UNCHANGED <<client, up, files>>
    BY <1>16 DEF ServeStatus, Answer
  <2>2. CASE c = mine
    <3>1. reply' \in {job', "rejected"}
      BY <1>16, <2>1, <2>2 DEF ServeStatus, Answer
    <3>2. call[mine] \in {"sent", "gaveUp"}
      BY <1>0, <2>1, <2>2
    <3>3. commitCall # 0 => step # "original"
      BY <3>2
    <3> QED BY <1>0, <2>1, <2>2, <3>1, <3>3, CallIs DEF Refresh, Refreshed
  <2>3. CASE c # mine
    <3>1. reply' = reply
      BY <1>16, <2>3 DEF ServeStatus, Answer
    <3> QED BY <1>0, <2>1, <2>3, <3>1, CallIs DEF Refresh, Refreshed
  <2> QED BY <2>2, <2>3
<1>17. ASSUME NEW c \in Call, ServeCommit(c) PROVE AnswerInv'
  BY <1>17, <1>0, CallIs DEF ServeCommit, Answer
<1>18. ASSUME NEW c \in Call, RefuseCommit(c) PROVE AnswerInv'
  BY <1>18, <1>0, CallIs DEF RefuseCommit, Answer, Refresh, Refreshed
<1>19. CASE ServePrepare
  BY <1>19, <1>0, CallIs DEF ServePrepare
<1>20. CASE RefusePrepare
  BY <1>20, <1>0, CallIs DEF RefusePrepare, Answer, Refresh, Refreshed
<1>21. CASE PrepareEnds
  BY <1>21, <1>0, CallIs DEF PrepareEnds
<1>22. CASE PipeWorks
  BY <1>22, <1>0, CallIs DEF PipeWorks
<1>23. CASE WorkerApplies
  BY <1>23, <1>0, CallIs DEF WorkerApplies
<1>24. CASE WorkerEnds
  BY <1>24, <1>0, CallIs DEF WorkerEnds
<1>25. CASE Crash
  BY <1>25, <1>0, CallIs DEF Crash, ProcessEnds
<1>26. CASE IdleExit
  BY <1>26, <1>0, CallIs DEF IdleExit, ProcessEnds
<1>27. CASE ServiceStarts
  BY <1>27, <1>0, CallIs DEF ServiceStarts
<1>28. CASE UNCHANGED vars
  BY <1>28, <1>0, CallIs
<1> QED BY <1>1, <1>2, <1>3, <1>4, <1>5, <1>6, <1>7, <1>8, <1>9, <1>10, <1>11,
           <1>12, <1>13, <1>14, <1>15, <1>16, <1>17, <1>18, <1>19, <1>20, <1>21,
           <1>22, <1>23, <1>24, <1>25, <1>26, <1>27, <1>28
           DEF Next, HelperStep, ServiceStep

-----------------------------------------------------------------------------
(* What follows *)

LEMMA Initially == Init => IInv
<1> SUFFICES ASSUME Init PROVE IInv
  OBVIOUS
<1>1. /\ phase = [s \in Slot |-> "Listening"] /\ peer = [s \in Slot |-> None]
      /\ overdue = [s \in Slot |-> FALSE]
      /\ ready = <<>> /\ handling = Nothing /\ holding = {}
      /\ call = [c \in Call |-> "new"]
  BY DEF Init, Listening
<1>2. PipeTypes
  BY <1>1 DEF PipeTypes, CallStates
<1>3. OwnerInv /\ SenderInv
  BY <1>1, RequestIs DEF OwnerInv, SenderInv, AnswerGoesToSender
<1>4. PendingInv
  BY <1>1, RequestIs DEF PendingInv
<1>5. ClientTypes /\ BeforeInv /\ JobInv /\ AnswerInv
  BY CallIs DEF Init, ClientTypes, HelperSteps, BeforeInv, JobInv, AnswerInv
<1> QED BY <1>2, <1>3, <1>4, <1>5 DEF IInv, PipeInv

LEMMA Invariance == Spec => []IInv
<1>1. IInv /\ [Next]_vars => IInv'
  BY ServerStays, ClientTypesStep, BeforeStep, JobStep, AnswerStep DEF IInv
<1> QED BY Initially, <1>1, PTL DEF Spec

\* A Launcher that runs, the old one or one that the helper started, finds its files
\* complete, however answers and calls are lost, other clients interfere, and the
\* service ends and starts, unless the helper relied on a status of "prepared" while
\* a commit it no longer waited for was pending (commit_after_launcher_exit,
\* wait_for_job_completion_with).
THEOREM LauncherIsCompleteHolds == Spec => []LauncherIsComplete
<1>1. IInv => LauncherIsComplete
  BY DEF IInv, ClientTypes, BeforeInv, AnswerInv, Quiet, LauncherIsComplete
<1> QED BY <1>1, Invariance, PTL

\* What the helper reports of the update is what the files are from then on, with
\* the same exception.
THEOREM OutcomeTruthfulHolds == Spec => []OutcomeTruthful
<1>1. IInv => OutcomeTruthful
  BY DEF IInv, AnswerInv, OutcomeTruthful
<1> QED BY <1>1, Invariance, PTL
=============================================================================
