------------------------------- MODULE Router -------------------------------
(***************************************************************************)
(* cmd/server/main_monitoring.go: the process that connects the ask_user   *)
(* tool to the WebSocket clients.  It composes AskUser (the tool), Sockets *)
(* (the WebSocket server) and the two goroutines of main between them:     *)
(*                                                                         *)
(*   Execute --questionCh--> bridge --send--> clients                      *)
(*   Execute <-responseCh of the call- handler <--responseCh-- bridge      *)
(*                                             <--messageCh-- clients      *)
(*                                                                         *)
(* handleWebSocketToMCP is the bridge, handleUserResponses the handler.    *)
(* Sends to questionCh and to main's responseCh block while they are full. *)
(* Request IDs are taken to be distinct here, so a call's ID is the call   *)
(* itself; AskUser has what happens when two calls draw the same ID.       *)
(* generateClientID is taken to give every connection an ID of its own.    *)
(***************************************************************************)
EXTENDS Naturals, Sequences

CONSTANTS Calls, Clients, NoClientsAnswer,
          NoCall, NoID, NoAnswer, NoClient, TheHandler,
          QuestionCap,   \* capacity of questionCh, 10 in the code
          ResponseCap,   \* capacity of main's responseCh, 10 in the code
          MessageCap, SendCap,
          Casts          \* bound: who may take part in a behaviour, and how

ASSUME RouterAssumption ==
  /\ QuestionCap \in Nat \ {0} /\ ResponseCap \in Nat \ {0}
  /\ MessageCap \in Nat \ {0} /\ SendCap \in Nat \ {0}
  /\ NoClientsAnswer \notin Calls
  /\ NoCall \notin Calls /\ NoID \notin Calls
  /\ NoAnswer \notin Calls \cup {NoClientsAnswer}
  /\ NoClient \notin Clients
  /\ Casts \subseteq [calls : SUBSET Calls, fickle : SUBSET Calls,
                       clients : SUBSET Clients, types : SUBSET STRING]

Handlers == {TheHandler}

\* Nobody looks into an answer's text, so what a user says is written as the
\* call it was said to; the bridge has an answer of its own.
Answers == Calls \cup {NoClientsAnswer}

\* What a client sends.  "other" is an unknown type or a malformed response.
Requests == [type : {"connect", "disconnect", "other"}]
              \cup [type : {"user_response"}, call : Calls]

\* What a client receives: the question of a call, or the acknowledgement.
Ack == [type |-> "connect_ack"]
Question(c) == [type |-> "ask_user", call |-> c]
Frames == {Ack} \cup {Question(c) : c \in Calls}

VARIABLES pc, requestID, pendingRequests, buffer, closed, outcome, answer,
          target, held, crashed, offers, accepted
VARIABLES link, send, messageCh, hub, shutdown
VARIABLES
  questionCh,       \* calls whose questions wait for the bridge
  responseCh,       \* main's responseCh
  clients,          \* the bridge's clients: who it has a response sender for
  activeQuestions,  \* request ID -> the client last asked, or NoClient
  bridge,           \* where the bridge is: at its "select", in a "fanout", at
                    \* a blocking "send" to responseCh, or "done"
  asking,           \* the call whose question is being fanned out
  todo,             \* the clients the fan-out has still to reach
  sending           \* what the bridge is sending to responseCh
VARIABLE cast       \* bound: the calls that are made, those of them that may be
                    \* malformed or cancelled, the clients that connect, and the
                    \* types of message they send

toolVars == <<pc, requestID, pendingRequests, buffer, closed, outcome, answer,
              target, held, crashed, offers, accepted>>
socketVars == <<link, send, messageCh, hub, shutdown>>
bridgeVars == <<clients, activeQuestions, bridge, asking, todo, sending>>
vars == <<toolVars, socketVars, questionCh, responseCh, bridgeVars, cast>>

Tool == INSTANCE AskUser WITH RequestIDs <- Calls
Socket == INSTANCE Sockets

Responses == [call : Calls, answer : Answers]
NoResponse == [call |-> NoCall, answer |-> NoAnswer]

Init ==
  /\ Tool!Init
  /\ Socket!Init
  /\ questionCh = <<>>
  /\ responseCh = <<>>
  /\ clients = {}
  /\ activeQuestions = [c \in Calls |-> NoClient]
  /\ bridge = "select"
  /\ asking = NoCall
  /\ todo = {}
  /\ sending = NoResponse
  /\ cast \in Casts

-----------------------------------------------------------------------------
(* The tool calls *)

\* The question handler given to the tool: a send to questionCh that waits for
\* room, with no timer and no context.
AskQuestion(c) ==
  /\ Len(questionCh) < QuestionCap
  /\ Tool!QuestionSent(c)
  /\ questionCh' = Append(questionCh, c)
  /\ UNCHANGED <<socketVars, responseCh, bridgeVars>>

\* The rest of Execute goes on inside the tool.
ToolStep(c) ==
  /\ \/ Tool!ReceiveResponse(c) \/ Tool!TimeOut(c)
     \/ Tool!Unregister(c) \/ Tool!CloseChannel(c)
  /\ UNCHANGED <<socketVars, questionCh, responseCh, bridgeVars>>

\* The agent asks, with bad parameters or good ones, or gives up.
CallerStep(c) ==
  /\ c \in cast.calls
  /\ \/ Tool!Register(c, c)
     \/ c \in cast.fickle /\ (Tool!RejectParams(c) \/ Tool!ContextDone(c))
  /\ UNCHANGED <<socketVars, questionCh, responseCh, bridgeVars>>

-----------------------------------------------------------------------------
(* handleWebSocketToMCP *)

\* Fault: the bridge waits for a client before it takes a question.
FaultyWaitsForClient ==
  /\ bridge = "select" /\ questionCh # <<>> /\ clients # {}
  /\ questionCh' = Tail(questionCh)
  /\ bridge' = "fanout"
  /\ asking' = Head(questionCh)
  /\ todo' = clients
  /\ UNCHANGED <<toolVars, socketVars, responseCh, clients, activeQuestions, sending>>

\* With no client known the bridge answers the question itself.
TakeQuestion ==
  /\ bridge = "select" /\ questionCh # <<>>
  /\ questionCh' = Tail(questionCh)
  /\ IF clients = {}
     THEN /\ bridge' = "send"
          /\ sending' = [call |-> Head(questionCh), answer |-> NoClientsAnswer]
          /\ UNCHANGED <<asking, todo>>
     ELSE /\ bridge' = "fanout"
          /\ asking' = Head(questionCh)
          /\ todo' = clients
          /\ UNCHANGED sending
  /\ UNCHANGED <<toolVars, socketVars, responseCh, clients, activeQuestions>>

\* SendResponse on the send channel of a connection the hub has unregistered:
\* the channel is closed and the bridge has no recover.
SendPanics(cl) ==
  /\ link[cl] = "closed"
  /\ bridge' = "panicked"
  /\ UNCHANGED <<toolVars, socketVars>>

SendFrame(cl, f) ==
  \/ Socket!SendResponse(cl, f) /\ UNCHANGED <<toolVars, bridge>>
  \/ SendPanics(cl)

\* The fan-out, one client at a time, in the random order of a map range.
FanOut(cl) ==
  /\ bridge = "fanout" /\ cl \in todo
  /\ activeQuestions' = [activeQuestions EXCEPT ![asking] = cl]
  /\ SendFrame(cl, Question(asking))
  /\ todo' = todo \ {cl}
  /\ UNCHANGED <<questionCh, responseCh, clients, asking, sending>>

FanOutEnds ==
  /\ bridge = "fanout" /\ todo = {}
  /\ bridge' = "select"
  /\ asking' = NoCall
  /\ UNCHANGED <<toolVars, socketVars, questionCh, responseCh, clients, activeQuestions,
                 todo, sending>>

\* Whatever its type, a message leaves its sender in the clients map.
Incoming == Head(messageCh)
TakeFrom(type) ==
  /\ bridge = "select" /\ messageCh # <<>>
  /\ Incoming.request.type = type
  /\ UNCHANGED <<questionCh, responseCh, activeQuestions, asking, todo>>

\* Fault: a response goes to whatever question is active.
FaultyAnyActive ==
  /\ TakeFrom("user_response")
  /\ Socket!TakeMessage
  /\ clients' = clients \cup {Incoming.client}
  /\ \E c \in Calls :
        /\ activeQuestions[c] # NoClient
        /\ bridge' = "send"
        /\ sending' = [call |-> c, answer |-> Incoming.request.call]
  /\ UNCHANGED toolVars

\* user_response: forwarded if its question is active, else ignored.
TakeResponse ==
  /\ TakeFrom("user_response")
  /\ Socket!TakeMessage
  /\ clients' = clients \cup {Incoming.client}
  /\ IF activeQuestions[Incoming.request.call] # NoClient
     THEN /\ bridge' = "send"
          /\ sending' = [call |-> Incoming.request.call, answer |-> Incoming.request.call]
     ELSE UNCHANGED <<bridge, sending>>
  /\ UNCHANGED toolVars

\* connect: acknowledged to the sender.
TakeConnect ==
  /\ TakeFrom("connect")
  /\ clients' = clients \cup {Incoming.client}
  /\ \/ Socket!TakeAndRespond(Ack) /\ UNCHANGED <<toolVars, bridge>>
     \/ SendPanics(Incoming.client)
  /\ UNCHANGED sending

TakeDisconnect ==
  /\ TakeFrom("disconnect")
  /\ Socket!TakeMessage
  /\ clients' = clients \ {Incoming.client}
  /\ UNCHANGED <<toolVars, bridge, sending>>

TakeOther ==
  /\ TakeFrom("other")
  /\ Socket!TakeMessage
  /\ clients' = clients \cup {Incoming.client}
  /\ UNCHANGED <<toolVars, bridge, sending>>

\* Fault: the send does not wait for room.
FaultySendNow ==
  /\ bridge = "send"
  /\ responseCh' = Append(responseCh, sending)
  /\ activeQuestions' = [activeQuestions EXCEPT ![sending.call] = NoClient]
  /\ sending' = NoResponse
  /\ bridge' = "select"
  /\ UNCHANGED <<toolVars, socketVars, questionCh, clients, asking, todo>>

\* Fault: an answered question stays active.
FaultyStaysActive ==
  /\ bridge = "send" /\ Len(responseCh) < ResponseCap
  /\ responseCh' = Append(responseCh, sending)
  /\ sending' = NoResponse
  /\ bridge' = "select"
  /\ UNCHANGED <<toolVars, socketVars, questionCh, clients, activeQuestions, asking, todo>>

\* The blocking send to responseCh; a forwarded question is no longer active.
SendToHandler ==
  /\ bridge = "send" /\ Len(responseCh) < ResponseCap
  /\ responseCh' = Append(responseCh, sending)
  /\ activeQuestions' = [activeQuestions EXCEPT ![sending.call] = NoClient]
  /\ sending' = NoResponse
  /\ bridge' = "select"
  /\ UNCHANGED <<toolVars, socketVars, questionCh, clients, asking, todo>>

-----------------------------------------------------------------------------
(* handleUserResponses *)

HandlerTakes ==
  /\ responseCh # <<>>
  /\ Tool!Lookup(TheHandler, Head(responseCh).call, Head(responseCh).answer)
  /\ responseCh' = Tail(responseCh)
  /\ UNCHANGED <<socketVars, questionCh, bridgeVars>>

HandlerSends ==
  /\ Tool!HandlerStep(TheHandler)
  /\ UNCHANGED <<socketVars, questionCh, responseCh, bridgeVars>>

-----------------------------------------------------------------------------
(* The clients *)

\* A client may send anything at any time: a response again and again, or to a
\* question nobody has put to it.
ClientSends(cl, r) ==
  /\ r.type \in cast.types
  /\ Socket!Forward(cl, r)
  /\ UNCHANGED <<toolVars, questionCh, responseCh, bridgeVars>>

\* The sockets live their own life; shutting them down is not part of this
\* module.
SocketStep ==
  /\ \/ \E cl \in Clients : \/ cl \in cast.clients /\ Socket!Connect(cl)
                            \/ Socket!WriteOut(cl) \/ Socket!Break(cl) \/ Socket!Unregister(cl)
     \/ Socket!HubTakesMessage
  /\ UNCHANGED <<toolVars, questionCh, responseCh, bridgeVars>>

-----------------------------------------------------------------------------
BridgeStep ==
  \/ TakeQuestion \/ FanOutEnds \/ SendToHandler
  \/ TakeResponse \/ TakeConnect \/ TakeDisconnect \/ TakeOther
  \/ \E cl \in Clients : FanOut(cl)

HandlerStep == HandlerTakes \/ HandlerSends

Step ==
  \/ \E c \in Calls : AskQuestion(c) \/ ToolStep(c) \/ CallerStep(c)
  \/ BridgeStep
  \/ HandlerStep
  \/ \E cl \in Clients, r \in Requests : ClientSends(cl, r)
  \/ SocketStep

\* A panic in the handler or in the bridge ends the process.
Alive == ~crashed /\ bridge # "panicked"

Dead == ~Alive /\ UNCHANGED vars

\* Every call has returned and the goroutines of main wait at their selects:
\* nothing more need happen.
Quiet ==
  /\ \A c \in cast.calls : pc[c] = "returned"
  /\ questionCh = <<>> /\ responseCh = <<>> /\ messageCh = <<>>
  /\ bridge = "select" /\ target[TheHandler] = NoCall
  /\ UNCHANGED vars

Next == (Alive /\ Step /\ UNCHANGED cast) \/ Dead \/ Quiet

Goes(A) == Alive /\ A /\ UNCHANGED cast

\* The goroutines of the process are scheduled and timers fire.  Nothing is
\* asked of users, of connections or of agents.  A select that finds questionCh
\* ready again and again picks it in the end: Go chooses at random.
Fairness ==
  /\ \A c \in Calls : WF_vars(Goes(AskQuestion(c) \/ ToolStep(c)))
  /\ WF_vars(Goes(BridgeStep))
  /\ SF_vars(Goes(TakeQuestion))
  /\ WF_vars(Goes(HandlerStep))

Spec == Init /\ [][Next]_vars

FairSpec == Spec /\ Fairness

-----------------------------------------------------------------------------
(* Properties *)

TypeOK ==
  /\ Tool!TypeOK
  /\ questionCh \in Seq(Calls) /\ Len(questionCh) <= QuestionCap
  /\ responseCh \in Seq(Responses) /\ Len(responseCh) <= ResponseCap
  /\ messageCh \in Seq(Socket!Messages) /\ Len(messageCh) <= MessageCap
  /\ \A cl \in Clients : send[cl] \in Seq(Frames) /\ Len(send[cl]) <= SendCap
  /\ clients \subseteq Clients
  /\ activeQuestions \in [Calls -> Clients \cup {NoClient}]
  /\ bridge \in {"select", "fanout", "send", "panicked"}
  /\ bridge = "send" <=> sending \in Responses
  /\ todo \subseteq clients

\* A question leads to at most one response, wherever that is: queued in
\* responseCh, with the bridge, with the handler, or handed to the call.  This
\* holds although every client is asked and each may answer again and again, so
\* the tool's "channel full" branch is never taken here.
Queued(c) == \E i \in DOMAIN responseCh : responseCh[i].call = c
WithBridge(c) == sending.call = c
WithHandler(c) == target[TheHandler] = c
Handed(c) == accepted[c] # <<>>
OneResponsePerQuestion ==
  \A c \in Calls :
     /\ Queued(c) => ~WithBridge(c) /\ ~WithHandler(c) /\ ~Handed(c)
     /\ WithBridge(c) => ~WithHandler(c) /\ ~Handed(c)
     /\ WithHandler(c) => ~Handed(c)
     /\ Len(accepted[c]) <= 1
     /\ \A i, j \in DOMAIN responseCh :
          responseCh[i].call = c /\ responseCh[j].call = c => i = j

\* What a call returns is what some user said to its own question, or the
\* no-clients text, and that only if no client has been or will be asked.
AnswerIsFromUser ==
  \A c \in Calls :
     outcome[c] = "answered" =>
       IF answer[c] = NoClientsAnswer
       THEN /\ activeQuestions[c] = NoClient
            /\ \A cl \in Clients, i \in 1..SendCap :
                  i \in DOMAIN send[cl] => send[cl][i] # Question(c)
       ELSE answer[c] = c

\* A call that has registered returns, through channels that block when they
\* are full, unless the process dies.
CallReturns ==
  \A c \in Calls :
     (pc[c] = "registered") ~> (pc[c] = "returned" \/ ~Alive)

\* README.md:378: "Connection drops: Automatically removes disconnected clients".
\* By the time the bridge takes a question, it has no client in its map any more
\* that the server has dropped; to one that it has, it would send on a closed channel.
DroppedClientsRemoved ==
  [][\A cl \in Clients : cl \in todo' /\ cl \notin todo => link[cl] # "closed"]_vars
=============================================================================
