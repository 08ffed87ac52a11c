----------------------------- MODULE RouterProof -----------------------------
(***************************************************************************)
(* Proofs about Router for every number of calls and clients and every     *)
(* capacity of the channels.  What AskUserProof proves of the tool holds   *)
(* here too, as the tool runs here as specified there.                     *)
(***************************************************************************)
EXTENDS Router, TLAPS

Proved == INSTANCE AskUserProof WITH RequestIDs <- Calls

LEMMA Values == /\ NoCall \notin Calls /\ NoID \notin Calls /\ NoAnswer \notin Answers
                /\ QuestionCap \in Nat /\ ResponseCap \in Nat
                /\ MessageCap \in Nat /\ SendCap \in Nat
  BY RouterAssumption DEF RouterAssumption, Answers

-----------------------------------------------------------------------------
(* The tool inside the router *)

LEMMA SameTool ==
  /\ Tool!TypeOK <=> Proved!TypeOK
  /\ Tool!Next <=> Proved!Next
  /\ Tool!vars = Proved!vars
<1>1. Tool!TypeOK <=> Proved!TypeOK
  BY DEF Tool!TypeOK, Proved!TypeOK, Tool!PCs, Proved!PCs, Tool!Outcomes, Proved!Outcomes
<1>2. Tool!Next <=> Proved!Next
  BY DEF Tool!Next, Proved!Next, Tool!Step, Proved!Step, Tool!Dead, Proved!Dead,
     Tool!CallStep, Proved!CallStep, Tool!HandlerStep, Proved!HandlerStep,
     Tool!RejectParams, Proved!RejectParams, Tool!Register, Proved!Register,
     Tool!QuestionSent, Proved!QuestionSent, Tool!QuestionFailed, Proved!QuestionFailed,
     Tool!ReceiveResponse, Proved!ReceiveResponse, Tool!TimeOut, Proved!TimeOut,
     Tool!ContextDone, Proved!ContextDone, Tool!Leave, Proved!Leave,
     Tool!Unregister, Proved!Unregister, Tool!CloseChannel, Proved!CloseChannel,
     Tool!Lookup, Proved!Lookup, Tool!Registered, Proved!Registered,
     Tool!SendResponse, Proved!SendResponse, Tool!ResponseDropped, Proved!ResponseDropped,
     Tool!SendPanics, Proved!SendPanics, Tool!HandlerReturns, Proved!HandlerReturns,
     Tool!callVars, Proved!callVars, Tool!chanVars, Proved!chanVars,
     Tool!handlerVars, Proved!handlerVars, Tool!history, Proved!history,
     Tool!vars, Proved!vars
<1>3. Tool!vars = Proved!vars
  BY DEF Tool!vars, Proved!vars, Tool!callVars, Proved!callVars, Tool!chanVars,
     Proved!chanVars, Tool!handlerVars, Proved!handlerVars, Tool!history, Proved!history
<1> QED
  BY <1>1, <1>2, <1>3

LEMMA ToolStepTypes == Tool!TypeOK /\ [Tool!Next]_(Tool!vars) => Tool!TypeOK'
<1>1. (Tool!TypeOK <=> Proved!TypeOK)'
  BY SameTool, PTL
<1>2. Proved!TypeOK /\ [Proved!Next]_(Proved!vars) => Proved!TypeOK'
  BY Values, Proved!TypeStep
<1>3. (Tool!vars = Proved!vars)'
  BY SameTool, PTL
<1> QED
  BY <1>1, <1>2, <1>3, SameTool

-----------------------------------------------------------------------------
(* Types *)

\* TypeOK, made inductive: what is being fanned out or sent, and where a
\* connection is.
Types ==
  /\ responseCh \in Seq(Responses) /\ Len(responseCh) <= ResponseCap
  /\ questionCh \in Seq(Calls) /\ Len(questionCh) <= QuestionCap
  /\ messageCh \in Seq(Socket!Messages)
  /\ Len(messageCh) <= MessageCap
  /\ send \in [Clients -> Seq(Frames)]
  /\ \A cl \in Clients : Len(send[cl]) <= SendCap
  /\ link \in [Clients -> {"new", "open", "broken", "closed"}]
  /\ clients \subseteq Clients /\ todo \subseteq clients
  /\ activeQuestions \in [Calls -> Clients \cup {NoClient}]
  /\ bridge \in {"select", "fanout", "send", "panicked"}
  /\ bridge \in {"select", "send"} => asking = NoCall /\ todo = {}
  /\ bridge = "fanout" => asking \in Calls
  /\ IF bridge = "send" THEN sending \in Responses ELSE sending = NoResponse

LEMMA TypesInit == Init => Types
  BY Values
  DEF Init, Types, Socket!Init, NoResponse, Responses

\* A step of the tool alone leaves the rest of the types alone.
LEMMA NoBridge ==
  ASSUME Types, UNCHANGED <<socketVars, questionCh, responseCh, bridgeVars>>
  PROVE  Types'
  BY DEF Types, socketVars, bridgeVars

LEMMA FrameQueued ==
  ASSUME Types, NEW cl \in Clients, NEW f \in Frames, Socket!Enqueue(cl, f)
  PROVE  /\ send' \in [Clients -> Seq(Frames)]
         /\ \A d \in Clients : Len(send'[d]) <= SendCap
  BY Values DEF Types, Socket!Enqueue

LEMMA BridgeTypes ==
  ASSUME Types, BridgeStep
  PROVE  Types'
<1> USE Values DEF Types, bridgeVars, socketVars
<1>n. NoResponse \notin Responses
  BY DEF NoResponse, Responses
<1>1. CASE TakeQuestion
  <2>1. Head(questionCh) \in Calls /\ Tail(questionCh) \in Seq(Calls)
        /\ Len(Tail(questionCh)) <= QuestionCap
    BY <1>1 DEF TakeQuestion
  <2>2. [call |-> Head(questionCh), answer |-> NoClientsAnswer] \in Responses
    BY <2>1 DEF Responses, Answers
  <2> QED
    BY <1>1, <1>n, <2>1, <2>2 DEF TakeQuestion
<1>2. CASE FanOutEnds
  BY <1>2 DEF FanOutEnds
<1>3. CASE SendToHandler
  <2>1. sending.call \in Calls
    BY <1>3 DEF SendToHandler, Responses
  <2>2. Append(responseCh, sending) \in Seq(Responses)
        /\ Len(Append(responseCh, sending)) <= ResponseCap
    BY <1>3 DEF SendToHandler
  <2> QED
    BY <1>3, <2>1, <2>2 DEF SendToHandler
<1>4. ASSUME messageCh # <<>>
      PROVE  /\ Incoming.client \in Clients /\ Incoming.request \in Requests
             /\ Tail(messageCh) \in Seq(Socket!Messages)
             /\ Len(Tail(messageCh)) <= MessageCap
  <2>1. Head(messageCh) \in Socket!Messages
        /\ Tail(messageCh) \in Seq(Socket!Messages)
        /\ Len(Tail(messageCh)) <= MessageCap
    BY <1>4
  <2> QED
    BY <2>1 DEF Incoming, Socket!Messages
<1>5. CASE TakeResponse
  <2>1. Incoming.request.call \in Calls
    BY <1>4, <1>5 DEF TakeResponse, TakeFrom, Requests
  <2>2. [call |-> Incoming.request.call, answer |-> Incoming.request.call] \in Responses
    BY <2>1 DEF Responses, Answers
  <2> QED
    BY <1>4, <1>5, <2>1, <2>2 DEF TakeResponse, TakeFrom, Socket!TakeMessage
<1>6. CASE TakeConnect
  <2>1. Ack \in Frames
    BY DEF Frames
  <2>2. CASE SendPanics(Incoming.client)
    BY <1>4, <1>6, <2>2 DEF TakeConnect, TakeFrom, SendPanics
  <2>3. CASE Socket!TakeAndRespond(Ack) /\ UNCHANGED <<toolVars, bridge>>
    <3>1. /\ send' \in [Clients -> Seq(Frames)]
          /\ \A d \in Clients : Len(send'[d]) <= SendCap
      BY <1>4, <1>6, <2>1, <2>3, FrameQueued DEF TakeConnect, TakeFrom, Socket!TakeAndRespond, Incoming
    <3> QED
      BY <1>4, <1>6, <2>3, <3>1 DEF TakeConnect, TakeFrom, Socket!TakeAndRespond
  <2> QED
    BY <1>6, <2>2, <2>3 DEF TakeConnect
<1>7. CASE TakeDisconnect
  BY <1>4, <1>7 DEF TakeDisconnect, TakeFrom, Socket!TakeMessage
<1>8. CASE TakeOther
  BY <1>4, <1>8 DEF TakeOther, TakeFrom, Socket!TakeMessage
<1>9. ASSUME NEW cl \in Clients, FanOut(cl) PROVE Types'
  <2>1. Question(asking) \in Frames
    BY <1>9 DEF FanOut, Frames
  <2>2. CASE SendPanics(cl)
    BY <1>9, <2>2 DEF FanOut, SendPanics
  <2>3. CASE Socket!SendResponse(cl, Question(asking)) /\ UNCHANGED <<toolVars, bridge>>
    <3>1. /\ send' \in [Clients -> Seq(Frames)]
          /\ \A d \in Clients : Len(send'[d]) <= SendCap
      BY <2>1, <2>3, FrameQueued DEF Socket!SendResponse
    <3> QED
      BY <1>9, <2>3, <3>1 DEF FanOut, Socket!SendResponse
  <2> QED
    BY <1>9, <2>2, <2>3 DEF FanOut, SendFrame
<1> QED
  BY <1>1, <1>2, <1>3, <1>5, <1>6, <1>7, <1>8, <1>9 DEF BridgeStep

LEMMA TypesStep == Types /\ [Next]_vars => Types'
<1> SUFFICES ASSUME Types, [Next]_vars PROVE Types'
  OBVIOUS
<1> USE Values DEF Types, bridgeVars, socketVars
<1>1. ASSUME NEW c \in Calls, AskQuestion(c) PROVE Types'
  <2>1. Append(questionCh, c) \in Seq(Calls) /\ Len(Append(questionCh, c)) <= QuestionCap
    BY <1>1 DEF AskQuestion
  <2> QED
    BY <1>1, <2>1 DEF AskQuestion
<1>2. ASSUME NEW c \in Calls, ToolStep(c) \/ CallerStep(c) PROVE Types'
  BY <1>2, NoBridge DEF ToolStep, CallerStep
<1>3. CASE HandlerTakes
  <2>1. Tail(responseCh) \in Seq(Responses) /\ Len(Tail(responseCh)) <= ResponseCap
    BY <1>3 DEF HandlerTakes
  <2> QED
    BY <1>3, <2>1 DEF HandlerTakes
<1>4. CASE HandlerSends
  BY <1>4, NoBridge DEF HandlerSends
<1>5. ASSUME NEW cl \in Clients, NEW r \in Requests, ClientSends(cl, r) PROVE Types'
  <2>1. [client |-> cl, request |-> r] \in Socket!Messages
    BY DEF Socket!Messages
  <2>2. messageCh' \in Seq(Socket!Messages) /\ Len(messageCh') <= MessageCap
    BY <1>5, <2>1 DEF ClientSends, Socket!Forward
  <2> QED
    BY <1>5, <2>2 DEF ClientSends, Socket!Forward
<1>6. CASE SocketStep
  <2>1. ASSUME NEW cl \in Clients,
               Socket!Connect(cl) \/ Socket!Break(cl) \/ Socket!Unregister(cl)
        PROVE  /\ link' \in [Clients -> {"new", "open", "broken", "closed"}]
               /\ UNCHANGED <<send, messageCh>>
    BY <2>1 DEF Socket!Connect, Socket!Break, Socket!Unregister
  <2>2. ASSUME NEW cl \in Clients, Socket!WriteOut(cl)
        PROVE  /\ send' \in [Clients -> Seq(Frames)]
               /\ \A d \in Clients : Len(send'[d]) <= SendCap
               /\ UNCHANGED <<link, messageCh>>
    BY <2>2 DEF Socket!WriteOut
  <2>3. ASSUME Socket!HubTakesMessage
        PROVE  /\ messageCh' \in Seq(Socket!Messages) /\ Len(messageCh') <= MessageCap
               /\ UNCHANGED <<link, send>>
    BY <2>3 DEF Socket!HubTakesMessage
  <2> QED
    BY <1>6, <2>1, <2>2, <2>3 DEF SocketStep
<1>7. CASE UNCHANGED vars
  <2>1. UNCHANGED <<socketVars, questionCh, responseCh, bridgeVars>>
    BY <1>7 DEF vars
  <2> QED
    BY <2>1, NoBridge
<1> QED
  BY <1>1, <1>2, <1>3, <1>4, <1>5, <1>6, <1>7, BridgeTypes
  DEF Next, Step, HandlerStep, Dead, Quiet

-----------------------------------------------------------------------------
(* The tool runs as specified *)

LEMMA ToolRefined == Types /\ [Next]_vars => [Tool!Next]_(Tool!vars)
<1> SUFFICES ASSUME Types, [Next]_vars PROVE Tool!Next \/ UNCHANGED Tool!vars
  OBVIOUS
<1>1. UNCHANGED toolVars => UNCHANGED Tool!vars
  BY DEF toolVars, Tool!vars, Tool!callVars, Tool!chanVars, Tool!handlerVars, Tool!history
<1>2. UNCHANGED vars => UNCHANGED toolVars
  BY DEF vars
<1>3. ASSUME Alive, NEW c \in Calls, AskQuestion(c) \/ ToolStep(c) \/ CallerStep(c)
      PROVE  Tool!Next
  BY <1>3
  DEF Alive, AskQuestion, ToolStep, CallerStep, Tool!Next, Tool!Step, Tool!CallStep
<1>4. ASSUME BridgeStep PROVE UNCHANGED toolVars
  BY <1>4
  DEF BridgeStep, TakeQuestion, FanOutEnds, SendToHandler, TakeResponse, TakeConnect,
      TakeDisconnect, TakeOther, FanOut, SendFrame, SendPanics
<1>5. ASSUME Alive, HandlerTakes PROVE Tool!Next
  <2>1. Head(responseCh) \in Responses
    BY <1>5 DEF HandlerTakes, Types
  <2>2. Head(responseCh).call \in Calls /\ Head(responseCh).answer \in Answers
    BY <2>1 DEF Responses
  <2>3. TheHandler \in Handlers
    BY DEF Handlers
  <2> QED
    BY <1>5, <2>2, <2>3 DEF Alive, HandlerTakes, Tool!Next, Tool!Step
<1>6. ASSUME Alive, HandlerSends PROVE Tool!Next
  <2>1. TheHandler \in Handlers
    BY DEF Handlers
  <2> QED
    BY <1>6, <2>1 DEF Alive, HandlerSends, Tool!Next, Tool!Step
<1>7. ASSUME SocketStep \/ \E cl \in Clients, r \in Requests : ClientSends(cl, r)
      PROVE  UNCHANGED toolVars
  BY <1>7 DEF SocketStep, ClientSends
<1> QED
  BY <1>1, <1>2, <1>3, <1>4, <1>5, <1>6, <1>7 DEF Next, Step, HandlerStep, Dead, Quiet

LEMMA TypesInvariance == Spec => [](Types /\ Tool!TypeOK)
<1>1. Init => Types /\ Tool!TypeOK
  <2>1. Tool!Init => Tool!TypeOK
    <3>1. Tool!Init <=> Proved!Init
      BY DEF Tool!Init, Proved!Init
    <3> QED
      BY <3>1, Values, SameTool, Proved!TypeInit
  <2> QED
    BY <2>1, TypesInit DEF Init
<1>2. Types /\ Tool!TypeOK /\ [Next]_vars => (Types /\ Tool!TypeOK)'
  BY TypesStep, ToolRefined, ToolStepTypes
<1> QED
  BY <1>1, <1>2, PTL DEF Spec

\* Every channel keeps to its capacity and every variable to its type.
THEOREM Typing == Spec => []TypeOK
<1>1. Types /\ Tool!TypeOK => TypeOK
  <2>1. NoResponse \notin Responses
    BY Values DEF NoResponse, Responses
  <2> QED
    BY <2>1 DEF Types, TypeOK
<1> QED
  BY <1>1, TypesInvariance, PTL

-----------------------------------------------------------------------------
(* One response per question *)

\* What is in a queue after one is taken from it or put into it.
LEMMA Taken ==
  ASSUME NEW S, NEW s \in Seq(S), s # <<>>
  PROVE  /\ 1 \in DOMAIN s /\ Head(s) = s[1]
         /\ \A i \in DOMAIN Tail(s) :
               i \in Nat /\ i + 1 # 1 /\ i + 1 \in DOMAIN s /\ Tail(s)[i] = s[i + 1]
  OBVIOUS

LEMMA Put ==
  ASSUME NEW S, NEW s \in Seq(S), NEW e \in S
  PROVE  /\ Len(s) + 1 \in DOMAIN Append(s, e) /\ Len(s) + 1 \notin DOMAIN s
         /\ DOMAIN Append(s, e) = DOMAIN s \cup {Len(s) + 1}
         /\ Append(s, e)[Len(s) + 1] = e
         /\ \A i \in DOMAIN s : Append(s, e)[i] = s[i]
  OBVIOUS

\* Where a call's question is, and its response.
InQueue(c) == \E i \in DOMAIN questionCh : questionCh[i] = c
Framed(c) == \E cl \in Clients : \E i \in DOMAIN send[cl] : send[cl][i] = Question(c)
Responded(c) == Queued(c) \/ WithBridge(c) \/ WithHandler(c) \/ Handed(c)

\* Nobody has been asked yet.
Fresh(c) ==
  asking # c /\ activeQuestions[c] = NoClient /\ ~Framed(c) /\ ~Responded(c)

\* A request ID leads to the call that drew it, as they are distinct here.
OwnID ==
  \A c \in Calls : /\ requestID[c] \in {c, NoID}
                   /\ pendingRequests[c] \in {c, NoCall}

\* A question goes one way: it is in one place at a time, and so is the response.
QuestionsFlow ==
  /\ \A c \in Calls : pc[c] \in {"idle", "registered"} => Fresh(c) /\ ~InQueue(c)
  /\ \A c \in Calls : InQueue(c) => Fresh(c)
  /\ \A i, j \in DOMAIN questionCh : questionCh[i] = questionCh[j] => i = j
  /\ \A c \in Calls : asking = c => ~Responded(c)
  /\ \A c \in Calls :
        activeQuestions[c] # NoClient => ~Queued(c) /\ ~WithHandler(c) /\ ~Handed(c)

FlowInv == OwnID /\ QuestionsFlow /\ OneResponsePerQuestion

LEMMA FlowInit == Init => FlowInv
<1> SUFFICES ASSUME Init PROVE FlowInv
  OBVIOUS
<1> USE Values DEF Init, Tool!Init, Socket!Init
<1>1. OwnID
  BY DEF OwnID
<1>2. DOMAIN questionCh = {} /\ DOMAIN responseCh = {}
      /\ \A cl \in Clients : DOMAIN send[cl] = {}
  OBVIOUS
<1>3. ASSUME NEW c \in Calls PROVE accepted[c] = <<>> /\ Len(accepted[c]) <= 1
  <2>1. accepted[c] = <<>>
    OBVIOUS
  <2>2. Len(<<>>) <= 1
    OBVIOUS
  <2> QED
    BY <2>1, <2>2, Zenon
<1>4. \A c \in Calls : Fresh(c) /\ ~InQueue(c)
  BY <1>2, <1>3
  DEF Fresh, InQueue, Framed, Responded, Queued, WithBridge, WithHandler, Handed,
      NoResponse, Handlers
<1>5. QuestionsFlow
  BY <1>2, <1>4 DEF QuestionsFlow, Fresh
<1>6. OneResponsePerQuestion
  <2>1. \A c \in Calls : ~Queued(c) /\ ~WithBridge(c) /\ ~WithHandler(c) /\ ~Handed(c)
    BY <1>4 DEF Fresh, Responded
  <2> HIDE DEF Init
  <2> QED
    BY <1>2, <1>3, <2>1 DEF OneResponsePerQuestion
<1> QED
  BY <1>1, <1>5, <1>6 DEF FlowInv

\* A step that leaves the queues and places alone.
LEMMA FlowStays ==
  ASSUME FlowInv, OwnID',
         UNCHANGED <<questionCh, responseCh, asking, sending, target, accepted,
                     activeQuestions>>,
         \A c \in Calls : pc'[c] \in {"idle", "registered"} => pc[c] \in {"idle", "registered"},
         \A c \in Calls : Framed(c)' => Framed(c)
  PROVE  FlowInv'
  BY DEF FlowInv, QuestionsFlow, OneResponsePerQuestion, Fresh, InQueue, Responded,
         Queued, WithBridge, WithHandler, Handed

LEMMA SameFrames ==
  ASSUME UNCHANGED send
  PROVE  \A c \in Calls : Framed(c)' <=> Framed(c)
  BY DEF Framed

\* A step that puts nothing but f into a send channel.
LEMMA NewFrame ==
  ASSUME Types, NEW cl \in Clients, NEW f \in Frames, Socket!Enqueue(cl, f), NEW c \in Calls,
         Framed(c)'
  PROVE  Framed(c) \/ f = Question(c)
<1>0. PICK d \in Clients : \E i \in DOMAIN send'[d] : send'[d][i] = Question(c)
  BY DEF Framed
<1>1. PICK i \in DOMAIN send'[d] : send'[d][i] = Question(c)
  BY <1>0
<1>2. send[d] \in Seq(Frames)
  BY DEF Types
<1>3. CASE send'[d] = send[d]
  BY <1>1, <1>3 DEF Framed
<1>4. CASE d = cl /\ send'[d] = Append(send[d], f)
  <2>1. CASE i \in DOMAIN send[d]
    <3>1. send'[d][i] = send[d][i]
      BY <1>2, <1>4, <2>1
    <3> QED
      BY <1>1, <2>1, <3>1 DEF Framed
  <2>2. CASE i \notin DOMAIN send[d]
    <3>1. send'[d][i] = f
      BY <1>1, <1>2, <1>4, <2>2
    <3> QED
      BY <1>1, <3>1
  <2> QED
    BY <2>1, <2>2
<1>5. send'[d] = send[d] \/ (d = cl /\ send'[d] = Append(send[d], f))
  BY DEF Socket!Enqueue, Types
<1> QED
  BY <1>3, <1>4, <1>5

LEMMA ToolFlow ==
  ASSUME Types, Tool!TypeOK, FlowInv, NEW c \in Calls, ToolStep(c) \/ CallerStep(c)
  PROVE  FlowInv'
<1> USE DEF Tool!callVars, Tool!chanVars, Tool!handlerVars, Tool!history, ToolStep, CallerStep
<1>1. OwnID'
  BY Values
  DEF FlowInv, OwnID, Tool!TypeOK, Tool!ReceiveResponse, Tool!TimeOut, Tool!ContextDone,
      Tool!Leave, Tool!Unregister, Tool!CloseChannel, Tool!Register, Tool!RejectParams
<1>2. UNCHANGED <<send, questionCh, responseCh, asking, sending, target, accepted,
                  activeQuestions>>
  BY DEF socketVars, bridgeVars, Tool!ReceiveResponse, Tool!TimeOut, Tool!ContextDone,
         Tool!Unregister, Tool!CloseChannel, Tool!Register, Tool!RejectParams
<1>3. \A d \in Calls : pc'[d] \in {"idle", "registered"} => pc[d] \in {"idle", "registered"}
  BY DEF Tool!TypeOK, Tool!ReceiveResponse, Tool!TimeOut, Tool!ContextDone,
         Tool!Leave, Tool!Unregister, Tool!CloseChannel, Tool!Register, Tool!RejectParams
<1> QED
  BY <1>1, <1>2, <1>3, SameFrames, FlowStays

LEMMA SocketFrames ==
  ASSUME Types,
         SocketStep \/ \E cl \in Clients, r \in Requests : ClientSends(cl, r)
  PROVE  \A c \in Calls : Framed(c)' => Framed(c)
<1>1. ASSUME NEW cl \in Clients, Socket!WriteOut(cl), NEW c \in Calls, Framed(c)'
      PROVE  Framed(c)
  <2>0. PICK d \in Clients : \E i \in DOMAIN send'[d] : send'[d][i] = Question(c)
    BY <1>1 DEF Framed
  <2>1. PICK i \in DOMAIN send'[d] : send'[d][i] = Question(c)
    BY <2>0
  <2>2. send[d] \in Seq(Frames)
    BY DEF Types
  <2>3. send'[d] = send[d] \/ (send[d] # <<>> /\ send'[d] = Tail(send[d]))
    BY <1>1 DEF Socket!WriteOut, Types
  <2>4. \E j \in DOMAIN send[d] : send[d][j] = send'[d][i]
    <3>1. CASE send'[d] = send[d]
      BY <2>1, <3>1
    <3>2. CASE send[d] # <<>> /\ send'[d] = Tail(send[d])
      <4>1. i + 1 \in DOMAIN send[d] /\ Tail(send[d])[i] = send[d][i + 1]
        BY <2>1, <2>2, <3>2, Taken
      <4> QED
        BY <3>2, <4>1
    <3> QED
      BY <2>3, <3>1, <3>2
  <2> QED
    BY <2>1, <2>4 DEF Framed
<1>2. UNCHANGED send \/ \E cl \in Clients : Socket!WriteOut(cl)
  BY DEF SocketStep, ClientSends, Socket!Forward, Socket!Connect, Socket!Break,
         Socket!Unregister, Socket!HubTakesMessage
<1> QED
  BY <1>1, <1>2, SameFrames

LEMMA SocketFlow ==
  ASSUME Types, FlowInv,
         SocketStep \/ \E cl \in Clients, r \in Requests : ClientSends(cl, r)
  PROVE  FlowInv'
<1>1. UNCHANGED <<pc, requestID, pendingRequests, questionCh, responseCh, asking, sending,
                  target, accepted, activeQuestions>>
  BY DEF SocketStep, ClientSends, toolVars, bridgeVars
<1>2. OwnID'
  BY <1>1 DEF FlowInv, OwnID
<1> QED
  BY <1>1, <1>2, SocketFrames, FlowStays

\* A step that leaves the responses alone.
LEMMA SameResponses ==
  ASSUME UNCHANGED <<responseCh, sending, target, accepted>>
  PROVE  /\ OneResponsePerQuestion' <=> OneResponsePerQuestion
         /\ \A c \in Calls : /\ Responded(c)' <=> Responded(c)
                             /\ Queued(c)' <=> Queued(c)
                             /\ WithHandler(c)' <=> WithHandler(c)
                             /\ Handed(c)' <=> Handed(c)
  BY DEF OneResponsePerQuestion, Responded, Queued, WithBridge, WithHandler, Handed

LEMMA AskFlow ==
  ASSUME Types, Tool!TypeOK, FlowInv, NEW c \in Calls, AskQuestion(c)
  PROVE  FlowInv'
<1>1. /\ pc[c] = "registered" /\ pc' = [pc EXCEPT ![c] = "waiting"]
      /\ questionCh' = Append(questionCh, c)
      /\ UNCHANGED <<requestID, pendingRequests, target, accepted, send, responseCh, asking,
                     sending, activeQuestions>>
  BY DEF AskQuestion, Tool!QuestionSent, Tool!chanVars, Tool!handlerVars, Tool!history,
         socketVars, bridgeVars
<1>2. Fresh(c) /\ ~InQueue(c)
  BY <1>1 DEF FlowInv, QuestionsFlow
<1>3. \A d \in Calls : Fresh(d)' <=> Fresh(d)
  BY <1>1, SameResponses, SameFrames DEF Fresh
<1>q. /\ Len(questionCh) + 1 \notin DOMAIN questionCh
      /\ DOMAIN questionCh' = DOMAIN questionCh \cup {Len(questionCh) + 1}
      /\ questionCh'[Len(questionCh) + 1] = c
      /\ \A i \in DOMAIN questionCh : questionCh'[i] = questionCh[i]
  BY <1>1, Put DEF Types
<1>4. \A d \in Calls : InQueue(d)' => InQueue(d) \/ d = c
  BY <1>q DEF InQueue
<1>5. \A i, j \in DOMAIN questionCh' : questionCh'[i] = questionCh'[j] => i = j
  BY <1>q, <1>2 DEF InQueue, FlowInv, QuestionsFlow
<1>6. \A d \in Calls : pc'[d] \in {"idle", "registered"} => pc[d] \in {"idle", "registered"} /\ d # c
  BY <1>1 DEF Tool!TypeOK
<1>7. QuestionsFlow'
  BY <1>1, <1>2, <1>3, <1>4, <1>5, <1>6, SameResponses DEF FlowInv, QuestionsFlow
<1>8. OwnID'
  BY <1>1 DEF FlowInv, OwnID
<1> QED
  BY <1>1, <1>7, <1>8, SameResponses DEF FlowInv

\* A step of the bridge that takes no question.
LEMMA SameQueue ==
  ASSUME UNCHANGED <<toolVars, questionCh>>
  PROVE  /\ OwnID' <=> OwnID
         /\ UNCHANGED <<pc, target, accepted>>
         /\ \A c \in Calls : InQueue(c)' <=> InQueue(c)
         /\ (\A i, j \in DOMAIN questionCh' : questionCh'[i] = questionCh'[j] => i = j)
              <=> (\A i, j \in DOMAIN questionCh : questionCh[i] = questionCh[j] => i = j)
  BY DEF toolVars, OwnID, InQueue

\* The question the bridge takes is in the queue no more, and nobody has been
\* asked it.
LEMMA QuestionTaken ==
  ASSUME Types, Tool!TypeOK, FlowInv, TakeQuestion, NEW c, c = Head(questionCh)
  PROVE  /\ c \in Calls /\ InQueue(c) /\ Fresh(c) /\ pc[c] \notin {"idle", "registered"}
         /\ \A d \in Calls : InQueue(d)' => InQueue(d) /\ d # c
         /\ \A i \in DOMAIN questionCh' :
               i \in Nat /\ i + 1 \in DOMAIN questionCh /\ questionCh'[i] = questionCh[i + 1]
<1>1. questionCh # <<>> /\ questionCh' = Tail(questionCh)
  BY DEF TakeQuestion
<1>q. /\ 1 \in DOMAIN questionCh /\ c = questionCh[1]
      /\ \A i \in DOMAIN questionCh' :
            i \in Nat /\ i + 1 # 1 /\ i + 1 \in DOMAIN questionCh
              /\ questionCh'[i] = questionCh[i + 1]
  BY <1>1, Taken DEF Types
<1>2. c \in Calls /\ InQueue(c) /\ Fresh(c) /\ pc[c] \notin {"idle", "registered"}
  <2>1. c \in Calls
    BY <1>1 DEF Types
  <2>2. InQueue(c)
    BY <1>q DEF InQueue
  <2> QED
    BY <2>1, <2>2 DEF FlowInv, QuestionsFlow
<1>3. \A d \in Calls : InQueue(d)' => InQueue(d) /\ d # c
  <2> SUFFICES ASSUME NEW d \in Calls, InQueue(d)' PROVE InQueue(d) /\ d # c
    OBVIOUS
  <2>1. PICK i \in DOMAIN questionCh' : questionCh'[i] = d
    BY DEF InQueue
  <2>2. i + 1 \in DOMAIN questionCh /\ questionCh[i + 1] = d /\ i + 1 # 1
    BY <2>1, <1>q
  <2> QED
    BY <2>2, <1>q DEF InQueue, FlowInv, QuestionsFlow
<1> QED
  BY <1>q, <1>2, <1>3

LEMMA TakeQuestionFlow ==
  ASSUME Types, Tool!TypeOK, FlowInv, TakeQuestion
  PROVE  FlowInv'
<1> DEFINE c == Head(questionCh)
<1>1. /\ bridge = "select" /\ asking = NoCall /\ sending = NoResponse
      /\ UNCHANGED <<pc, requestID, pendingRequests, target, accepted, send, responseCh,
                     activeQuestions>>
  BY DEF TakeQuestion, Types, toolVars, socketVars
<1>2. /\ c \in Calls /\ InQueue(c) /\ Fresh(c) /\ pc[c] \notin {"idle", "registered"}
  BY QuestionTaken
<1>3. \A d \in Calls : InQueue(d)' => InQueue(d) /\ d # c
  BY QuestionTaken
<1>q. \A i \in DOMAIN questionCh' :
         i \in Nat /\ i + 1 \in DOMAIN questionCh /\ questionCh'[i] = questionCh[i + 1]
  BY QuestionTaken
<1>4. \A i, j \in DOMAIN questionCh' : questionCh'[i] = questionCh'[j] => i = j
  <2> SUFFICES ASSUME NEW i \in DOMAIN questionCh', NEW j \in DOMAIN questionCh',
                      questionCh'[i] = questionCh'[j]
               PROVE  i = j
    OBVIOUS
  <2>1. i + 1 = j + 1
    BY <1>q DEF FlowInv, QuestionsFlow
  <2> QED
    BY <2>1, <1>q
<1>5. OwnID'
  BY <1>1 DEF FlowInv, OwnID
<1>6. CASE clients = {}
  <2>1. sending' = [call |-> c, answer |-> NoClientsAnswer] /\ asking' = asking
    BY <1>6 DEF TakeQuestion
  <2>2. \A d \in Calls : d # c => (Responded(d)' <=> Responded(d)) /\ (Fresh(d)' <=> Fresh(d))
    BY <1>1, <2>1, Values, SameFrames
    DEF Fresh, Responded, Queued, WithBridge, WithHandler, Handed, NoResponse
  <2>3. \A d \in Calls : /\ Queued(d)' <=> Queued(d)
                         /\ WithHandler(d)' <=> WithHandler(d)
                         /\ Handed(d)' <=> Handed(d)
                         /\ WithBridge(d)' <=> d = c
    BY <1>1, <2>1 DEF Queued, WithBridge, WithHandler, Handed
  <2>4. OneResponsePerQuestion'
    BY <1>1, <1>2, <2>3 DEF FlowInv, OneResponsePerQuestion, Fresh, Responded
  <2>5. QuestionsFlow'
    BY <1>1, <1>2, <1>3, <1>4, <2>1, <2>2, <2>3, Values DEF FlowInv, QuestionsFlow
  <2> QED
    BY <1>5, <2>4, <2>5 DEF FlowInv
<1>7. CASE clients # {}
  <2>1. asking' = c /\ sending' = sending
    BY <1>7 DEF TakeQuestion
  <2>2. \A d \in Calls : d # c => (Fresh(d)' <=> Fresh(d))
    BY <1>1, <2>1, Values, SameFrames, SameResponses DEF Fresh
  <2>3. QuestionsFlow'
    BY <1>1, <1>2, <1>3, <1>4, <2>1, <2>2, SameResponses DEF FlowInv, QuestionsFlow, Fresh
  <2> QED
    BY <1>1, <1>5, <2>1, <2>3, SameResponses DEF FlowInv
<1> QED
  BY <1>6, <1>7

LEMMA FanOutFlow ==
  ASSUME Types, FlowInv, FanOutEnds \/ \E cl \in Clients : FanOut(cl)
  PROVE  FlowInv'
<1>1. CASE FanOutEnds
  <2>1. /\ asking' = NoCall
        /\ UNCHANGED <<toolVars, questionCh, responseCh, sending, send, activeQuestions>>
    BY <1>1 DEF FanOutEnds, socketVars
  <2>2. \A c \in Calls : (Fresh(c) => Fresh(c)') /\ asking' # c
    BY <2>1, Values, SameQueue, SameFrames, SameResponses DEF Fresh
  <2>3. QuestionsFlow'
    BY <2>1, <2>2, SameQueue, SameResponses DEF FlowInv, QuestionsFlow
  <2> QED
    BY <2>1, <2>3, SameQueue, SameResponses DEF FlowInv
<1>2. ASSUME NEW cl \in Clients, FanOut(cl) PROVE FlowInv'
  <2>1. /\ asking \in Calls /\ asking' = asking
        /\ activeQuestions' = [activeQuestions EXCEPT ![asking] = cl]
        /\ UNCHANGED <<toolVars, questionCh, responseCh, sending>>
    BY <1>2 DEF FanOut, Types, SendFrame, SendPanics
  <2>2. \A c \in Calls : c # asking => (Framed(c)' => Framed(c))
    <3>1. UNCHANGED send \/ Socket!Enqueue(cl, Question(asking))
      BY <1>2 DEF FanOut, SendFrame, SendPanics, Socket!SendResponse, socketVars
    <3>2. Question(asking) \in Frames
      BY <2>1 DEF Frames
    <3>3. \A c \in Calls : Question(asking) = Question(c) => asking = c
      BY <2>1 DEF Question
    <3> QED
      BY <3>1, <3>2, <3>3, NewFrame, SameFrames
  <2>3. \A c \in Calls : Fresh(c) => c # asking /\ Fresh(c)'
    BY <2>1, <2>2, SameQueue, SameResponses DEF Fresh, Types
  <2>4. \A c \in Calls : c # asking => activeQuestions'[c] = activeQuestions[c]
    BY <2>1 DEF Types
  <2>5. QuestionsFlow'
    BY <2>1, <2>3, <2>4, SameQueue, SameResponses DEF FlowInv, QuestionsFlow, Responded
  <2> QED
    BY <2>1, <2>5, SameQueue, SameResponses DEF FlowInv
<1> QED
  BY <1>1, <1>2

LEMMA SendFlow ==
  ASSUME Types, FlowInv, SendToHandler
  PROVE  FlowInv'
<1> DEFINE c == sending.call
<1>1. /\ sending \in Responses /\ asking = NoCall
      /\ responseCh' = Append(responseCh, sending) /\ sending' = NoResponse
      /\ activeQuestions' = [activeQuestions EXCEPT ![c] = NoClient]
      /\ UNCHANGED <<toolVars, questionCh, send, asking>>
  BY DEF SendToHandler, Types, socketVars
<1>2. c \in Calls /\ WithBridge(c)
  BY <1>1 DEF Responses, WithBridge
<1>3. ~Queued(c) /\ ~WithHandler(c) /\ ~Handed(c) /\ ~Fresh(c)
  BY <1>2 DEF FlowInv, OneResponsePerQuestion, Fresh, Responded
<1>q. /\ Len(responseCh) + 1 \notin DOMAIN responseCh
      /\ DOMAIN responseCh' = DOMAIN responseCh \cup {Len(responseCh) + 1}
      /\ responseCh'[Len(responseCh) + 1] = sending
      /\ \A i \in DOMAIN responseCh : responseCh'[i] = responseCh[i]
  BY <1>1, Put DEF Types
<1>4. \A d \in Calls : /\ Queued(d)' <=> Queued(d) \/ d = c
                       /\ ~WithBridge(d)'
                       /\ WithHandler(d)' <=> WithHandler(d)
                       /\ Handed(d)' <=> Handed(d)
  BY <1>1, <1>q, SameQueue, Values DEF Queued, WithBridge, WithHandler, Handed, NoResponse
<1>5. \A d \in Calls, i, j \in DOMAIN responseCh' :
         responseCh'[i].call = d /\ responseCh'[j].call = d => i = j
  BY <1>q, <1>2, <1>3 DEF Queued, FlowInv, OneResponsePerQuestion
<1>6. OneResponsePerQuestion'
  BY <1>1, <1>3, <1>4, <1>5, SameQueue DEF FlowInv, OneResponsePerQuestion
<1>7. \A d \in Calls : Fresh(d) => Fresh(d)' /\ d # c
  BY <1>1, <1>2, <1>3, <1>4, SameFrames DEF Fresh, Responded, Types
<1>8. \A d \in Calls : activeQuestions'[d] # NoClient => d # c /\ activeQuestions[d] # NoClient
  BY <1>1, <1>2 DEF Types
<1>9. QuestionsFlow'
  BY <1>1, <1>4, <1>7, <1>8, SameQueue, Values DEF FlowInv, QuestionsFlow, Responded
<1> QED
  BY <1>1, <1>6, <1>9, SameQueue DEF FlowInv

LEMMA MessageFrames ==
  ASSUME Types, TakeResponse \/ TakeConnect \/ TakeDisconnect \/ TakeOther
  PROVE  \A c \in Calls : Framed(c)' => Framed(c)
<1>1. CASE TakeConnect
  <2>1. UNCHANGED send \/ Socket!Enqueue(Incoming.client, Ack)
    BY <1>1 DEF TakeConnect, SendPanics, Socket!TakeAndRespond, socketVars, Incoming
  <2>2. Incoming.client \in Clients
    <3>1. Head(messageCh) \in Socket!Messages
      BY <1>1 DEF TakeConnect, TakeFrom, Types
    <3> QED
      BY <3>1 DEF Incoming, Socket!Messages
  <2>3. Ack \in Frames /\ \A c \in Calls : Ack # Question(c)
    <3>1. Ack.type = "connect_ack" /\ \A c \in Calls : Question(c).type = "ask_user"
      BY DEF Ack, Question
    <3>2. Ack \in Frames
      BY DEF Frames
    <3> QED
      BY <3>1, <3>2
  <2> QED
    BY <2>1, <2>2, <2>3, NewFrame, SameFrames
<1>2. CASE TakeResponse \/ TakeDisconnect \/ TakeOther
  <2>1. UNCHANGED send
    BY <1>2 DEF TakeResponse, TakeDisconnect, TakeOther, Socket!TakeMessage
  <2> QED
    BY <2>1, SameFrames
<1> QED
  BY <1>1, <1>2

LEMMA MessageFlow ==
  ASSUME Types, FlowInv, TakeResponse \/ TakeConnect \/ TakeDisconnect \/ TakeOther
  PROVE  FlowInv'
<1>1. /\ UNCHANGED <<toolVars, questionCh, responseCh, activeQuestions, asking>>
      /\ asking = NoCall /\ sending = NoResponse
  BY DEF TakeResponse, TakeConnect, TakeDisconnect, TakeOther, TakeFrom, SendPanics, Types
<1>2. \A c \in Calls : Framed(c)' => Framed(c)
  BY MessageFrames
<1>3. CASE sending' = sending
  <2>1. OwnID'
    BY <1>1, SameQueue DEF FlowInv
  <2> QED
    BY <1>1, <1>2, <1>3, <2>1, SameQueue, FlowStays
<1>4. CASE sending' # sending
  <2>1. PICK c \in Calls : /\ activeQuestions[c] # NoClient
                           /\ sending' = [call |-> c, answer |-> c]
    <3>1. TakeResponse /\ messageCh # <<>>
      BY <1>4 DEF TakeResponse, TakeConnect, TakeDisconnect, TakeOther, TakeFrom
    <3>2. Head(messageCh) \in Socket!Messages
      BY <3>1 DEF Types
    <3>3. Incoming.request.call \in Calls
      BY <3>1, <3>2 DEF TakeResponse, TakeFrom, Requests, Incoming, Socket!Messages
    <3> QED
      BY <1>4, <3>1, <3>3 DEF TakeResponse
  <2>2. \A d \in Calls : /\ Queued(d)' <=> Queued(d)
                         /\ WithHandler(d)' <=> WithHandler(d)
                         /\ Handed(d)' <=> Handed(d)
                         /\ WithBridge(d)' <=> d = c
                         /\ ~WithBridge(d)
    BY <1>1, <2>1, SameQueue, Values
    DEF Queued, WithBridge, WithHandler, Handed, NoResponse
  <2>3. ~Queued(c) /\ ~WithHandler(c) /\ ~Handed(c) /\ ~Fresh(c)
    BY <2>1 DEF FlowInv, QuestionsFlow, Fresh
  <2>4. OneResponsePerQuestion'
    BY <1>1, <2>2, <2>3, SameQueue DEF FlowInv, OneResponsePerQuestion
  <2>5. \A d \in Calls : Fresh(d) => Fresh(d)'
    BY <1>1, <1>2, <2>2, <2>3 DEF Fresh, Responded
  <2>6. QuestionsFlow'
    BY <1>1, <2>2, <2>5, SameQueue, Values DEF FlowInv, QuestionsFlow
  <2> QED
    BY <1>1, <2>4, <2>6, SameQueue DEF FlowInv
<1> QED
  BY <1>3, <1>4

LEMMA HandlerTakesFlow ==
  ASSUME Types, Tool!TypeOK, FlowInv, HandlerTakes
  PROVE  FlowInv'
<1> DEFINE c == Head(responseCh).call
<1>1. /\ responseCh # <<>> /\ responseCh' = Tail(responseCh)
      /\ target[TheHandler] = NoCall
      /\ target' = [target EXCEPT ![TheHandler] = pendingRequests[c]]
      /\ UNCHANGED <<pc, requestID, pendingRequests, accepted, send, questionCh, asking,
                     sending, activeQuestions>>
  BY DEF HandlerTakes, Tool!Lookup, Tool!callVars, Tool!chanVars, socketVars, bridgeVars
<1>q. /\ 1 \in DOMAIN responseCh /\ Head(responseCh) = responseCh[1]
      /\ \A i \in DOMAIN responseCh' :
            i \in Nat /\ i + 1 # 1 /\ i + 1 \in DOMAIN responseCh
              /\ responseCh'[i] = responseCh[i + 1]
  BY <1>1, Taken DEF Types
<1>2. c \in Calls /\ Queued(c)
  <2>1. Head(responseCh) \in Responses
    BY <1>1 DEF Types
  <2> QED
    BY <2>1, <1>q DEF Responses, Queued
<1>3. target'[TheHandler] \in {c, NoCall}
  <2>1. pendingRequests[c] \in {c, NoCall}
    BY <1>2 DEF FlowInv, OwnID
  <2>2. TheHandler \in DOMAIN target
    BY DEF Tool!TypeOK, Handlers
  <2> QED
    BY <1>1, <2>1, <2>2
<1>4. ~WithBridge(c) /\ ~Handed(c) /\ ~Fresh(c)
  BY <1>2 DEF FlowInv, OneResponsePerQuestion, Fresh, Responded
<1>5. \A d \in Calls : Queued(d)' => Queued(d) /\ d # c
  <2> SUFFICES ASSUME NEW d \in Calls, Queued(d)' PROVE Queued(d) /\ d # c
    OBVIOUS
  <2>1. PICK i \in DOMAIN responseCh' : responseCh'[i].call = d
    BY DEF Queued
  <2>2. i + 1 \in DOMAIN responseCh /\ responseCh[i + 1].call = d /\ i + 1 # 1
    BY <2>1, <1>q
  <2> QED
    BY <2>2, <1>2, <1>q DEF Queued, FlowInv, OneResponsePerQuestion
<1>6. \A d \in Calls : /\ WithBridge(d)' <=> WithBridge(d)
                       /\ WithHandler(d)' => d = c
                       /\ Handed(d)' <=> Handed(d)
  BY <1>1, <1>3, Values DEF WithBridge, WithHandler, Handed
<1>7. \A d \in Calls, i, j \in DOMAIN responseCh' :
         responseCh'[i].call = d /\ responseCh'[j].call = d => i = j
  <2> SUFFICES ASSUME NEW d \in Calls, NEW i \in DOMAIN responseCh', NEW j \in DOMAIN responseCh',
                      responseCh'[i].call = d, responseCh'[j].call = d
               PROVE  i = j
    OBVIOUS
  <2>1. i + 1 = j + 1
    BY <1>q DEF FlowInv, OneResponsePerQuestion
  <2> QED
    BY <2>1, <1>q
<1>8. OneResponsePerQuestion'
  BY <1>1, <1>4, <1>5, <1>6, <1>7 DEF FlowInv, OneResponsePerQuestion
<1>9. \A d \in Calls : (Responded(d)' => Responded(d)) /\ (Fresh(d) => Fresh(d)' /\ d # c)
  BY <1>1, <1>2, <1>4, <1>5, <1>6, SameFrames DEF Fresh, Responded
<1>10. QuestionsFlow'
  <2>1. \A d \in Calls : InQueue(d)' <=> InQueue(d)
    BY <1>1 DEF InQueue
  <2>2. \A d \in Calls : activeQuestions[d] # NoClient => d # c
    BY <1>2 DEF FlowInv, QuestionsFlow
  <2> QED
    BY <1>1, <1>5, <1>6, <1>9, <2>1, <2>2 DEF FlowInv, QuestionsFlow
<1>11. OwnID'
  BY <1>1 DEF FlowInv, OwnID
<1> QED
  BY <1>8, <1>10, <1>11 DEF FlowInv

LEMMA HandlerSendsFlow ==
  ASSUME Types, Tool!TypeOK, FlowInv, HandlerSends
  PROVE  FlowInv'
<1>1. UNCHANGED <<pc, requestID, pendingRequests, send, questionCh, responseCh, asking,
                  sending, activeQuestions>>
  BY DEF HandlerSends, Tool!HandlerStep, Tool!SendResponse, Tool!ResponseDropped,
         Tool!SendPanics, Tool!callVars, Tool!chanVars, socketVars, bridgeVars
<1>2. OwnID'
  BY <1>1 DEF FlowInv, OwnID
<1>3. CASE Tool!SendPanics(TheHandler)
  <2>1. UNCHANGED <<target, accepted>>
    BY <1>3 DEF Tool!SendPanics, Tool!history
  <2> QED
    BY <1>1, <1>2, <2>1, SameFrames, FlowStays
<1>4. CASE Tool!ResponseDropped(TheHandler) \/ Tool!SendResponse(TheHandler)
  <2>1. PICK c \in Calls : c = target[TheHandler]
    BY <1>4 DEF Tool!ResponseDropped, Tool!SendResponse, Tool!TypeOK, Handlers
  <2>2. target'[TheHandler] = NoCall
    BY <1>4
    DEF Tool!ResponseDropped, Tool!SendResponse, Tool!HandlerReturns, Tool!TypeOK, Handlers
  <2>3. /\ \A d \in Calls : d # c => accepted'[d] = accepted[d]
        /\ accepted'[c] = accepted[c] \/ \E a \in Answers : accepted'[c] = Append(accepted[c], a)
    BY <1>4, <2>1
    DEF Tool!ResponseDropped, Tool!SendResponse, Tool!history, Tool!TypeOK, Handlers
  <2>4. WithHandler(c) /\ accepted[c] = <<>> /\ ~Queued(c) /\ ~WithBridge(c) /\ ~Fresh(c)
    BY <2>1
    DEF WithHandler, FlowInv, OneResponsePerQuestion, Handed, Fresh, Responded
  <2>5. \A d \in Calls : Len(accepted'[d]) <= 1
    <3>1. Len(accepted'[c]) <= 1
      <4>1. ASSUME NEW a \in Answers PROVE Len(Append(<<>>, a)) <= 1
        OBVIOUS
      <4>2. Len(accepted[c]) <= 1
        BY DEF FlowInv, OneResponsePerQuestion
      <4> QED
        BY <2>3, <2>4, <4>1, <4>2
    <3> QED
      BY <2>3, <3>1 DEF FlowInv, OneResponsePerQuestion
  <2>6. \A d \in Calls : /\ Queued(d)' <=> Queued(d)
                         /\ WithBridge(d)' <=> WithBridge(d)
                         /\ ~WithHandler(d)'
                         /\ d # c => (Handed(d)' <=> Handed(d))
    BY <1>1, <2>2, <2>3, Values DEF Queued, WithBridge, WithHandler, Handed
  <2>7. OneResponsePerQuestion'
    BY <1>1, <2>4, <2>5, <2>6 DEF FlowInv, OneResponsePerQuestion
  <2>8. \A d \in Calls : (Responded(d)' => Responded(d)) /\ (Fresh(d) => Fresh(d)' /\ d # c)
    BY <1>1, <2>4, <2>6, SameFrames DEF Fresh, Responded
  <2>9. QuestionsFlow'
    <3>1. \A d \in Calls : InQueue(d)' <=> InQueue(d)
      BY <1>1 DEF InQueue
    <3>2. \A d \in Calls : activeQuestions[d] # NoClient => d # c
      BY <2>4 DEF FlowInv, QuestionsFlow
    <3> QED
      BY <1>1, <2>6, <2>8, <3>1, <3>2 DEF FlowInv, QuestionsFlow
  <2> QED
    BY <1>2, <2>7, <2>9 DEF FlowInv
<1> QED
  BY <1>3, <1>4 DEF HandlerSends, Tool!HandlerStep

LEMMA FlowStep == Types /\ Tool!TypeOK /\ FlowInv /\ [Next]_vars => FlowInv'
<1> SUFFICES ASSUME Types, Tool!TypeOK, FlowInv, [Next]_vars PROVE FlowInv'
  OBVIOUS
<1>1. CASE UNCHANGED vars
  <2>1. /\ UNCHANGED <<toolVars, questionCh, responseCh, asking, sending, activeQuestions>>
        /\ UNCHANGED send
    BY <1>1 DEF vars, bridgeVars, socketVars
  <2> QED
    BY <2>1, SameQueue, SameFrames, FlowStays DEF FlowInv
<1>2. CASE Step
  BY <1>2, AskFlow, ToolFlow, TakeQuestionFlow, FanOutFlow, SendFlow, MessageFlow,
     HandlerTakesFlow, HandlerSendsFlow, SocketFlow
  DEF Step, BridgeStep, HandlerStep
<1> QED
  BY <1>1, <1>2 DEF Next, Dead, Quiet

LEMMA FlowInvariance == Spec => [](Types /\ Tool!TypeOK /\ FlowInv)
  BY TypesInvariance, FlowInit, FlowStep, PTL DEF Spec

\* Every client is asked and each may answer again and again, and yet a question
\* leads to one response, which finds the call's channel empty.
THEOREM OneResponse == Spec => []OneResponsePerQuestion
<1>1. FlowInv => OneResponsePerQuestion
  BY DEF FlowInv
<1> QED
  BY <1>1, FlowInvariance, PTL

-----------------------------------------------------------------------------
(* Answers *)

\* The question of c has not been put to any client and never will be.
Unasked(c) ==
  /\ pc[c] \notin {"idle", "registered"} /\ ~InQueue(c) /\ asking # c
  /\ activeQuestions[c] = NoClient /\ ~Framed(c)

Genuine(c, a) == a = c \/ (a = NoClientsAnswer /\ Unasked(c))

AnswersGenuine ==
  /\ \A i \in DOMAIN responseCh : Genuine(responseCh[i].call, responseCh[i].answer)
  /\ sending # NoResponse => Genuine(sending.call, sending.answer)
  /\ target[TheHandler] # NoCall => Genuine(target[TheHandler], held[TheHandler])
  /\ \A c \in Calls : /\ buffer[c] # NoAnswer => Genuine(c, buffer[c])
                      /\ outcome[c] = "answered" => Genuine(c, answer[c])

LEMMA GenuineInit == Init => AnswersGenuine
  BY DEF Init, Tool!Init, AnswersGenuine, Handlers

LEMMA UnaskedStays ==
  ASSUME Types, Tool!TypeOK, FlowInv, [Next]_vars, NEW c \in Calls, Unasked(c)
  PROVE  Unasked(c)'
<1> USE DEF Unasked
<1>1. ASSUME NEW d \in Calls, AskQuestion(d) PROVE Unasked(c)'
  <2>1. /\ d # c /\ pc' = [pc EXCEPT ![d] = "waiting"]
        /\ questionCh' = Append(questionCh, d)
        /\ UNCHANGED <<send, asking, activeQuestions>>
    BY <1>1 DEF AskQuestion, Tool!QuestionSent, socketVars, bridgeVars
  <2>2. ~InQueue(c)'
    BY <2>1, Put DEF InQueue, Types
  <2> QED
    BY <2>1, <2>2, SameFrames DEF Tool!TypeOK
<1>2. ASSUME NEW d \in Calls, ToolStep(d) \/ CallerStep(d) PROVE Unasked(c)'
  <2>1. pc'[c] \notin {"idle", "registered"}
    BY <1>2
    DEF ToolStep, CallerStep, Tool!TypeOK, Tool!ReceiveResponse, Tool!TimeOut,
        Tool!ContextDone, Tool!Leave, Tool!Unregister, Tool!CloseChannel, Tool!Register,
        Tool!RejectParams
  <2>2. UNCHANGED <<send, questionCh, asking, activeQuestions>>
    BY <1>2 DEF ToolStep, CallerStep, socketVars, bridgeVars
  <2> QED
    BY <2>1, <2>2, SameFrames DEF InQueue
<1>3. CASE TakeQuestion
  <2>1. /\ UNCHANGED <<pc, send, activeQuestions>>
        /\ asking' \in {asking, Head(questionCh)}
    BY <1>3 DEF TakeQuestion, toolVars, socketVars
  <2> QED
    BY <1>3, <2>1, QuestionTaken, SameFrames
<1>4. ASSUME NEW cl \in Clients, FanOut(cl) PROVE Unasked(c)'
  <2>1. /\ asking \in Calls /\ asking # c /\ asking' = asking
        /\ activeQuestions'[c] = activeQuestions[c]
        /\ UNCHANGED <<pc, questionCh>>
    BY <1>4 DEF FanOut, Types, SendFrame, SendPanics, toolVars
  <2>2. UNCHANGED send \/ Socket!Enqueue(cl, Question(asking))
    BY <1>4 DEF FanOut, SendFrame, SendPanics, Socket!SendResponse, socketVars
  <2>3. Question(asking) \in Frames /\ Question(asking) # Question(c)
    BY <2>1 DEF Frames, Question
  <2>4. ~Framed(c)'
    BY <2>2, <2>3, NewFrame, SameFrames
  <2> QED
    BY <2>1, <2>4 DEF InQueue
<1>5. CASE FanOutEnds \/ SendToHandler
  <2>1. /\ UNCHANGED <<pc, questionCh, send>> /\ asking' # c
        /\ activeQuestions'[c] = NoClient
    BY <1>5, Values DEF FanOutEnds, SendToHandler, Types, toolVars, socketVars
  <2> QED
    BY <2>1, SameFrames DEF InQueue
<1>6. CASE TakeResponse \/ TakeConnect \/ TakeDisconnect \/ TakeOther
  <2>1. UNCHANGED <<pc, questionCh, asking, activeQuestions>>
    BY <1>6 DEF TakeResponse, TakeConnect, TakeDisconnect, TakeOther, TakeFrom,
                SendPanics, toolVars
  <2>2. ~Framed(c)'
    BY <1>6, MessageFrames
  <2> QED
    BY <2>1, <2>2 DEF InQueue
<1>7. CASE HandlerTakes \/ HandlerSends
  <2>1. UNCHANGED <<pc, questionCh, asking, activeQuestions, send>>
    BY <1>7
    DEF HandlerTakes, HandlerSends, Tool!HandlerStep, Tool!Lookup, Tool!SendResponse,
        Tool!ResponseDropped, Tool!SendPanics, Tool!callVars, socketVars, bridgeVars
  <2> QED
    BY <2>1, SameFrames DEF InQueue
<1>8. CASE SocketStep \/ \E cl \in Clients, r \in Requests : ClientSends(cl, r)
  <2>1. UNCHANGED <<pc, questionCh, asking, activeQuestions>>
    BY <1>8 DEF SocketStep, ClientSends, toolVars, bridgeVars
  <2>2. ~Framed(c)'
    BY <1>8, SocketFrames
  <2> QED
    BY <2>1, <2>2 DEF InQueue
<1>9. CASE UNCHANGED vars
  BY <1>9, SameFrames DEF vars, toolVars, socketVars, bridgeVars, InQueue
<1> QED
  BY <1>1, <1>2, <1>3, <1>4, <1>5, <1>6, <1>7, <1>8, <1>9
  DEF Next, Step, BridgeStep, HandlerStep, Dead, Quiet

\* A step that leaves all answers where they are.
LEMMA GenuineKept ==
  ASSUME Types, Tool!TypeOK, AnswersGenuine,
         \A c \in Calls : Unasked(c) => Unasked(c)',
         UNCHANGED <<responseCh, sending, target, held>>,
         \A c \in Calls : /\ buffer'[c] \in {buffer[c], NoAnswer}
                          /\ outcome'[c] = "answered" =>
                               \/ outcome[c] = "answered" /\ answer'[c] = answer[c]
                               \/ buffer[c] # NoAnswer /\ answer'[c] = buffer[c]
  PROVE  AnswersGenuine'
<1>1. \A c \in Calls, a \in Answers : Genuine(c, a) => Genuine(c, a)'
  BY DEF Genuine
<1>2. \A i \in DOMAIN responseCh : responseCh[i].call \in Calls /\ responseCh[i].answer \in Answers
  <2> SUFFICES ASSUME NEW i \in DOMAIN responseCh
               PROVE  responseCh[i].call \in Calls /\ responseCh[i].answer \in Answers
    OBVIOUS
  <2>1. responseCh[i] \in Responses
    BY DEF Types
  <2> QED
    BY <2>1 DEF Responses
<1>3. sending # NoResponse => sending.call \in Calls /\ sending.answer \in Answers
  BY DEF Types, Responses
<1>4. target[TheHandler] # NoCall => target[TheHandler] \in Calls
  BY DEF Tool!TypeOK, Handlers
<1>5. /\ \A i \in DOMAIN responseCh' : Genuine(responseCh[i].call, responseCh[i].answer)'
      /\ sending' # NoResponse => Genuine(sending.call, sending.answer)'
  BY <1>2, <1>3 DEF Genuine, AnswersGenuine
<1>6. target'[TheHandler] # NoCall => Genuine(target[TheHandler], held[TheHandler])'
  BY <1>4 DEF Genuine, AnswersGenuine
<1>7. \A c \in Calls : /\ buffer'[c] # NoAnswer => Genuine(c, buffer[c])'
                       /\ outcome'[c] = "answered" => Genuine(c, answer[c])'
  BY DEF Genuine, AnswersGenuine
<1> QED
  BY <1>5, <1>6, <1>7 DEF AnswersGenuine

\* A step that leaves the tool's answers alone and moves a response at most.
LEMMA GenuineMoved ==
  ASSUME Types, Tool!TypeOK, AnswersGenuine,
         \A c \in Calls : Unasked(c) => Unasked(c)',
         UNCHANGED <<target, held, buffer, outcome, answer>>,
         \A i \in DOMAIN responseCh' : Genuine(responseCh[i].call, responseCh[i].answer)',
         sending' # NoResponse => Genuine(sending.call, sending.answer)'
  PROVE  AnswersGenuine'
<1>1. target[TheHandler] # NoCall => target[TheHandler] \in Calls
  BY DEF Tool!TypeOK, Handlers
<1>2. target'[TheHandler] # NoCall => Genuine(target[TheHandler], held[TheHandler])'
  BY <1>1 DEF Genuine, AnswersGenuine
<1>3. \A c \in Calls : /\ buffer'[c] # NoAnswer => Genuine(c, buffer[c])'
                       /\ outcome'[c] = "answered" => Genuine(c, answer[c])'
  BY DEF Genuine, AnswersGenuine
<1> QED
  BY <1>2, <1>3 DEF AnswersGenuine

LEMMA ResponseTypes ==
  ASSUME Types
  PROVE  /\ \A i \in DOMAIN responseCh : responseCh[i] \in Responses
         /\ \A r \in Responses : r.call \in Calls /\ r.answer \in Answers
         /\ sending # NoResponse => sending \in Responses
<1>1. \A i \in DOMAIN responseCh : responseCh[i] \in Responses
  BY DEF Types
<1>2. \A r \in Responses : r.call \in Calls /\ r.answer \in Answers
  BY DEF Responses
<1>3. sending # NoResponse => sending \in Responses
  BY DEF Types
<1> QED
  BY <1>1, <1>2, <1>3

LEMMA GenuineBridge ==
  ASSUME Types, Tool!TypeOK, FlowInv, AnswersGenuine, BridgeStep, FlowInv',
         \A c \in Calls : Unasked(c) => Unasked(c)'
  PROVE  AnswersGenuine'
<1> DEFINE Kept == \A i \in DOMAIN responseCh' : Genuine(responseCh[i].call, responseCh[i].answer)'
<1>1. UNCHANGED <<target, held, buffer, outcome, answer>>
  BY DEF BridgeStep, TakeQuestion, FanOutEnds, SendToHandler, TakeResponse, TakeConnect,
         TakeDisconnect, TakeOther, FanOut, SendFrame, SendPanics, toolVars
<1>2. \A c \in Calls, a \in Answers : Genuine(c, a) => Genuine(c, a)'
  BY DEF Genuine
<1>3. ASSUME UNCHANGED responseCh PROVE Kept
  <2> SUFFICES ASSUME NEW i \in DOMAIN responseCh
               PROVE  Genuine(responseCh[i].call, responseCh[i].answer)'
    BY <1>3
  <2>1. responseCh[i].call \in Calls /\ responseCh[i].answer \in Answers
    BY ResponseTypes
  <2>2. Genuine(responseCh[i].call, responseCh[i].answer)
    BY DEF AnswersGenuine
  <2> QED
    BY <1>3, <2>1, <2>2 DEF Genuine
<1>4. ASSUME sending # NoResponse, UNCHANGED sending
      PROVE  Genuine(sending.call, sending.answer)'
  <2>1. sending.call \in Calls /\ Genuine(sending.call, sending.answer)
    BY <1>4, ResponseTypes DEF AnswersGenuine
  <2> QED
    BY <1>4, <2>1 DEF Genuine
<1>5. CASE TakeQuestion
  <2>0. PICK c \in Calls : c = Head(questionCh)
    BY <1>5, QuestionTaken
  <2>1. Fresh(c) /\ ~InQueue(c)' /\ pc[c] \notin {"idle", "registered"}
    BY <1>5, <2>0, QuestionTaken
  <2>2. CASE clients = {}
    <3>1. /\ sending' = [call |-> c, answer |-> NoClientsAnswer]
          /\ UNCHANGED <<pc, send, asking, activeQuestions, responseCh>>
      BY <1>5, <2>0, <2>2 DEF TakeQuestion, toolVars, socketVars
    <3>2. Unasked(c)'
      BY <2>1, <3>1, SameFrames DEF Unasked, Fresh
    <3>3. sending'.call = c /\ sending'.answer = NoClientsAnswer
      BY <3>1
    <3>4. Genuine(sending.call, sending.answer)'
      BY <3>2, <3>3 DEF Genuine
    <3> QED
      BY <1>1, <1>3, <3>1, <3>4, GenuineMoved
  <2>3. CASE clients # {}
    <3>1. UNCHANGED <<sending, responseCh>>
      BY <1>5, <2>3 DEF TakeQuestion
    <3> QED
      BY <1>1, <1>3, <1>4, <3>1, GenuineMoved
  <2> QED
    BY <2>2, <2>3
<1>6. CASE FanOutEnds \/ \E cl \in Clients : FanOut(cl)
  <2>1. UNCHANGED <<sending, responseCh>>
    BY <1>6 DEF FanOutEnds, FanOut
  <2> QED
    BY <1>1, <1>3, <1>4, <2>1, GenuineMoved
<1>7. CASE SendToHandler
  <2>1. /\ sending \in Responses /\ sending # NoResponse /\ sending' = NoResponse
        /\ responseCh' = Append(responseCh, sending)
    BY <1>7, Values DEF SendToHandler, Types, Responses, NoResponse
  <2>2. /\ DOMAIN responseCh' = DOMAIN responseCh \cup {Len(responseCh) + 1}
        /\ responseCh'[Len(responseCh) + 1] = sending
        /\ \A i \in DOMAIN responseCh : responseCh'[i] = responseCh[i]
    BY <2>1, Put DEF Types
  <2>3. Kept
    <3> SUFFICES ASSUME NEW i \in DOMAIN responseCh'
                 PROVE  Genuine(responseCh[i].call, responseCh[i].answer)'
      OBVIOUS
    <3>1. PICK r \in Responses : responseCh'[i] = r /\ Genuine(r.call, r.answer)
      BY <2>1, <2>2, ResponseTypes DEF AnswersGenuine
    <3>2. r.call \in Calls /\ r.answer \in Answers
      BY ResponseTypes
    <3> QED
      BY <3>1, <3>2 DEF Genuine
  <2> QED
    BY <1>1, <2>1, <2>3, GenuineMoved
<1>8. CASE TakeResponse \/ TakeConnect \/ TakeDisconnect \/ TakeOther
  <2>1. UNCHANGED responseCh
    BY <1>8 DEF TakeResponse, TakeConnect, TakeDisconnect, TakeOther, TakeFrom
  <2>2. UNCHANGED sending \/ \E c : sending' = [call |-> c, answer |-> c]
    BY <1>8 DEF TakeResponse, TakeConnect, TakeDisconnect, TakeOther, TakeFrom
  <2>3. UNCHANGED sending \/ Genuine(sending.call, sending.answer)'
    BY <2>2 DEF Genuine
  <2> QED
    BY <1>1, <1>3, <1>4, <2>1, <2>3, GenuineMoved
<1> QED
  BY <1>5, <1>6, <1>7, <1>8 DEF BridgeStep

LEMMA GenuineHandler ==
  ASSUME Types, Tool!TypeOK, FlowInv, AnswersGenuine, HandlerStep,
         \A c \in Calls : Unasked(c) => Unasked(c)'
  PROVE  AnswersGenuine'
<1>1. UNCHANGED <<sending, outcome, answer>>
  BY DEF HandlerStep, HandlerTakes, HandlerSends, Tool!HandlerStep, Tool!Lookup,
         Tool!SendResponse, Tool!ResponseDropped, Tool!SendPanics, Tool!callVars, bridgeVars
<1>2. sending' # NoResponse => Genuine(sending.call, sending.answer)'
  BY <1>1, ResponseTypes DEF Genuine, AnswersGenuine
<1>3. \A c \in Calls : outcome'[c] = "answered" => Genuine(c, answer[c])'
  BY <1>1 DEF Genuine, AnswersGenuine
<1>4. CASE HandlerTakes
  <2>1. /\ responseCh # <<>> /\ responseCh' = Tail(responseCh)
        /\ target' = [target EXCEPT ![TheHandler] = pendingRequests[Head(responseCh).call]]
        /\ held' = [held EXCEPT ![TheHandler] =
                      IF pendingRequests[Head(responseCh).call] = NoCall THEN NoAnswer
                      ELSE Head(responseCh).answer]
        /\ UNCHANGED buffer
    BY <1>4 DEF HandlerTakes, Tool!Lookup, Tool!chanVars
  <2>2. /\ 1 \in DOMAIN responseCh /\ Head(responseCh) = responseCh[1]
        /\ \A i \in DOMAIN responseCh' :
              i + 1 \in DOMAIN responseCh /\ responseCh'[i] = responseCh[i + 1]
    BY <2>1, Taken DEF Types
  <2>3. \A i \in DOMAIN responseCh' : Genuine(responseCh[i].call, responseCh[i].answer)'
    <3> SUFFICES ASSUME NEW i \in DOMAIN responseCh'
                 PROVE  Genuine(responseCh[i].call, responseCh[i].answer)'
      OBVIOUS
    <3>1. PICK r \in Responses : responseCh'[i] = r /\ Genuine(r.call, r.answer)
      BY <2>2, ResponseTypes DEF AnswersGenuine
    <3>2. r.call \in Calls
      BY ResponseTypes
    <3> QED
      BY <3>1, <3>2 DEF Genuine
  <2>4. target'[TheHandler] # NoCall => Genuine(target[TheHandler], held[TheHandler])'
    <3> SUFFICES ASSUME target'[TheHandler] # NoCall
                 PROVE  Genuine(target[TheHandler], held[TheHandler])'
      OBVIOUS
    <3>1. PICK r \in Responses : Head(responseCh) = r /\ Genuine(r.call, r.answer)
      BY <2>2, ResponseTypes DEF AnswersGenuine
    <3>2. r.call \in Calls
      BY ResponseTypes
    <3>3. target'[TheHandler] = pendingRequests[r.call]
          /\ (pendingRequests[r.call] # NoCall => held'[TheHandler] = r.answer)
      BY <2>1, <3>1 DEF Tool!TypeOK, Handlers
    <3>4. target'[TheHandler] = r.call /\ held'[TheHandler] = r.answer
      BY <3>2, <3>3 DEF FlowInv, OwnID
    <3> QED
      BY <3>1, <3>2, <3>4 DEF Genuine
  <2>5. \A c \in Calls : buffer'[c] # NoAnswer => Genuine(c, buffer[c])'
    BY <2>1 DEF Genuine, AnswersGenuine
  <2> QED
    BY <1>2, <1>3, <2>3, <2>4, <2>5 DEF AnswersGenuine
<1>5. CASE HandlerSends
  <2>1. UNCHANGED responseCh
    BY <1>5 DEF HandlerSends
  <2>2. \A i \in DOMAIN responseCh' : Genuine(responseCh[i].call, responseCh[i].answer)'
    BY <2>1, ResponseTypes DEF Genuine, AnswersGenuine
  <2>3. CASE Tool!SendPanics(TheHandler)
    <3>1. UNCHANGED <<target, held, buffer>>
      BY <2>3 DEF Tool!SendPanics, Tool!chanVars
    <3> QED
      BY <1>1, <1>2, <2>2, <3>1, GenuineMoved
  <2>4. CASE Tool!ResponseDropped(TheHandler) \/ Tool!SendResponse(TheHandler)
    <3>1. PICK c \in Calls : c = target[TheHandler] /\ Genuine(c, held[TheHandler])
      BY <2>4
      DEF Tool!ResponseDropped, Tool!SendResponse, Tool!TypeOK, Handlers, AnswersGenuine
    <3>2. target'[TheHandler] = NoCall
      BY <2>4 DEF Tool!ResponseDropped, Tool!SendResponse, Tool!HandlerReturns, Tool!TypeOK,
                  Handlers
    <3>3. \A d \in Calls : buffer'[d] = buffer[d] \/ (d = c /\ buffer'[d] = held[TheHandler])
      BY <2>4, <3>1
      DEF Tool!ResponseDropped, Tool!SendResponse, Tool!chanVars, Tool!TypeOK
    <3>4. \A d \in Calls : buffer'[d] # NoAnswer => Genuine(d, buffer[d])'
      BY <3>1, <3>3 DEF Genuine, AnswersGenuine
    <3> QED
      BY <1>2, <1>3, <2>2, <3>2, <3>4 DEF AnswersGenuine
  <2> QED
    BY <1>5, <2>3, <2>4 DEF HandlerSends, Tool!HandlerStep
<1> QED
  BY <1>4, <1>5 DEF HandlerStep

LEMMA GenuineStep ==
  Types /\ Tool!TypeOK /\ FlowInv /\ AnswersGenuine /\ [Next]_vars => AnswersGenuine'
<1> SUFFICES ASSUME Types, Tool!TypeOK, FlowInv, AnswersGenuine, [Next]_vars
             PROVE  AnswersGenuine'
  OBVIOUS
<1>1. FlowInv' /\ \A c \in Calls : Unasked(c) => Unasked(c)'
  BY FlowStep, UnaskedStays
<1>2. ASSUME NEW c \in Calls, AskQuestion(c) PROVE AnswersGenuine'
  <2>1. UNCHANGED <<responseCh, sending, target, held, buffer, outcome, answer>>
    BY <1>2 DEF AskQuestion, Tool!QuestionSent, Tool!chanVars, Tool!handlerVars, bridgeVars
  <2> QED
    BY <1>1, <2>1, GenuineKept
<1>3. ASSUME NEW c \in Calls, ToolStep(c) \/ CallerStep(c) PROVE AnswersGenuine'
  <2>1. UNCHANGED <<responseCh, sending, target, held>>
    BY <1>3
    DEF ToolStep, CallerStep, Tool!ReceiveResponse, Tool!TimeOut, Tool!ContextDone,
        Tool!Unregister, Tool!CloseChannel, Tool!Register, Tool!RejectParams,
        Tool!handlerVars, bridgeVars
  <2>2. \A d \in Calls : /\ buffer'[d] \in {buffer[d], NoAnswer}
                         /\ outcome'[d] = "answered" =>
                              \/ outcome[d] = "answered" /\ answer'[d] = answer[d]
                              \/ buffer[d] # NoAnswer /\ answer'[d] = buffer[d]
    BY <1>3
    DEF ToolStep, CallerStep, Tool!ReceiveResponse, Tool!TimeOut, Tool!ContextDone,
        Tool!Leave, Tool!Unregister, Tool!CloseChannel, Tool!Register, Tool!RejectParams,
        Tool!chanVars, Tool!TypeOK
  <2> QED
    BY <1>1, <2>1, <2>2, GenuineKept
<1>4. CASE SocketStep \/ \E cl \in Clients, r \in Requests : ClientSends(cl, r)
  <2>1. UNCHANGED <<responseCh, sending, target, held, buffer, outcome, answer>>
    BY <1>4 DEF SocketStep, ClientSends, toolVars, bridgeVars
  <2> QED
    BY <1>1, <2>1, GenuineKept
<1>5. CASE UNCHANGED vars
  <2>1. UNCHANGED <<responseCh, sending, target, held, buffer, outcome, answer>>
    BY <1>5 DEF vars, toolVars, bridgeVars
  <2> QED
    BY <1>1, <2>1, GenuineKept
<1> QED
  BY <1>1, <1>2, <1>3, <1>4, <1>5, GenuineBridge, GenuineHandler DEF Next, Step, Dead, Quiet

\* What a call returns was said to its own question, or is the text for no
\* clients, and then no client has been asked.
THEOREM GenuineAnswers == Spec => []AnswerIsFromUser
<1>1. AnswersGenuine => AnswerIsFromUser
  BY RouterAssumption
  DEF RouterAssumption, AnswersGenuine, Genuine, Unasked, Framed, AnswerIsFromUser
<1>2. Spec => [](Types /\ Tool!TypeOK /\ FlowInv /\ AnswersGenuine)
  BY FlowInvariance, GenuineInit, GenuineStep, PTL DEF Spec
<1> QED
  BY <1>1, <1>2, PTL

-----------------------------------------------------------------------------
(* What the tool promises, through the whole pipeline *)

LEMMA ToolIsProved == Spec => Proved!Spec
<1>1. Init => Proved!Init
  BY DEF Init, Tool!Init, Proved!Init
<1>2. Types /\ [Next]_vars => [Proved!Next]_(Proved!vars)
  <2>1. (Tool!vars = Proved!vars)'
    BY SameTool, PTL
  <2> QED
    BY <2>1, ToolRefined, SameTool
<1> QED
  BY <1>1, <1>2, TypesInvariance, PTL DEF Spec, Proved!Spec

Findable(c) == Tool!Registered(c) => pendingRequests[c] = c

\* The map never leads the handler to a closed channel or to that of another
\* question; and as no two calls share a request ID here, whoever waits is found.
THEOREM WaitingCallsAreFound ==
  Spec => [](Tool!PendingChannelsOpen /\ \A c \in Calls : Findable(c))
<1>1. Proved!Spec => []Proved!IInv
  BY Values, Proved!Invariance
<1>2. Proved!IInv => Tool!PendingChannelsOpen
  BY DEF Proved!IInv, Proved!PendingChannelsOpen, Tool!PendingChannelsOpen,
         Proved!Registered, Tool!Registered
<1>3. FlowInv /\ Proved!IInv => \A c \in Calls : Findable(c)
  BY Values DEF FlowInv, OwnID, Proved!IInv, Proved!ProgramOrder,
     Proved!PendingUnlessCollision, Proved!Registered, Tool!Registered, Findable
<1> QED
  BY <1>1, <1>2, <1>3, ToolIsProved, FlowInvariance, PTL

\* Every answer that main's handler has reported as sent is the one its call
\* returns or is still in its channel.
THEOREM AnswersAccounted == Spec => []Tool!AcceptedInOrder
<1>1. Proved!Spec => []Proved!AcceptedInOrder
  BY Values, Proved!AcceptedAnswersAccounted
<1>2. Proved!AcceptedInOrder => Tool!AcceptedInOrder
  BY DEF Proved!AcceptedInOrder, Tool!AcceptedInOrder, Proved!Unread, Tool!Unread
<1> QED
  BY <1>1, <1>2, ToolIsProved, PTL

LEMMA SamePromise ==
  /\ Tool!Once!Init <=> Proved!Once!Init
  /\ Tool!Once!Next <=> Proved!Once!Next
  /\ Tool!Once!vars = Proved!Once!vars
<1>1. Tool!Once!Init <=> Proved!Once!Init
  BY DEF Tool!Once!Init, Proved!Once!Init, Tool!AbsStatus, Proved!AbsStatus,
         Tool!AbsOutcome, Proved!AbsOutcome, Tool!AbsAnswer, Proved!AbsAnswer, Tool!Ended,
         Proved!Ended
<1>2. Tool!Once!Next <=> Proved!Once!Next
  BY DEF Tool!Once!Next, Proved!Once!Next, Tool!Once!Refuse, Proved!Once!Refuse,
         Tool!Once!Ask, Proved!Once!Ask, Tool!Once!Offer, Proved!Once!Offer,
         Tool!Once!EndWithAnswer, Proved!Once!EndWithAnswer, Tool!Once!EndWithout,
         Proved!Once!EndWithout, Tool!Once!Failures, Proved!Once!Failures, Tool!AbsStatus,
         Proved!AbsStatus, Tool!AbsOutcome, Proved!AbsOutcome, Tool!AbsAnswer,
         Proved!AbsAnswer, Tool!Ended, Proved!Ended
<1>3. Tool!Once!vars = Proved!Once!vars
  BY DEF Tool!Once!vars, Proved!Once!vars, Tool!AbsStatus, Proved!AbsStatus,
         Tool!AbsOutcome, Proved!AbsOutcome, Tool!AbsAnswer, Proved!AbsAnswer, Tool!Ended,
         Proved!Ended
<1> QED
  BY <1>1, <1>2, <1>3

\* Through queues, fan-out and clients that answer twice or not at all, an
\* agent's call keeps the promise of AskOnce: it ends once, and with an answer
\* only if that answer was offered for its own question while it waited.
THEOREM PipelineKeepsPromise == Spec => Tool!ImplementsAskOnce
<1>1. Proved!Spec => Proved!ImplementsAskOnce
  BY Values, Proved!Refinement
<1>2. (Tool!Once!vars = Proved!Once!vars)'
  BY SamePromise, PTL
<1>3. [Proved!Once!Next]_(Proved!Once!vars) => [Tool!Once!Next]_(Tool!Once!vars)
  BY <1>2, SamePromise
<1>4. Proved!Once!Init => Tool!Once!Init
  BY SamePromise
<1>5. Proved!ImplementsAskOnce => Tool!ImplementsAskOnce
  BY <1>3, <1>4, PTL
  DEF Proved!ImplementsAskOnce, Tool!ImplementsAskOnce, Proved!Once!Spec, Tool!Once!Spec
<1> QED
  BY <1>1, <1>5, ToolIsProved, PTL

\* The select with a default case of HandleUserResponse never takes the default in
\* this process: whoever is about to be handed a response has room for it.
THEOREM ChannelHasRoom ==
  Spec => [](target[TheHandler] # NoCall => buffer[target[TheHandler]] = NoAnswer)
<1>1. ASSUME Tool!TypeOK, OneResponsePerQuestion, Tool!AcceptedInOrder, target[TheHandler] # NoCall
      PROVE  buffer[target[TheHandler]] = NoAnswer
  <2> DEFINE c == target[TheHandler]
  <2>1. c \in Calls
    BY <1>1 DEF Tool!TypeOK, Handlers
  <2>2. accepted[c] = <<>>
    BY <1>1, <2>1 DEF OneResponsePerQuestion, WithHandler, Handed
  <2>3. SUFFICES ASSUME buffer[c] # NoAnswer PROVE FALSE
    OBVIOUS
  <2>4. Tool!Unread(c) = <<buffer[c]>>
    BY <2>3 DEF Tool!Unread
  <2>5. <<answer[c]>> \o <<buffer[c]>> # <<>> /\ <<buffer[c]>> # <<>>
    OBVIOUS
  <2> QED
    BY <1>1, <2>1, <2>2, <2>4, <2>5 DEF Tool!AcceptedInOrder
<1> QED
  BY <1>1, FlowInvariance, OneResponse, AnswersAccounted, PTL

-----------------------------------------------------------------------------
(* How the process dies *)

Senders == {messageCh[i].client : i \in DOMAIN messageCh}

\* Whoever the bridge may send to has connected, so a fan-out never waits; and what
\* has killed the bridge is a closed send channel of a client in its map.
BridgeKnows ==
  /\ \A cl \in clients : link[cl] # "new"
  /\ \A cl \in Senders : link[cl] # "new"
  /\ bridge = "panicked" => \E cl \in clients : link[cl] = "closed"

\* Nobody becomes new again.
LEMMA LinksStay ==
  ASSUME Types, [Next]_vars, NEW cl \in Clients, link[cl] # "new"
  PROVE  link'[cl] # "new"
<1>1. CASE UNCHANGED link
  BY <1>1
<1>2. CASE SocketStep
  BY <1>2 DEF SocketStep, Types, Socket!Connect, Socket!WriteOut, Socket!Break,
              Socket!Unregister, Socket!HubTakesMessage
<1>3. CASE ~SocketStep
  <2>1. UNCHANGED link
    BY <1>3
    DEF Next, Step, Dead, Quiet, vars, AskQuestion, ToolStep, CallerStep, BridgeStep,
        TakeQuestion, FanOutEnds, SendToHandler, TakeResponse, TakeConnect, TakeDisconnect,
        TakeOther, FanOut, SendFrame, SendPanics, HandlerStep, HandlerTakes, HandlerSends,
        ClientSends, Socket!Forward, Socket!TakeMessage, Socket!TakeAndRespond,
        Socket!SendResponse, socketVars
  <2> QED
    BY <2>1
<1> QED
  BY <1>2, <1>3

LEMMA SendersMove ==
  ASSUME Types
  PROVE  /\ Senders \subseteq Clients
         /\ messageCh # <<>> => Head(messageCh).client \in Senders
         /\ messageCh # <<>> /\ messageCh' = Tail(messageCh) => Senders' \subseteq Senders
         /\ UNCHANGED messageCh => Senders' = Senders
         /\ \A cl \in Clients, r \in Requests :
              messageCh' = Append(messageCh, [client |-> cl, request |-> r])
                => Senders' \subseteq Senders \cup {cl}
<1>1. messageCh \in Seq(Socket!Messages) /\ \A m \in Socket!Messages : m.client \in Clients
  BY DEF Types, Socket!Messages
<1>2. \A i \in DOMAIN messageCh : messageCh[i] \in Socket!Messages
  BY <1>1
<1>3. messageCh # <<>> =>
        /\ 1 \in DOMAIN messageCh /\ Head(messageCh) = messageCh[1]
        /\ \A i \in DOMAIN Tail(messageCh) :
              i + 1 \in DOMAIN messageCh /\ Tail(messageCh)[i] = messageCh[i + 1]
  BY <1>1, Taken
<1>4. ASSUME NEW cl \in Clients, NEW r \in Requests,
             messageCh' = Append(messageCh, [client |-> cl, request |-> r])
      PROVE  Senders' \subseteq Senders \cup {cl}
  <2> DEFINE m == [client |-> cl, request |-> r]
  <2>1. m \in Socket!Messages /\ m.client = cl
    BY DEF Socket!Messages
  <2> HIDE DEF m
  <2>2. /\ DOMAIN Append(messageCh, m) = DOMAIN messageCh \cup {Len(messageCh) + 1}
        /\ Append(messageCh, m)[Len(messageCh) + 1] = m
        /\ \A i \in DOMAIN messageCh : Append(messageCh, m)[i] = messageCh[i]
    BY <1>1, <2>1, Put
  <2>3. messageCh' = Append(messageCh, m)
    BY <1>4 DEF m
  <2> QED
    BY <2>1, <2>2, <2>3 DEF Senders
<1>5. messageCh # <<>> /\ messageCh' = Tail(messageCh) => Senders' \subseteq Senders
  BY <1>3 DEF Senders
<1> QED
  BY <1>1, <1>2, <1>3, <1>4, <1>5 DEF Senders

LEMMA BridgeKnowsStep == Types /\ BridgeKnows /\ [Next]_vars => BridgeKnows'
<1> SUFFICES ASSUME Types, BridgeKnows, [Next]_vars PROVE BridgeKnows'
  OBVIOUS
<1>1. clients \subseteq Clients /\ Senders \subseteq Clients
  BY SendersMove DEF Types
<1>2. ASSUME clients' \subseteq clients \cup Senders,
             \/ Senders' \subseteq Senders
             \/ \E cl \in Clients : link[cl] # "new" /\ Senders' \subseteq Senders \cup {cl},
             bridge' = "panicked" => \E cl \in clients' : link'[cl] = "closed"
      PROVE  BridgeKnows'
  <2>1. \A cl \in Clients : link[cl] # "new" => link'[cl] # "new"
    BY LinksStay
  <2> QED
    BY <1>1, <1>2, <2>1 DEF BridgeKnows
<1>3. CASE UNCHANGED vars
  <2>1. Senders' = Senders
    BY <1>3, SendersMove DEF vars, socketVars
  <2> QED
    BY <1>2, <1>3, <2>1 DEF BridgeKnows, vars, bridgeVars, socketVars
<1>4. ASSUME Alive, UNCHANGED <<clients, bridge, messageCh>> PROVE BridgeKnows'
  BY <1>2, <1>4, SendersMove DEF Alive
<1>5. ASSUME NEW cl \in Clients, FanOut(cl) PROVE BridgeKnows'
  <2>1. UNCHANGED <<clients, messageCh, link>> /\ cl \in clients
    BY <1>5 DEF FanOut, SendFrame, SendPanics, Socket!SendResponse, socketVars, Types
  <2>2. bridge' = "panicked" => link[cl] = "closed"
    BY <1>5 DEF FanOut, SendFrame, SendPanics
  <2> QED
    BY <1>2, <2>1, <2>2, SendersMove
<1>6. CASE TakeResponse \/ TakeConnect \/ TakeDisconnect \/ TakeOther
  <2>1. messageCh # <<>> /\ clients' \subseteq clients \cup {Incoming.client} /\ UNCHANGED link
    BY <1>6
    DEF TakeResponse, TakeConnect, TakeDisconnect, TakeOther, TakeFrom, Socket!TakeMessage,
        Socket!TakeAndRespond, SendPanics, socketVars
  <2>2. UNCHANGED messageCh \/ messageCh' = Tail(messageCh)
    BY <1>6
    DEF TakeResponse, TakeConnect, TakeDisconnect, TakeOther, Socket!TakeMessage,
        Socket!TakeAndRespond, SendPanics, socketVars
  <2>3. bridge' = "panicked" => Incoming.client \in clients' /\ link[Incoming.client] = "closed"
    BY <1>6
    DEF TakeResponse, TakeConnect, TakeDisconnect, TakeOther, TakeFrom, SendPanics
  <2> QED
    BY <1>2, <2>1, <2>2, <2>3, SendersMove DEF Incoming
<1>7. CASE TakeQuestion \/ FanOutEnds \/ SendToHandler
  <2>1. UNCHANGED <<clients, messageCh>> /\ bridge' # "panicked"
    BY <1>7 DEF TakeQuestion, FanOutEnds, SendToHandler, socketVars
  <2> QED
    BY <1>2, <2>1, SendersMove
<1>8. ASSUME NEW cl \in Clients, NEW r \in Requests, Alive, ClientSends(cl, r) PROVE BridgeKnows'
  <2>1. UNCHANGED <<clients, bridge>> /\ link[cl] # "new"
    BY <1>8 DEF ClientSends, Socket!Forward, bridgeVars
  <2>2. UNCHANGED messageCh \/ messageCh' = Append(messageCh, [client |-> cl, request |-> r])
    BY <1>8 DEF ClientSends, Socket!Forward
  <2>3. bridge # "panicked"
    BY <1>8 DEF Alive
  <2> QED
    BY <1>2, <2>1, <2>2, <2>3, SendersMove
<1>9. ASSUME Alive, SocketStep PROVE BridgeKnows'
  <2>1. UNCHANGED <<clients, bridge>>
    BY <1>9 DEF SocketStep, bridgeVars
  <2>2. UNCHANGED messageCh \/ (messageCh # <<>> /\ messageCh' = Tail(messageCh))
    BY <1>9
    DEF SocketStep, Socket!Connect, Socket!WriteOut, Socket!Break, Socket!Unregister,
        Socket!HubTakesMessage
  <2>3. bridge # "panicked"
    BY <1>9 DEF Alive
  <2> QED
    BY <1>2, <2>1, <2>2, <2>3, SendersMove
<1>10. ASSUME Alive,
              HandlerStep \/ \E c \in Calls : AskQuestion(c) \/ ToolStep(c) \/ CallerStep(c)
       PROVE  BridgeKnows'
  <2>1. UNCHANGED <<clients, bridge, messageCh>>
    BY <1>10
    DEF HandlerStep, HandlerTakes, HandlerSends, AskQuestion, ToolStep, CallerStep,
        socketVars, bridgeVars
  <2> QED
    BY <1>4, <1>10, <2>1
<1> QED
  BY <1>3, <1>5, <1>6, <1>7, <1>8, <1>9, <1>10 DEF Next, Step, BridgeStep, Dead, Quiet

Reason ==
  /\ crashed => target[TheHandler] \in Calls /\ pc[target[TheHandler]] = "returned"
  /\ bridge = "panicked" => \E cl \in clients : link[cl] = "closed"

\* The process dies in two ways and no other: the handler sends to a call that has
\* returned, or the bridge to a client it still has in its map and whose connection
\* the server has dropped.  A bridge with a clean map never dies.
THEOREM DiesOfClosedChannels == Spec => []Reason
<1>1. Init => BridgeKnows
  BY DEF Init, Socket!Init, BridgeKnows, Senders
<1>2. Spec => []BridgeKnows
  BY <1>1, BridgeKnowsStep, TypesInvariance, PTL DEF Spec
<1>3. Proved!Spec => []Proved!DiesLate
  BY Values, Proved!DiesOnlyLate
<1>4. BridgeKnows /\ Proved!DiesLate => Reason
  BY DEF BridgeKnows, Proved!DiesLate, Reason, Handlers
<1> QED
  BY <1>2, <1>3, <1>4, ToolIsProved, PTL

\* A client the bridge is to ask has connected.
LEMMA AskedHaveConnected ==
  Spec => [](\A cl \in todo : link[cl] \in {"open", "broken", "closed"})
<1>1. Init => BridgeKnows
  BY DEF Init, Socket!Init, BridgeKnows, Senders
<1>2. Spec => [](Types /\ BridgeKnows)
  BY <1>1, BridgeKnowsStep, TypesInvariance, PTL DEF Spec
<1>3. Types /\ BridgeKnows => \A cl \in todo : link[cl] \in {"open", "broken", "closed"}
  BY DEF Types, BridgeKnows
<1> QED
  BY <1>2, <1>3, PTL

-----------------------------------------------------------------------------
(* No circle of goroutines that wait for each other *)

HasWork ==
  questionCh # <<>> \/ responseCh # <<>> \/ bridge # "select" \/ target[TheHandler] # NoCall

\* The guards of TakeQuestion, of FanOut and FanOutEnds, of SendToHandler, of
\* HandlerTakes and of HandlerSends.
BridgeReady ==
  \/ bridge = "select" /\ questionCh # <<>>
  \/ bridge = "fanout" /\ \A cl \in todo : link[cl] \in {"open", "broken", "closed"}
  \/ bridge = "send" /\ Len(responseCh) < ResponseCap
HandlerReady ==
  \/ responseCh # <<>> /\ target[TheHandler] = NoCall /\ Head(responseCh) \in Responses
  \/ target[TheHandler] \in Calls

\* As long as a question or a response is under way in a living process, the bridge
\* or the handler can take a step, whatever the calls, the clients and the sockets
\* do: their sends block, but never both on each other.
THEOREM NeverAllWaiting == Spec => [](Alive /\ HasWork => BridgeReady \/ HandlerReady)
<1>1. ASSUME Types, Tool!TypeOK, Alive, HasWork,
             \A cl \in todo : link[cl] \in {"open", "broken", "closed"}
      PROVE  BridgeReady \/ HandlerReady
  <2>1. target[TheHandler] \in Calls \cup {NoCall}
    BY <1>1 DEF Tool!TypeOK, Handlers
  <2>2. responseCh # <<>> => Head(responseCh) \in Responses
    BY <1>1 DEF Types
  <2>3. bridge = "send" /\ ~(Len(responseCh) < ResponseCap) => responseCh # <<>>
    BY <1>1, RouterAssumption DEF Types, RouterAssumption
  <2> QED
    BY <1>1, <2>1, <2>2, <2>3 DEF Types, Alive, HasWork, BridgeReady, HandlerReady
<1> QED
  BY <1>1, TypesInvariance, AskedHaveConnected, PTL
=============================================================================
