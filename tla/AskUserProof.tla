---------------------------- MODULE AskUserProof ----------------------------
(***************************************************************************)
(* Proofs about AskUser for every number of calls and handlers and every   *)
(* set of request IDs and answers, colliding request IDs included.         *)
(***************************************************************************)
EXTENDS AskUser, TLAPS

USE NoCallAssumption, NoIDAssumption, NoAnswerAssumption

LEMMA TypeInit == Init => TypeOK
  <1> SUFFICES ASSUME Init
               PROVE  TypeOK
    OBVIOUS
  <1>1. accepted \in [Calls -> Seq(Answers)]
    BY DEF Init
  <1>2. pendingRequests \in [RequestIDs -> Calls \cup {NoCall}]
    BY DEF Init
  <1>3. offers \in [Calls -> SUBSET Answers]
    BY DEF Init
  <1> QED
    BY <1>1, <1>2, <1>3 DEF Init, TypeOK, PCs, Outcomes

LEMMA TypeStep == TypeOK /\ [Next]_vars => TypeOK'
  <1> SUFFICES ASSUME TypeOK, [Next]_vars
               PROVE  TypeOK'
    OBVIOUS
  <1> USE DEF callVars, chanVars, handlerVars, history
  <1>1. ASSUME NEW c \in Calls, RejectParams(c)
        PROVE  TypeOK'
    BY <1>1 DEF TypeOK, RejectParams, PCs, Outcomes
  <1>2. ASSUME NEW c \in Calls, NEW id \in RequestIDs, Register(c, id)
        PROVE  TypeOK'
    BY <1>2 DEF TypeOK, Register, PCs
  <1>3. ASSUME NEW c \in Calls, CallStep(c)
        PROVE  TypeOK'
    <2>1. CASE QuestionSent(c)
      BY <2>1 DEF TypeOK, QuestionSent, PCs
    <2>2. CASE QuestionFailed(c)
      BY <2>2 DEF TypeOK, QuestionFailed, Leave, PCs, Outcomes
    <2>3. CASE ReceiveResponse(c)
      BY <2>3 DEF TypeOK, ReceiveResponse, Leave, PCs, Outcomes
    <2>4. CASE TimeOut(c)
      BY <2>4 DEF TypeOK, TimeOut, Leave, PCs, Outcomes
    <2>5. CASE Unregister(c)
      BY <2>5 DEF TypeOK, Unregister, PCs
    <2>6. CASE CloseChannel(c)
      BY <2>6 DEF TypeOK, CloseChannel, PCs
    <2> QED
      BY <1>3, <2>1, <2>2, <2>3, <2>4, <2>5, <2>6 DEF CallStep
  <1>4. ASSUME NEW c \in Calls, ContextDone(c)
        PROVE  TypeOK'
    BY <1>4 DEF TypeOK, ContextDone, Leave, PCs, Outcomes
  <1>5. ASSUME NEW h \in Handlers, NEW id \in RequestIDs, NEW a \in Answers,
               Lookup(h, id, a)
        PROVE  TypeOK'
    BY <1>5 DEF TypeOK, Lookup
  <1>6. ASSUME NEW h \in Handlers, HandlerStep(h)
        PROVE  TypeOK'
    <2>1. CASE SendResponse(h)
      <3>1. held[h] \in Answers /\ target[h] \in Calls
        BY <2>1 DEF SendResponse, TypeOK
      <3>2. accepted' \in [Calls -> Seq(Answers)]
        BY <2>1, <3>1 DEF SendResponse, TypeOK
      <3> QED
        BY <2>1, <3>1, <3>2 DEF TypeOK, SendResponse, HandlerReturns
    <2>2. CASE ResponseDropped(h)
      BY <2>2 DEF TypeOK, ResponseDropped, HandlerReturns
    <2>3. CASE SendPanics(h)
      BY <2>3 DEF TypeOK, SendPanics
    <2> QED
      BY <1>6, <2>1, <2>2, <2>3 DEF HandlerStep
  <1>7. CASE UNCHANGED vars
    BY <1>7 DEF TypeOK, vars
  <1> QED
    BY <1>1, <1>2, <1>3, <1>4, <1>5, <1>6, <1>7 DEF Next, Step, Dead

(* Every variable keeps its type, and a handler holds an answer exactly     *)
(* while it holds a channel.                                                *)
THEOREM Typing == Spec => []TypeOK
  BY TypeInit, TypeStep, PTL DEF Spec

-----------------------------------------------------------------------------
(* What closes, closes last: the part of the state each program counter     *)
(* fixes.  PendingChannelsOpen and PendingUnlessCollision need it.          *)
ProgramOrder ==
  \A c \in Calls :
     /\ closed[c] => pc[c] = "returned"
     /\ pc[c] \in {"registered", "waiting", "returning", "closing"}
          => requestID[c] \in RequestIDs
     /\ pc[c] = "idle" => requestID[c] = NoID

IInv == TypeOK /\ ProgramOrder /\ PendingChannelsOpen /\ PendingUnlessCollision

LEMMA IInvInit == Init => IInv
  BY TypeInit DEF Init, IInv, ProgramOrder, PendingChannelsOpen,
                  PendingUnlessCollision, Registered

LEMMA IInvStep == IInv /\ [Next]_vars => IInv'
  <1> SUFFICES ASSUME IInv, [Next]_vars
               PROVE  IInv'
    OBVIOUS
  <1>t. TypeOK /\ TypeOK'
    BY TypeStep DEF IInv
  <1> USE DEF callVars, chanVars, handlerVars, history
  <1>1. ASSUME NEW c \in Calls, RejectParams(c)
        PROVE  IInv'
    BY <1>1, <1>t DEF IInv, TypeOK, RejectParams, ProgramOrder,
                      PendingChannelsOpen, PendingUnlessCollision, Registered
  <1>2. ASSUME NEW c \in Calls, NEW id \in RequestIDs, Register(c, id)
        PROVE  IInv'
    <2> USE <1>2, <1>t DEF IInv, TypeOK, Register
    <2>1. ProgramOrder'
      BY DEF ProgramOrder
    <2>2. PendingChannelsOpen'
      BY DEF ProgramOrder, PendingChannelsOpen, Registered
    <2>3. PendingUnlessCollision'
      <3> SUFFICES ASSUME NEW d \in Calls, Registered(d)'
                   PROVE  \/ pendingRequests'[requestID'[d]] = d
                          \/ \E e \in Calls \ {d} : requestID'[e] = requestID'[d]
        BY DEF PendingUnlessCollision
      <3>1. CASE d = c
        BY <3>1
      <3>2. CASE d # c /\ requestID[d] = id
        BY <3>2
      <3>3. CASE d # c /\ requestID[d] # id
        <4>1. Registered(d) /\ requestID[d] \in RequestIDs /\ requestID[c] = NoID
          BY <3>3 DEF ProgramOrder, Registered
        <4> QED
          BY <3>3, <4>1 DEF PendingUnlessCollision
      <3> QED
        BY <3>1, <3>2, <3>3
    <2> QED
      BY <2>1, <2>2, <2>3
  <1>3. ASSUME NEW c \in Calls, CallStep(c) \/ ContextDone(c)
        PROVE  IInv'
    <2> USE <1>3, <1>t DEF IInv, TypeOK
    <2>1. CASE \/ QuestionSent(c) \/ QuestionFailed(c) \/ ReceiveResponse(c)
               \/ TimeOut(c) \/ ContextDone(c)
      <3>1. /\ Registered(c) /\ Registered(c)'
            /\ \A d \in Calls \ {c} : pc'[d] = pc[d]
            /\ pc'[c] # "returned"
            /\ UNCHANGED <<requestID, pendingRequests, closed>>
        BY <2>1 DEF QuestionSent, QuestionFailed, ReceiveResponse, TimeOut,
                    ContextDone, Leave, Registered
      <3>2. \A d \in Calls : Registered(d)' <=> Registered(d)
        BY <3>1 DEF Registered
      <3>3. ProgramOrder'
        BY <3>1 DEF ProgramOrder, Registered
      <3>4. PendingChannelsOpen' /\ PendingUnlessCollision'
        BY <3>1, <3>2 DEF PendingChannelsOpen, PendingUnlessCollision
      <3> QED
        BY <3>3, <3>4
    <2>2. CASE Unregister(c)
      <3>1. ProgramOrder'
        BY <2>2 DEF Unregister, ProgramOrder
      <3>2. PendingChannelsOpen'
        BY <2>2 DEF Unregister, ProgramOrder, PendingChannelsOpen, Registered
      <3>3. PendingUnlessCollision'
        <4> SUFFICES ASSUME NEW d \in Calls, Registered(d)'
                     PROVE  \/ pendingRequests'[requestID'[d]] = d
                            \/ \E e \in Calls \ {d} : requestID'[e] = requestID'[d]
          BY DEF PendingUnlessCollision
        <4>1. d # c /\ Registered(d) /\ requestID[d] \in RequestIDs
          BY <2>2 DEF Unregister, ProgramOrder, Registered
        <4>2. CASE requestID[d] = requestID[c]
          BY <2>2, <4>1, <4>2 DEF Unregister
        <4>3. CASE requestID[d] # requestID[c]
          BY <2>2, <4>1, <4>3 DEF Unregister, PendingUnlessCollision
        <4> QED
          BY <4>2, <4>3
      <3> QED
        BY <3>1, <3>2, <3>3
    <2>3. CASE CloseChannel(c)
      BY <2>3 DEF CloseChannel, ProgramOrder, PendingChannelsOpen,
                  PendingUnlessCollision, Registered
    <2> QED
      BY <1>3, <2>1, <2>2, <2>3 DEF CallStep
  <1>4. ASSUME UNCHANGED <<pc, requestID, pendingRequests, closed>>
        PROVE  IInv'
    BY <1>4, <1>t DEF IInv, ProgramOrder, PendingChannelsOpen,
                      PendingUnlessCollision, Registered
  <1>5. ASSUME NEW h \in Handlers,
               \/ HandlerStep(h)
               \/ \E id \in RequestIDs, a \in Answers : Lookup(h, id, a)
        PROVE  IInv'
    BY <1>4, <1>5 DEF HandlerStep, Lookup, SendResponse, ResponseDropped, SendPanics
  <1>6. CASE UNCHANGED vars
    BY <1>4, <1>6 DEF vars
  <1> QED
    BY <1>1, <1>2, <1>3, <1>5, <1>6 DEF Next, Step, Dead

LEMMA Invariance == Spec => []IInv
  BY IInvInit, IInvStep, PTL DEF Spec

(* The map never leads to a closed channel or to another ID's channel.      *)
THEOREM MapLeadsToOpenChannels == Spec => []PendingChannelsOpen
  BY Invariance, PTL DEF IInv

(* A registered call is found under its ID unless its ID was drawn twice.   *)
THEOREM RegisteredCallsAreFound == Spec => []PendingUnlessCollision
  BY Invariance, PTL DEF IInv

-----------------------------------------------------------------------------
(* The answers in flight.  A call has no outcome before its select is over, *)
(* and every answer in a handler's hand, in a channel or in a result was    *)
(* offered for that very call while it was registered.                      *)
OutcomeFollowsPC ==
  \A c \in Calls :
     /\ pc[c] \in {"idle", "registered", "waiting"} => outcome[c] = "none"
     /\ pc[c] \in {"returning", "closing"} =>
           outcome[c] \in {"answered", "handler_error", "timeout", "cancelled"}
     /\ outcome[c] # "answered" => answer[c] = NoAnswer

AnswersWereOffered ==
  /\ \A c \in Calls : buffer[c] # NoAnswer => buffer[c] \in offers[c]
  /\ \A c \in Calls : outcome[c] = "answered" => answer[c] \in offers[c]
  /\ \A h \in Handlers : target[h] # NoCall => held[h] \in offers[target[h]]

AnswerInv == OutcomeFollowsPC /\ AnswersWereOffered /\ AcceptedInOrder

LEMMA AnswerInit == Init => AnswerInv
  BY DEF Init, AnswerInv, OutcomeFollowsPC, AnswersWereOffered,
         AcceptedInOrder, Unread

LEMMA AnswerStep == IInv /\ AnswerInv /\ [Next]_vars => AnswerInv'
  <1> SUFFICES ASSUME IInv, AnswerInv, [Next]_vars
               PROVE  AnswerInv'
    OBVIOUS
  <1>t. TypeOK /\ PendingChannelsOpen
    BY DEF IInv
  <1> USE DEF callVars, chanVars, handlerVars, history
  <1>1. ASSUME NEW c \in Calls,
               \/ RejectParams(c) \/ QuestionSent(c) \/ QuestionFailed(c)
               \/ TimeOut(c) \/ ContextDone(c) \/ Unregister(c) \/ CloseChannel(c)
               \/ \E id \in RequestIDs : Register(c, id)
        PROVE  AnswerInv'
    <2>1. UNCHANGED <<answer, buffer, target, held, offers, accepted>>
      BY <1>1 DEF RejectParams, QuestionSent, QuestionFailed, TimeOut, ContextDone,
                  Unregister, CloseChannel, Register
    <2>2. /\ \A d \in Calls \ {c} : pc'[d] = pc[d] /\ outcome'[d] = outcome[d]
          /\ outcome'[c] = "answered" <=> outcome[c] = "answered"
          /\ pc'[c] \in {"registered", "waiting"} => outcome'[c] = "none"
          /\ pc'[c] \in {"returning", "closing"} =>
               outcome'[c] \in {"answered", "handler_error", "timeout", "cancelled"}
          /\ pc'[c] # "idle"
      BY <1>1, <1>t DEF TypeOK, AnswerInv, OutcomeFollowsPC, Leave, RejectParams,
           QuestionSent, QuestionFailed, TimeOut, ContextDone, Unregister,
           CloseChannel, Register
    <2>3. OutcomeFollowsPC'
      BY <2>1, <2>2 DEF AnswerInv, OutcomeFollowsPC
    <2>4. AnswersWereOffered'
      BY <2>1, <2>2 DEF AnswerInv, AnswersWereOffered
    <2>5. AcceptedInOrder'
      BY <2>1, <2>2 DEF AnswerInv, AcceptedInOrder, Unread
    <2> QED
      BY <2>3, <2>4, <2>5 DEF AnswerInv
  <1>2. ASSUME NEW c \in Calls, ReceiveResponse(c)
        PROVE  AnswerInv'
    <2>1. OutcomeFollowsPC'
      BY <1>2, <1>t DEF TypeOK, ReceiveResponse, Leave, AnswerInv, OutcomeFollowsPC
    <2>2. AnswersWereOffered'
      BY <1>2, <1>t DEF TypeOK, ReceiveResponse, Leave, AnswerInv, AnswersWereOffered
    <2>3. AcceptedInOrder'
      <3> SUFFICES ASSUME NEW d \in Calls
                   PROVE  accepted'[d] = IF outcome'[d] = "answered"
                                         THEN <<answer'[d]>> \o Unread(d)' ELSE Unread(d)'
        BY DEF AcceptedInOrder
      <3>1. CASE d = c
        <4>1. accepted[c] = <<buffer[c]>> /\ buffer[c] \in Answers
          BY <1>2, <1>t DEF TypeOK, ReceiveResponse, Leave, AnswerInv,
                            OutcomeFollowsPC, AcceptedInOrder, Unread
        <4>2. answer'[c] = buffer[c] /\ outcome'[c] = "answered" /\ Unread(c)' = <<>>
          BY <1>2, <1>t DEF TypeOK, ReceiveResponse, Leave, Unread
        <4> QED
          BY <1>2, <3>1, <4>1, <4>2 DEF ReceiveResponse
      <3>2. CASE d # c
        BY <1>2, <1>t, <3>2 DEF TypeOK, ReceiveResponse, Leave, AnswerInv,
                                AcceptedInOrder, Unread
      <3> QED
        BY <3>1, <3>2
    <2> QED
      BY <2>1, <2>2, <2>3 DEF AnswerInv
  <1>3. ASSUME NEW h \in Handlers, NEW id \in RequestIDs, NEW a \in Answers,
               Lookup(h, id, a)
        PROVE  AnswerInv'
    <2>1. OutcomeFollowsPC' /\ AcceptedInOrder'
      BY <1>3 DEF Lookup, AnswerInv, OutcomeFollowsPC, AcceptedInOrder, Unread
    <2>2. \A c \in Calls : offers[c] \subseteq offers'[c]
      BY <1>3 DEF Lookup
    <2>3. target'[h] # NoCall => held'[h] \in offers'[target'[h]]
      BY <1>3, <1>t DEF Lookup, TypeOK, PendingChannelsOpen
    <2>4. AnswersWereOffered'
      BY <1>3, <1>t, <2>2, <2>3 DEF Lookup, TypeOK, AnswerInv, AnswersWereOffered
    <2> QED
      BY <2>1, <2>4 DEF AnswerInv
  <1>4. ASSUME NEW h \in Handlers, SendResponse(h)
        PROVE  AnswerInv'
    <2>t. PICK t \in Calls : t = target[h]
      BY <1>4, <1>t DEF SendResponse, TypeOK
    <2>1. /\ held[h] \in Answers /\ buffer[t] = NoAnswer
          /\ buffer' = [buffer EXCEPT ![t] = held[h]]
          /\ accepted' = [accepted EXCEPT ![t] = Append(accepted[t], held[h])]
          /\ UNCHANGED <<pc, outcome, answer, offers>>
      BY <1>4, <1>t, <2>t DEF SendResponse, TypeOK
    <2>2. OutcomeFollowsPC'
      BY <2>1 DEF AnswerInv, OutcomeFollowsPC
    <2>3. AnswersWereOffered'
      BY <1>4, <1>t, <2>t, <2>1 DEF SendResponse, HandlerReturns, TypeOK, AnswerInv,
                              AnswersWereOffered
    <2>4. AcceptedInOrder'
      <3> SUFFICES ASSUME NEW d \in Calls
                   PROVE  accepted'[d] = IF outcome[d] = "answered"
                                         THEN <<answer[d]>> \o Unread(d)' ELSE Unread(d)'
        BY <2>1 DEF AcceptedInOrder
      <3>1. CASE d = t
        <4>1. accepted[t] = IF outcome[t] = "answered" THEN <<answer[t]>> ELSE <<>>
          <5>1. answer[t] \in Answers \cup {NoAnswer}
            BY <1>t DEF TypeOK
          <5>2. <<answer[t]>> \o <<>> = <<answer[t]>>
            BY <5>1
          <5> QED
            BY <2>1, <5>2 DEF AnswerInv, AcceptedInOrder, Unread
        <4>2. Unread(t)' = <<held[h]>>
          BY <2>1, <1>t DEF Unread, TypeOK
        <4>3. accepted'[t] = Append(accepted[t], held[h])
          BY <2>1, <1>t DEF TypeOK
        <4>4. answer[t] \in Answers \cup {NoAnswer}
          BY <1>t DEF TypeOK
        <4>5. Append(<<answer[t]>>, held[h]) = <<answer[t]>> \o <<held[h]>>
          BY <2>1, <4>4
        <4>6. Append(<< >>, held[h]) = <<held[h]>>
          BY <2>1
        <4> QED
          BY <3>1, <4>1, <4>2, <4>3, <4>5, <4>6
      <3>2. CASE d # t
        BY <2>1, <1>t, <3>2 DEF AnswerInv, AcceptedInOrder, Unread, TypeOK
      <3> QED
        BY <3>1, <3>2
    <2> QED
      BY <2>2, <2>3, <2>4 DEF AnswerInv
  <1>5. ASSUME NEW h \in Handlers, ResponseDropped(h) \/ SendPanics(h)
        PROVE  AnswerInv'
    <2>1. /\ UNCHANGED <<callVars, chanVars, offers, accepted>>
          /\ \A g \in Handlers : target'[g] # NoCall =>
                                   target'[g] = target[g] /\ held'[g] = held[g]
      BY <1>5, <1>t DEF ResponseDropped, SendPanics, HandlerReturns, TypeOK
    <2> QED
      BY <2>1 DEF AnswerInv, OutcomeFollowsPC, AnswersWereOffered, AcceptedInOrder, Unread
  <1>6. CASE UNCHANGED vars
    BY <1>6 DEF vars, AnswerInv, OutcomeFollowsPC, AnswersWereOffered,
                AcceptedInOrder, Unread
  <1> QED
    BY <1>1, <1>2, <1>3, <1>4, <1>5, <1>6 DEF Next, Step, Dead, CallStep, HandlerStep

LEMMA AnswerInvariance == Spec => []AnswerInv
  BY AnswerInit, AnswerStep, Invariance, PTL DEF Spec

(* Every answer reported as sent is the one returned or is still unread.    *)
THEOREM AcceptedAnswersAccounted == Spec => []AcceptedInOrder
  BY AnswerInvariance, PTL DEF AnswerInv

-----------------------------------------------------------------------------
(* Refinement of AskOnce under the mapping AbsStatus, AbsOutcome, AbsAnswer. *)

LEMMA RefinesInit == Init => Once!Init
  BY DEF Init, Once!Init, AbsStatus, AbsOutcome, AbsAnswer, Ended

(* A step inside the select, or of a handler, is invisible.                 *)
LEMMA Invisible ==
  ASSUME TypeOK, UNCHANGED <<requestID, offers>>, pc' \in [Calls -> PCs],
         \A c \in Calls :
            /\ pc'[c] = "idle" <=> pc[c] = "idle"
            /\ Ended(c)' <=> Ended(c)
            /\ Ended(c) => outcome'[c] = outcome[c] /\ answer'[c] = answer[c]
  PROVE  UNCHANGED Once!vars
  <1>1. AbsStatus' = AbsStatus
    BY DEF AbsStatus
  <1>2. AbsOutcome' = AbsOutcome
    BY DEF AbsOutcome
  <1>3. AbsAnswer' = AbsAnswer
    BY DEF AbsAnswer
  <1> QED
    BY <1>1, <1>2, <1>3 DEF Once!vars

LEMMA RefinesUnregister ==
  ASSUME TypeOK, AnswerInv, NEW c \in Calls, Unregister(c)
  PROVE  Once!Next
  <1> USE DEF callVars, chanVars, handlerVars, history
  <1>1. /\ AbsStatus[c] = "waiting"
        /\ AbsStatus' = [AbsStatus EXCEPT ![c] = "done"]
    BY DEF TypeOK, Unregister, AbsStatus, Ended
  <1>2. AbsOutcome' = [AbsOutcome EXCEPT ![c] = outcome[c]]
    BY DEF TypeOK, Unregister, AbsOutcome, Ended
  <1>3. AbsAnswer' = [AbsAnswer EXCEPT ![c] = answer[c]]
    BY DEF TypeOK, Unregister, AbsAnswer, Ended
  <1>4. CASE outcome[c] = "answered"
    <2>1. answer[c] \in offers[c] /\ answer[c] \in Answers
      BY <1>4 DEF AnswerInv, AnswersWereOffered, TypeOK
    <2>2. Once!EndWithAnswer(c, answer[c])
      BY <1>1, <1>2, <1>3, <1>4, <2>1 DEF Once!EndWithAnswer, Unregister
    <2> QED
      BY <2>1, <2>2 DEF Once!Next
  <1>5. CASE outcome[c] # "answered"
    <2>1. outcome[c] \in Once!Failures /\ answer[c] = NoAnswer
      BY <1>5 DEF AnswerInv, OutcomeFollowsPC, Unregister, Once!Failures
    <2>2. AbsAnswer[c] = NoAnswer
      BY DEF Unregister, AbsAnswer, Ended
    <2>3. AbsAnswer' = AbsAnswer
      BY <1>3, <2>1, <2>2 DEF AbsAnswer
    <2>4. Once!EndWithout(c, outcome[c])
      BY <1>1, <1>2, <2>1, <2>3 DEF Once!EndWithout, Unregister
    <2> QED
      BY <2>1, <2>4 DEF Once!Next
  <1> QED
    BY <1>4, <1>5

LEMMA RefinesStep ==
  IInv /\ AnswerInv /\ [Next]_vars => [Once!Next]_(Once!vars)
  <1> SUFFICES ASSUME IInv, AnswerInv, [Next]_vars
               PROVE  Once!Next \/ UNCHANGED Once!vars
    OBVIOUS
  <1>t. TypeOK /\ TypeOK'
    BY TypeStep DEF IInv
  <1> USE DEF callVars, chanVars, handlerVars, history
  <1>1. ASSUME NEW c \in Calls, RejectParams(c)
        PROVE  Once!Refuse(c)
    <2>1. /\ AbsStatus[c] = "new"
          /\ AbsStatus' = [AbsStatus EXCEPT ![c] = "done"]
      BY <1>1, <1>t DEF TypeOK, RejectParams, AbsStatus, Ended
    <2>2. AbsOutcome' = [AbsOutcome EXCEPT ![c] = "invalid"]
      BY <1>1, <1>t DEF TypeOK, RejectParams, AbsOutcome, Ended
    <2>3. answer[c] = NoAnswer
      BY <1>1 DEF RejectParams, AnswerInv, OutcomeFollowsPC
    <2>4. AbsAnswer' = AbsAnswer
      BY <1>1, <1>t, <2>3 DEF TypeOK, RejectParams, AbsAnswer, Ended
    <2> QED
      BY <1>1, <2>1, <2>2, <2>4 DEF RejectParams, Once!Refuse
  <1>2. ASSUME NEW c \in Calls, NEW id \in RequestIDs, Register(c, id)
        PROVE  Once!Ask(c, id)
    <2>1. /\ AbsStatus[c] = "new"
          /\ AbsStatus' = [AbsStatus EXCEPT ![c] = "waiting"]
      BY <1>2, <1>t DEF TypeOK, Register, AbsStatus, Ended
    <2>2. AbsOutcome' = AbsOutcome /\ AbsAnswer' = AbsAnswer
      BY <1>2, <1>t DEF TypeOK, Register, AbsOutcome, AbsAnswer, Ended
    <2> QED
      BY <1>2, <2>1, <2>2 DEF Register, Once!Ask
  <1>3. ASSUME NEW c \in Calls,
               \/ QuestionSent(c) \/ QuestionFailed(c) \/ ReceiveResponse(c)
               \/ TimeOut(c) \/ ContextDone(c) \/ CloseChannel(c)
        PROVE  UNCHANGED Once!vars
    <2>1. UNCHANGED <<requestID, offers>> /\ pc' \in [Calls -> PCs]
      BY <1>3, <1>t DEF TypeOK, QuestionSent, QuestionFailed, ReceiveResponse,
                        TimeOut, ContextDone, CloseChannel
    <2>2. \A d \in Calls :
            /\ pc'[d] = "idle" <=> pc[d] = "idle"
            /\ Ended(d)' <=> Ended(d)
            /\ Ended(d) => outcome'[d] = outcome[d] /\ answer'[d] = answer[d]
      BY <1>3, <1>t DEF TypeOK, Ended, Leave, QuestionSent, QuestionFailed,
                        ReceiveResponse, TimeOut, ContextDone, CloseChannel
    <2> QED
      BY <1>t, <2>1, <2>2, Invisible
  <1>4. ASSUME NEW h \in Handlers, NEW id \in RequestIDs, NEW a \in Answers,
               Lookup(h, id, a)
        PROVE  Once!Offer(id, a)
    <2>1. \A c \in Calls : Registered(c) <=> AbsStatus[c] = "waiting"
      BY <1>t DEF TypeOK, Registered, AbsStatus, Ended, PCs
    <2>2. offers' = [c \in Calls |-> IF AbsStatus[c] = "waiting" /\ requestID[c] = id
                                     THEN offers[c] \cup {a} ELSE offers[c]]
      BY <1>4, <2>1 DEF Lookup
    <2>3. UNCHANGED <<AbsStatus, AbsOutcome, AbsAnswer, requestID>>
      BY <1>4 DEF Lookup, AbsStatus, AbsOutcome, AbsAnswer, Ended
    <2> QED
      BY <2>2, <2>3 DEF Once!Offer
  <1>5. ASSUME UNCHANGED <<callVars, offers>>
        PROVE  UNCHANGED Once!vars
    BY <1>5 DEF Once!vars, AbsStatus, AbsOutcome, AbsAnswer, Ended
  <1>6. ASSUME NEW h \in Handlers, HandlerStep(h)
        PROVE  UNCHANGED Once!vars
    BY <1>5, <1>6 DEF HandlerStep, SendResponse, ResponseDropped, SendPanics
  <1>7. CASE UNCHANGED vars
    BY <1>5, <1>7 DEF vars
  <1>8. CASE \E c \in Calls : Unregister(c)
    BY <1>8, <1>t, RefinesUnregister
  <1>9. ASSUME Step
        PROVE  Once!Next \/ UNCHANGED Once!vars
    BY <1>1, <1>2, <1>3, <1>4, <1>6, <1>8, <1>9 DEF Step, CallStep, Once!Next
  <1> QED
    BY <1>7, <1>9 DEF Next, Dead

(* Every behaviour of the tool is a behaviour of the abstract promise: one  *)
(* outcome a call, and an answer only if it was offered for that call.      *)
THEOREM Refinement == Spec => ImplementsAskOnce
  <1>1. Spec => [](IInv /\ AnswerInv)
    BY Invariance, AnswerInvariance, PTL
  <1> QED
    BY <1>1, RefinesInit, RefinesStep, PTL DEF Spec, ImplementsAskOnce, Once!Spec

(* A call that has ended has ended for good: neither a late answer nor      *)
(* another call changes what it returned.                                   *)
THEOREM EndsOnce ==
  Spec => [][\A c \in Calls : AbsStatus[c] = "done" =>
               /\ AbsStatus'[c] = "done"
               /\ AbsOutcome'[c] = AbsOutcome[c]
               /\ AbsAnswer'[c] = AbsAnswer[c]]_(Once!vars)
  <1>1. ASSUME [Once!Next]_(Once!vars), NEW c \in Calls, AbsStatus[c] = "done"
        PROVE  /\ AbsStatus'[c] = "done"
               /\ AbsOutcome'[c] = AbsOutcome[c]
               /\ AbsAnswer'[c] = AbsAnswer[c]
    <2>0. DOMAIN AbsStatus = Calls /\ DOMAIN AbsOutcome = Calls /\ DOMAIN AbsAnswer = Calls
      BY DEF AbsStatus, AbsOutcome, AbsAnswer
    <2>1. ASSUME NEW d \in Calls, Once!Refuse(d) \/ \E id \in RequestIDs : Once!Ask(d, id)
          PROVE  d # c /\ AbsStatus'[c] = AbsStatus[c] /\ AbsOutcome'[c] = AbsOutcome[c]
                       /\ AbsAnswer' = AbsAnswer
      BY <1>1, <2>0, <2>1 DEF Once!Refuse, Once!Ask
    <2>2. ASSUME NEW id \in RequestIDs, NEW a \in Answers, Once!Offer(id, a)
          PROVE  AbsStatus' = AbsStatus /\ AbsOutcome' = AbsOutcome /\ AbsAnswer' = AbsAnswer
      BY <2>2 DEF Once!Offer
    <2>3. ASSUME NEW d \in Calls, \/ \E a \in Answers : Once!EndWithAnswer(d, a)
                                  \/ \E f \in Once!Failures : Once!EndWithout(d, f)
          PROVE  d # c /\ AbsStatus'[c] = AbsStatus[c] /\ AbsOutcome'[c] = AbsOutcome[c]
                       /\ AbsAnswer'[c] = AbsAnswer[c]
      BY <1>1, <2>0, <2>3 DEF Once!EndWithAnswer, Once!EndWithout
    <2>4. CASE UNCHANGED Once!vars
      BY <1>1, <2>4 DEF Once!vars
    <2> QED
      BY <1>1, <2>1, <2>2, <2>3, <2>4 DEF Once!Next
  <1>2. [Once!Next]_(Once!vars)
          => [\A c \in Calls : AbsStatus[c] = "done" =>
                /\ AbsStatus'[c] = "done"
                /\ AbsOutcome'[c] = AbsOutcome[c]
                /\ AbsAnswer'[c] = AbsAnswer[c]]_(Once!vars)
    BY <1>1
  <1> QED
    BY <1>2, Refinement, PTL DEF ImplementsAskOnce, Once!Spec

-----------------------------------------------------------------------------
(* What kills the process.                                                  *)
DiesLate == crashed => \E h \in Handlers : target[h] \in Calls /\ pc[target[h]] = "returned"

LEMMA DiesLateStep == IInv /\ DiesLate /\ [Next]_vars => DiesLate'
  <1> SUFFICES ASSUME IInv, DiesLate, [Next]_vars
               PROVE  DiesLate'
    OBVIOUS
  <1> USE DEF DiesLate
  <1>1. CASE UNCHANGED vars
    BY <1>1 DEF vars, callVars, handlerVars
  <1>2. ASSUME NEW h \in Handlers, SendPanics(h)
        PROVE  DiesLate'
    <2>1. target[h] \in Calls
      BY <1>2 DEF IInv, TypeOK, SendPanics
    <2>2. pc[target[h]] = "returned"
      BY <1>2, <2>1 DEF IInv, ProgramOrder, SendPanics
    <2> QED
      BY <1>2, <2>1, <2>2 DEF SendPanics, callVars
  <1>3. ASSUME ~crashed, Step, \A h \in Handlers : ~SendPanics(h)
        PROVE  ~crashed'
    BY <1>3
    DEF Step, CallStep, HandlerStep, RejectParams, Register, QuestionSent, QuestionFailed,
        ReceiveResponse, TimeOut, ContextDone, Unregister, CloseChannel, Lookup,
        SendResponse, ResponseDropped, handlerVars
  <1> QED
    BY <1>1, <1>2, <1>3 DEF Next, Dead

(* The process dies of a late answer and of nothing else: a handler holds   *)
(* the channel of a call that has returned.                                 *)
THEOREM DiesOnlyLate == Spec => []DiesLate
  <1>1. Init => DiesLate
    BY DEF Init, DiesLate
  <1> QED
    BY <1>1, DiesLateStep, Invariance, PTL DEF Spec
=============================================================================
