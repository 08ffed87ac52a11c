------------------------------- MODULE AskUser -------------------------------
(***************************************************************************)
(* internal/tools/ask_user.go: the ask_user tool.                          *)
(*                                                                         *)
(* Each tool call runs Execute in a goroutine of its own: it registers a   *)
(* response channel of capacity one in pendingRequests, hands the question *)
(* to questionHandler, waits for the response, the timer or its context,   *)
(* and its deferred function deletes the map entry and closes the channel. *)
(* Other goroutines call HandleUserResponse, which looks the channel up    *)
(* under the lock and sends to it after the lock is released.              *)
(*                                                                         *)
(* A lock region is one step, a select is one step, and the deferred       *)
(* function is two (the close happens outside the lock).  A channel is     *)
(* named by the call that made it.  A send on a closed channel panics; no  *)
(* goroutine on the way recovers, so the process ends: crashed.            *)
(***************************************************************************)
EXTENDS Naturals, Sequences

CONSTANTS Calls,       \* goroutines that run Execute, one for each tool call
          Handlers,    \* goroutines that run HandleUserResponse
          RequestIDs,  \* what generateRequestID can return
          Answers,     \* response texts
          NoCall, NoID, NoAnswer

ASSUME NoCallAssumption == NoCall \notin Calls
ASSUME NoIDAssumption == NoID \notin RequestIDs
ASSUME NoAnswerAssumption == NoAnswer \notin Answers

VARIABLES
  pc,               \* where each call is in Execute
  requestID,        \* Execute's requestID
  pendingRequests,  \* request ID -> the call whose channel is registered
  buffer,           \* what is in each call's responseCh, NoAnswer when empty
  closed,           \* whether each call's responseCh is closed
  outcome,          \* how each call's select (or an early return) ended
  answer,           \* the answer each call returns
  target,           \* HandleUserResponse's responseCh, after the lookup
  held,             \* HandleUserResponse's answer argument, after the lookup
  crashed,          \* a panic has ended the process
  offers,           \* history: answers submitted for a call while registered
  accepted          \* history: answers HandleUserResponse reported as sent

callVars == <<pc, requestID, outcome, answer>>
chanVars == <<pendingRequests, buffer, closed>>
handlerVars == <<target, held, crashed>>
history == <<offers, accepted>>
vars == <<callVars, chanVars, handlerVars, history>>

PCs == {"idle", "registered", "waiting", "returning", "closing", "returned"}
Outcomes == {"none", "invalid", "answered", "handler_error", "timeout", "cancelled"}

\* Between the registration in the map and the deferred delete.
Registered(c) == pc[c] \in {"registered", "waiting", "returning"}

Init ==
  /\ pc = [c \in Calls |-> "idle"]
  /\ requestID = [c \in Calls |-> NoID]
  /\ outcome = [c \in Calls |-> "none"]
  /\ answer = [c \in Calls |-> NoAnswer]
  /\ pendingRequests = [id \in RequestIDs |-> NoCall]
  /\ buffer = [c \in Calls |-> NoAnswer]
  /\ closed = [c \in Calls |-> FALSE]
  /\ target = [h \in Handlers |-> NoCall]
  /\ held = [h \in Handlers |-> NoAnswer]
  /\ crashed = FALSE
  /\ offers = [c \in Calls |-> {}]
  /\ accepted = [c \in Calls |-> <<>>]

-----------------------------------------------------------------------------
(* Execute *)

\* Malformed parameters or an empty question: an error and nothing registered.
RejectParams(c) ==
  /\ pc[c] = "idle"
  /\ pc' = [pc EXCEPT ![c] = "returned"]
  /\ outcome' = [outcome EXCEPT ![c] = "invalid"]
  /\ UNCHANGED <<requestID, answer, chanVars, handlerVars, history>>

\* generateRequestID is a reading of the wall clock, so id may be any ID, one
\* in use included; the assignment to the map overwrites.
Register(c, id) ==
  /\ pc[c] = "idle"
  /\ pc' = [pc EXCEPT ![c] = "registered"]
  /\ requestID' = [requestID EXCEPT ![c] = id]
  /\ pendingRequests' = [pendingRequests EXCEPT ![id] = c]
  /\ UNCHANGED <<outcome, answer, buffer, closed, handlerVars, history>>

\* questionHandler returns nil.
QuestionSent(c) ==
  /\ pc[c] = "registered"
  /\ pc' = [pc EXCEPT ![c] = "waiting"]
  /\ UNCHANGED <<requestID, outcome, answer, chanVars, handlerVars, history>>

Leave(c, from, how) ==
  /\ pc[c] = from
  /\ pc' = [pc EXCEPT ![c] = "returning"]
  /\ outcome' = [outcome EXCEPT ![c] = how]

\* questionHandler returns an error.
QuestionFailed(c) ==
  /\ Leave(c, "registered", "handler_error")
  /\ UNCHANGED <<requestID, answer, chanVars, handlerVars, history>>

\* The three cases of the select.  When several are ready Go picks any.
ReceiveResponse(c) ==
  /\ buffer[c] # NoAnswer
  /\ Leave(c, "waiting", "answered")
  /\ answer' = [answer EXCEPT ![c] = buffer[c]]
  /\ buffer' = [buffer EXCEPT ![c] = NoAnswer]
  /\ UNCHANGED <<requestID, pendingRequests, closed, handlerVars, history>>

TimeOut(c) ==
  /\ Leave(c, "waiting", "timeout")
  /\ UNCHANGED <<requestID, answer, chanVars, handlerVars, history>>

ContextDone(c) ==
  /\ Leave(c, "waiting", "cancelled")
  /\ UNCHANGED <<requestID, answer, chanVars, handlerVars, history>>

\* Fault: the deferred function forgets the map entry.
FaultyKeepEntry(c) ==
  /\ pc[c] = "returning"
  /\ pc' = [pc EXCEPT ![c] = "closing"]
  /\ UNCHANGED <<requestID, outcome, answer, chanVars, handlerVars, history>>

\* The deferred function: delete under the lock, by ID, then close.
Unregister(c) ==
  /\ pc[c] = "returning"
  /\ pc' = [pc EXCEPT ![c] = "closing"]
  /\ pendingRequests' = [pendingRequests EXCEPT ![requestID[c]] = NoCall]
  /\ UNCHANGED <<requestID, outcome, answer, buffer, closed, handlerVars, history>>

CloseChannel(c) ==
  /\ pc[c] = "closing"
  /\ pc' = [pc EXCEPT ![c] = "returned"]
  /\ closed' = [closed EXCEPT ![c] = TRUE]
  /\ UNCHANGED <<requestID, outcome, answer, pendingRequests, buffer, handlerVars, history>>

-----------------------------------------------------------------------------
(* HandleUserResponse *)

\* Fault: the lookup also removes the entry.
FaultyTakeEntry(h, id, a) ==
  /\ target[h] = NoCall
  /\ target' = [target EXCEPT ![h] = pendingRequests[id]]
  /\ held' = [held EXCEPT ![h] = IF pendingRequests[id] = NoCall THEN NoAnswer ELSE a]
  /\ pendingRequests' = [pendingRequests EXCEPT ![id] = NoCall]
  /\ UNCHANGED <<callVars, buffer, closed, crashed, history>>

\* Fault: any pending call takes the response.
FaultyAnyPending(h, id, a) ==
  /\ target[h] = NoCall
  /\ \E c \in Calls : Registered(c) /\ target' = [target EXCEPT ![h] = c]
  /\ held' = [held EXCEPT ![h] = a]
  /\ offers' = [c \in Calls |-> IF Registered(c) /\ requestID[c] = id
                                THEN offers[c] \cup {a} ELSE offers[c]]
  /\ UNCHANGED <<callVars, chanVars, crashed, accepted>>

\* The lookup under the lock; an unknown ID is an error and changes nothing.
Lookup(h, id, a) ==
  /\ target[h] = NoCall
  /\ target' = [target EXCEPT ![h] = pendingRequests[id]]
  /\ held' = [held EXCEPT ![h] = IF pendingRequests[id] = NoCall THEN NoAnswer ELSE a]
  /\ offers' = [c \in Calls |-> IF Registered(c) /\ requestID[c] = id
                                THEN offers[c] \cup {a} ELSE offers[c]]
  /\ UNCHANGED <<callVars, chanVars, crashed, accepted>>

HandlerReturns(h) ==
  /\ target' = [target EXCEPT ![h] = NoCall]
  /\ held' = [held EXCEPT ![h] = NoAnswer]

\* The select with a default case, with no lock held: the send, ...
SendResponse(h) ==
  /\ target[h] # NoCall
  /\ ~closed[target[h]] /\ buffer[target[h]] = NoAnswer
  /\ buffer' = [buffer EXCEPT ![target[h]] = held[h]]
  /\ accepted' = [accepted EXCEPT ![target[h]] = Append(@, held[h])]
  /\ HandlerReturns(h)
  /\ UNCHANGED <<callVars, pendingRequests, closed, crashed, offers>>

\* Fault: a full channel is overwritten.
FaultyReplaces(h) ==
  /\ target[h] # NoCall
  /\ ~closed[target[h]] /\ buffer[target[h]] # NoAnswer
  /\ buffer' = [buffer EXCEPT ![target[h]] = held[h]]
  /\ HandlerReturns(h)
  /\ UNCHANGED <<callVars, pendingRequests, closed, crashed, history>>

\* ... the default case, which only a full open channel reaches, ...
ResponseDropped(h) ==
  /\ target[h] # NoCall
  /\ ~closed[target[h]] /\ buffer[target[h]] # NoAnswer
  /\ HandlerReturns(h)
  /\ UNCHANGED <<callVars, chanVars, crashed, history>>

\* ... and the panic, which is what a closed channel gives.
SendPanics(h) ==
  /\ target[h] # NoCall
  /\ closed[target[h]]
  /\ crashed' = TRUE
  /\ UNCHANGED <<callVars, chanVars, target, held, history>>

-----------------------------------------------------------------------------
CallStep(c) ==
  \/ QuestionSent(c) \/ QuestionFailed(c)
  \/ ReceiveResponse(c) \/ TimeOut(c)
  \/ Unregister(c) \/ CloseChannel(c)

HandlerStep(h) == SendResponse(h) \/ ResponseDropped(h) \/ SendPanics(h)

Step ==
  \/ \E c \in Calls : RejectParams(c)
  \/ \E c \in Calls, id \in RequestIDs : Register(c, id)
  \/ \E c \in Calls : CallStep(c) \/ ContextDone(c)
  \/ \E h \in Handlers, id \in RequestIDs, a \in Answers : Lookup(h, id, a)
  \/ \E h \in Handlers : HandlerStep(h)

\* The process is gone, so nothing moves.
Dead == crashed /\ UNCHANGED vars

Next == (~crashed /\ Step) \/ Dead

Spec == Init /\ [][Next]_vars

-----------------------------------------------------------------------------
(* Properties *)

TypeOK ==
  /\ pc \in [Calls -> PCs]
  /\ requestID \in [Calls -> RequestIDs \cup {NoID}]
  /\ outcome \in [Calls -> Outcomes]
  /\ answer \in [Calls -> Answers \cup {NoAnswer}]
  /\ pendingRequests \in [RequestIDs -> Calls \cup {NoCall}]
  /\ buffer \in [Calls -> Answers \cup {NoAnswer}]
  /\ closed \in [Calls -> BOOLEAN]
  /\ target \in [Handlers -> Calls \cup {NoCall}]
  /\ held \in [Handlers -> Answers \cup {NoAnswer}]
  /\ \A h \in Handlers : target[h] = NoCall <=> held[h] = NoAnswer
  /\ crashed \in BOOLEAN
  /\ offers \in [Calls -> SUBSET Answers]
  /\ accepted \in [Calls -> Seq(Answers)]

\* The map never leads to a channel that is closed or about to be closed, and
\* never to the channel of another ID, even when two calls drew the same ID:
\* Execute deletes before it closes, and it deletes by its own ID.
PendingChannelsOpen ==
  \A id \in RequestIDs, c \in Calls :
     pendingRequests[id] = c =>
        /\ Registered(c)
        /\ requestID[c] = id
        /\ ~closed[c]

\* A call that can still be answered is found under its ID, unless another
\* call drew the same ID (and overwrote or deleted the entry).
PendingUnlessCollision ==
  \A c \in Calls :
     Registered(c) =>
        \/ pendingRequests[requestID[c]] = c
        \/ \E d \in Calls \ {c} : requestID[d] = requestID[c]

\* Every answer that HandleUserResponse reported as sent is accounted for, in
\* order: first the one the call returns, then the one left in its channel.
Unread(c) == IF buffer[c] = NoAnswer THEN <<>> ELSE <<buffer[c]>>
AcceptedInOrder ==
  \A c \in Calls :
     accepted[c] = IF outcome[c] = "answered" THEN <<answer[c]>> \o Unread(c)
                                              ELSE Unread(c)

\* The tool implements the abstract promise.  The abstract call ends when the
\* call leaves the map.
Ended(c) == pc[c] \in {"closing", "returned"}
AbsStatus == [c \in Calls |-> IF pc[c] = "idle" THEN "new"
                              ELSE IF Ended(c) THEN "done" ELSE "waiting"]
AbsOutcome == [c \in Calls |-> IF Ended(c) THEN outcome[c] ELSE "none"]
AbsAnswer == [c \in Calls |-> IF Ended(c) THEN answer[c] ELSE NoAnswer]
Once == INSTANCE AskOnce
          WITH status <- AbsStatus, outcome <- AbsOutcome, answer <- AbsAnswer
ImplementsAskOnce == Once!Spec

\* ask_user.go:149 and :150 treat a closed channel as a reportable error
\* ("channel full or closed"), so a late response is never more than that.
LateResponseIsAnError == ~crashed
=============================================================================
