------------------------------- MODULE AskOnce -------------------------------
(***************************************************************************)
(* What the ask_user tool promises to the agents that call it, with no     *)
(* map, channel, lock or goroutine in sight.  A call that asks a question  *)
(* waits under a request ID; anybody may offer an answer for a request ID  *)
(* at any time; the call ends exactly once, and if it ends with an answer  *)
(* then that answer was offered for its own request ID while it waited.    *)
(* Module AskUser is shown to implement this specification.                *)
(***************************************************************************)
CONSTANTS Calls,       \* tool calls made by agents
          RequestIDs,  \* request IDs
          Answers,     \* what users answer
          NoID,        \* a call that has no request ID yet
          NoAnswer     \* a call that has no answer

VARIABLES status,     \* "new", "waiting" or "done"
          requestID,  \* the ID a call waits under
          offers,     \* answers offered to a call while it waited
          outcome,    \* how a call ended, "none" before that
          answer      \* the answer a call ended with

vars == <<status, requestID, offers, outcome, answer>>

\* The ways a call ends without an answer.
Failures == {"handler_error", "timeout", "cancelled"}

Init ==
  /\ status = [c \in Calls |-> "new"]
  /\ requestID = [c \in Calls |-> NoID]
  /\ offers = [c \in Calls |-> {}]
  /\ outcome = [c \in Calls |-> "none"]
  /\ answer = [c \in Calls |-> NoAnswer]

\* A call with bad parameters ends at once.
Refuse(c) ==
  /\ status[c] = "new"
  /\ status' = [status EXCEPT ![c] = "done"]
  /\ outcome' = [outcome EXCEPT ![c] = "invalid"]
  /\ UNCHANGED <<requestID, offers, answer>>

Ask(c, id) ==
  /\ status[c] = "new"
  /\ status' = [status EXCEPT ![c] = "waiting"]
  /\ requestID' = [requestID EXCEPT ![c] = id]
  /\ UNCHANGED <<offers, outcome, answer>>

\* An offer reaches every call that waits under the ID at that moment.
Offer(id, a) ==
  /\ offers' = [c \in Calls |->
                  IF status[c] = "waiting" /\ requestID[c] = id
                  THEN offers[c] \cup {a} ELSE offers[c]]
  /\ UNCHANGED <<status, requestID, outcome, answer>>

EndWithAnswer(c, a) ==
  /\ status[c] = "waiting"
  /\ a \in offers[c]
  /\ status' = [status EXCEPT ![c] = "done"]
  /\ outcome' = [outcome EXCEPT ![c] = "answered"]
  /\ answer' = [answer EXCEPT ![c] = a]
  /\ UNCHANGED <<requestID, offers>>

EndWithout(c, f) ==
  /\ status[c] = "waiting"
  /\ status' = [status EXCEPT ![c] = "done"]
  /\ outcome' = [outcome EXCEPT ![c] = f]
  /\ UNCHANGED <<requestID, offers, answer>>

Next ==
  \/ \E c \in Calls : Refuse(c)
  \/ \E c \in Calls, id \in RequestIDs : Ask(c, id)
  \/ \E id \in RequestIDs, a \in Answers : Offer(id, a)
  \/ \E c \in Calls, a \in Answers : EndWithAnswer(c, a)
  \/ \E c \in Calls, f \in Failures : EndWithout(c, f)

Spec == Init /\ [][Next]_vars
=============================================================================
