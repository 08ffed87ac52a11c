------------------------------ MODULE McpServer ------------------------------
(***************************************************************************)
(* internal/mcpserver/server.go: tools executed for messages on a channel  *)
(* and for HTTP requests.  The program does not start this server; its     *)
(* tests do.                                                               *)
(*                                                                         *)
(* There is one channel.  The server reads requests from it and writes its *)
(* replies to it, so that it competes for them with whoever is to deliver  *)
(* them, the transport, and answers those it gets.  A goroutine handles    *)
(* each message, and another one executes the tool.                        *)
(*                                                                         *)
(* Of a payload there is left what the server decides by: its type and     *)
(* tool, and the error of a reply.  Tools are registered before the server *)
(* starts, as the map has no lock.                                         *)
(***************************************************************************)
EXTENDS Integers, FiniteSets, Sequences

CONSTANTS Requests,   \* what is asked of the server, each of them once
          Clients,
          Tools,      \* names of tools, registered or not
          NoTool,     \* the empty string
          Cap         \* of messageCh

ASSUME McpServerAssumption ==
  /\ Cap \in Nat \ {0}
  /\ NoTool \notin Tools

VARIABLES
  started,    \* Start has been called
  tools,      \* s.tools
  messageCh,
  handling,   \* the messages in handleMessage
  executing,  \* the messages and HTTP requests whose tool runs
  sending,    \* the replies that wait for room in messageCh
  delivered,  \* what the transport has taken from messageCh
  answers,    \* the answers to HTTP requests
  dropped,    \* the messages whose result is no more than a line in the log
  input,      \* history: request -> what has been asked
  succeeded   \* history: the requests whose tool returned without error

vars == <<started, tools, messageCh, handling, executing, sending, delivered, answers,
          dropped, input, succeeded>>

\* "invalid" is a payload that is no JSON, "" one without a type, and "http" the
\* body of a POST to /execute.
InputTypes == {"invalid", "", "tool_request", "ping", "http"}
ReplyTypes == {"tool_response", "error"}
Errors == {"invalid_payload", "missing_tool", "tool_not_found", "execution_error",
           "unknown_message_type"}
StatusCodes == {200, 400, 404, 500}

Message == [of : Requests, client : Clients, type : InputTypes \cup ReplyTypes,
            tool : Tools \cup {NoTool}, error : Errors \cup {"none"}]
Answers == [of : Requests, status : StatusCodes]

Init ==
  /\ started = FALSE /\ tools = {}
  /\ messageCh = <<>>
  /\ handling = {} /\ executing = {} /\ sending = {}
  /\ delivered = {} /\ answers = {} /\ dropped = {}
  /\ input = [r \in {} |-> {}]
  /\ succeeded = {}

-----------------------------------------------------------------------------
(* Before the server starts *)

RegisterTool(t) ==
  /\ ~started
  /\ tools' = tools \cup {t}
  /\ UNCHANGED <<started, messageCh, handling, executing, sending, delivered, answers,
                 dropped, input, succeeded>>

Start ==
  /\ ~started
  /\ started' = TRUE
  /\ UNCHANGED <<tools, messageCh, handling, executing, sending, delivered, answers,
                 dropped, input, succeeded>>

-----------------------------------------------------------------------------
(* The channel *)

Request(r, c, type, tool) ==
  [of |-> r, client |-> c, type |-> type, tool |-> tool, error |-> "none"]

Asked(m) == input' = [r \in DOMAIN input \cup {m.of} |-> IF r = m.of THEN m ELSE input[r]]

\* A client of the channel sends a request, when there is room.
Submit(r, c, type, tool) ==
  /\ started /\ r \notin DOMAIN input
  /\ type # "http" /\ Len(messageCh) < Cap
  /\ messageCh' = Append(messageCh, Request(r, c, type, tool))
  /\ Asked(Request(r, c, type, tool))
  /\ UNCHANGED <<started, tools, handling, executing, sending, delivered, answers, dropped,
                 succeeded>>

\* Fault: the loop handles the message itself.
FaultyProcessMessages ==
  /\ started /\ messageCh # <<>>
  /\ handling = {} /\ \A m \in sending : m.error \in {"none", "execution_error"}
  /\ messageCh' = Tail(messageCh)
  /\ handling' = handling \cup {Head(messageCh)}
  /\ UNCHANGED <<started, tools, executing, sending, delivered, answers, dropped, input,
                 succeeded>>

\* One round of the loop: it starts a goroutine and waits for nothing else.
processMessages ==
  /\ started /\ messageCh # <<>>
  /\ messageCh' = Tail(messageCh)
  /\ handling' = handling \cup {Head(messageCh)}
  /\ UNCHANGED <<started, tools, executing, sending, delivered, answers, dropped, input,
                 succeeded>>

\* The transport takes what comes, be it a reply or not.
Deliver ==
  /\ messageCh # <<>>
  /\ messageCh' = Tail(messageCh)
  /\ delivered' = delivered \cup {Head(messageCh)}
  /\ UNCHANGED <<started, tools, handling, executing, sending, answers, dropped, input,
                 succeeded>>

\* Fault: the client ID of the reply is not set.
FaultyResponse(m) ==
  [m EXCEPT !.client = NoTool, !.type = "tool_response", !.tool = NoTool, !.error = "none"]

Response(m) == [m EXCEPT !.type = "tool_response", !.tool = NoTool, !.error = "none"]

ErrorResponse(m, e) == [m EXCEPT !.type = "error", !.tool = NoTool, !.error = e]

\* Why a message is answered at once; "none" when its tool is executed.  A payload
\* without a type is a tool request; a reply is of no type the server knows.
Refusal(m) ==
  IF m.type = "invalid" THEN "invalid_payload"
  ELSE IF m.type \notin {"", "tool_request"} THEN "unknown_message_type"
  ELSE IF m.tool = NoTool THEN "missing_tool"
  ELSE IF m.tool \notin tools THEN "tool_not_found"
  ELSE "none"

\* Fault: the error for a tool that is not there does not return.
FaultyHandleMessage(m) ==
  /\ m \in handling
  /\ handling' = handling \ {m}
  /\ sending' = IF Refusal(m) = "none" THEN sending
                ELSE sending \cup {ErrorResponse(m, Refusal(m))}
  /\ executing' = IF Refusal(m) \in {"none", "tool_not_found"} THEN executing \cup {m}
                  ELSE executing
  /\ UNCHANGED <<started, tools, messageCh, delivered, answers, dropped, input, succeeded>>

\* handleMessage with handleToolRequest.
handleMessage(m) ==
  /\ m \in handling
  /\ handling' = handling \ {m}
  /\ IF Refusal(m) = "none"
     THEN executing' = executing \cup {m} /\ UNCHANGED sending
     ELSE sending' = sending \cup {ErrorResponse(m, Refusal(m))} /\ UNCHANGED executing
  /\ UNCHANGED <<started, tools, messageCh, delivered, answers, dropped, input, succeeded>>

\* A goroutine puts its reply into the channel, when there is room.
Send(m) ==
  /\ m \in sending /\ Len(messageCh) < Cap
  /\ sending' = sending \ {m}
  /\ messageCh' = Append(messageCh, m)
  /\ UNCHANGED <<started, tools, handling, executing, delivered, answers, dropped, input,
                 succeeded>>

-----------------------------------------------------------------------------
(* HTTP: a POST to /execute is checked and executed by one goroutine. *)

Answer(r, code) == answers' = answers \cup {[of |-> r, status |-> code]}

handleExecute(r, c, readable, tool) ==
  LET m == Request(r, c, "http", tool)
  IN  /\ started /\ r \notin DOMAIN input
      /\ Asked(m)
      /\ \/ ~readable /\ Answer(r, 400) /\ UNCHANGED executing
         \/ readable /\ tool \notin tools /\ Answer(r, 404) /\ UNCHANGED executing
         \/ readable /\ tool \in tools
            /\ executing' = executing \cup {m} /\ UNCHANGED answers
      /\ UNCHANGED <<started, tools, messageCh, handling, sending, delivered, dropped,
                     succeeded>>

-----------------------------------------------------------------------------
(* Tools *)

\* How a tool ends: with an error, with a result, or with one that is no JSON.
Ends == {"error", "result", "no JSON"}

\* Fault: the goroutine goes on after the error and sends a result as well.
FaultyReplies(m, end) ==
  {Response(m)} \cup (IF end = "error" THEN {ErrorResponse(m, "execution_error")} ELSE {})

Replies(m, end) ==
  CASE end = "error" -> {ErrorResponse(m, "execution_error")}
    [] end = "result" -> {Response(m)}
    [] end = "no JSON" -> {}

\* The tool returns, or never does: nothing ends its context.  Of a result that
\* cannot be encoded sendResponse tells the log only, and the HTTP client gets an
\* empty 200.
Return(m, end) ==
  /\ m \in executing
  /\ executing' = executing \ {m}
  /\ succeeded' = IF end = "error" THEN succeeded ELSE succeeded \cup {m.of}
  /\ IF m.type = "http"
     THEN Answer(m.of, IF end = "error" THEN 500 ELSE 200) /\ UNCHANGED <<sending, dropped>>
     ELSE /\ sending' = sending \cup Replies(m, end)
          /\ dropped' = IF end = "no JSON" THEN dropped \cup {m} ELSE dropped
          /\ UNCHANGED answers
  /\ UNCHANGED <<started, tools, messageCh, handling, delivered, input>>

-----------------------------------------------------------------------------
Next ==
  \/ Start \/ \E t \in Tools : RegisterTool(t)
  \/ \E r \in Requests, c \in Clients, tool \in Tools \cup {NoTool} :
       \/ \E type \in InputTypes : Submit(r, c, type, tool)
       \/ \E readable \in BOOLEAN : handleExecute(r, c, readable, tool)
  \/ processMessages \/ Deliver
  \/ \E m \in handling : handleMessage(m)
  \/ \E m \in executing, end \in Ends : Return(m, end)
  \/ \E m \in sending : Send(m)

\* The goroutines that handle and send for a request; senders on a full channel
\* wait in line.
HandlesFor(r) == \E m \in handling : m.of = r /\ handleMessage(m)
SendsFor(r) == \E m \in sending : m.of = r /\ Send(m)

\* Nobody has to ask or to deliver, and no tool has to return.
Fairness ==
  /\ WF_vars(processMessages)
  /\ \A r \in Requests : WF_vars(HandlesFor(r)) /\ SF_vars(SendsFor(r))

Spec == Init /\ [][Next]_vars

FairSpec == Spec /\ Fairness

-----------------------------------------------------------------------------
(* Properties *)

InChannel == {messageCh[i] : i \in 1..Len(messageCh)}

TypeOK ==
  /\ started \in BOOLEAN /\ tools \subseteq Tools
  /\ messageCh \in Seq(Message) /\ Len(messageCh) <= Cap
  /\ handling \subseteq Message /\ executing \subseteq Message
  /\ sending \subseteq Message /\ delivered \subseteq Message
  /\ answers \subseteq Answers /\ dropped \subseteq Message
  /\ DOMAIN input \subseteq Requests
  /\ \A r \in DOMAIN input : input[r] \in Message /\ input[r].of = r
  /\ succeeded \subseteq DOMAIN input

\* What there is of a request.
Traces(r) ==
  [at : {"messageCh"}, what : {i \in 1..Len(messageCh) : messageCh[i].of = r}]
  \cup [at : {"handling"}, what : {m \in handling : m.of = r}]
  \cup [at : {"executing"}, what : {m \in executing : m.of = r}]
  \cup [at : {"sending"}, what : {m \in sending : m.of = r}]
  \cup [at : {"delivered"}, what : {m \in delivered : m.of = r}]
  \cup [at : {"answers"}, what : {a \in answers : a.of = r}]
  \cup [at : {"dropped"}, what : {m \in dropped : m.of = r}]

\* A request is in one place at a time and never doubled, however often the
\* server takes its own reply for a request and answers that.  It is never without
\* a trace, but the trace may be the log, where a result ends that is no JSON: then
\* nothing is on its way.  Whatever is, an answer to an answer too, has the client
\* that asked.
OnceForTheAsker ==
  /\ \A r \in Requests : Cardinality(Traces(r)) = IF r \in DOMAIN input THEN 1 ELSE 0
  /\ \A m \in InChannel \cup handling \cup executing \cup sending \cup delivered :
        m.of \in DOMAIN input /\ m.client = input[m.of].client

\* A result, or a 200, comes from a registered tool that has run without error
\* for this request.
ResultsAreReal ==
  /\ \A m \in InChannel \cup handling \cup sending \cup delivered :
        m.type = "tool_response" => m.of \in succeeded /\ input[m.of].tool \in tools
  /\ \A a \in answers :
        a.status = 200 => a.of \in succeeded /\ input[a.of].tool \in tools

\* server.go:114: "Send the result back to the client", and server.go:132: "to
\* ensure the response goes to the right client".  A message whose tool has returned
\* a result, one that could be encoded, has a tool_response on its way or delivered.
ResultComesBack ==
  \A r \in succeeded :
     input[r].type = "http" \/ (\E m \in dropped : m.of = r)
       \/ \E m \in InChannel \cup handling \cup sending \cup delivered :
             m.of = r /\ m.type = "tool_response"

\* Every reply gets into the channel, although it is the loop that reads this
\* channel whose messages are answered, and may be full: the server does not wait
\* for itself.
RepliesGetThrough ==
  \A r \in Requests :
     (\E m \in handling \cup sending : m.of = r)
        ~> (\E m \in InChannel \cup executing \cup delivered : m.of = r)
=============================================================================
