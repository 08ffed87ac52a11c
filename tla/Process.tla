------------------------------- MODULE Process -------------------------------
(***************************************************************************)
(* main of cmd/server/main_monitoring.go: three servers, the bridge and    *)
(* the response handler, a context that ends them and a wait group that    *)
(* waits for them, from start to the end of the process.                   *)
(*                                                                         *)
(* Of the tool and the bridge only what the end of the process depends on  *)
(* is left: where a call is, what blocks it and what still comes to it.    *)
(* Router has the rest.  The MCP server (mcp-go) and net/http are          *)
(* external: Shutdown makes ListenAndServe return ErrServerClosed at once  *)
(* and then waits for the requests in flight, until its context ends.      *)
(***************************************************************************)
EXTENDS Monitoring, Sequences

CONSTANTS Calls,        \* MCP requests that call ask_user
          NoCall,
          QuestionCap, ResponseCap

ASSUME ProcessAssumption ==
  /\ QuestionCap \in Nat \ {0} /\ ResponseCap \in Nat \ {0}
  /\ NoCall \notin Calls

VARIABLES
  process,    \* "running", "exited" (main has returned) or "failed" (os.Exit(1))
  main,       \* main after its goroutines are started: "serving", "cancelled",
              \* in the shutdown of "mcp" or "ws", "waiting" in wg.Wait
  mcp,        \* the MCP goroutine: "starting", "marked" as running, "listening",
              \* "closing" (about to return ErrServerClosed)
  running,    \* m.running of MonitoredMCPServer
  ws,         \* the WebSocket goroutine: "marked" (IsRunning says so from the
              \* start), "listening", "closing" or "returned"
  stopped,    \* wsServer's shutdown channel is closed
  monitor,    \* the monitoring goroutine: "listening" or "returned"
  bridge,     \* "select", "send" to responseCh, or "returned"
  sending,    \* the call the bridge sends a response for
  handler,    \* "select" or "returned"
  asked,      \* the calls whose question the bridge has put to clients
  call,       \* call -> "none", "asking", "waiting" or "returned"
  questionCh, responseCh,
  traffic     \* bound: a behaviour has "calls" or requests for "monitoring"

servers == <<mcp, running, ws, stopped, monitor>>
bridgeVars == <<bridge, sending, handler, asked, questionCh, responseCh>>
vars == <<process, main, servers, bridgeVars, call, traffic, monitoringVars>>

Init ==
  /\ MonitoringInit
  /\ process = "running" /\ main = "serving"
  /\ mcp = "starting" /\ running = FALSE
  /\ ws = "marked" /\ stopped = FALSE
  /\ monitor = "listening"
  /\ bridge = "select" /\ sending = NoCall /\ handler = "select"
  /\ asked = {}
  /\ call = [c \in Calls |-> "none"]
  /\ questionCh = <<>> /\ responseCh = <<>>
  /\ traffic \in {"calls", "monitoring"}

cancelled == main # "serving"   \* ctx.Done()

\* Fault: MonitoredMCPServer.Shutdown does not give m.mu back.
FaultyLocked == main \in {"mcp", "ws", "waiting"}

locked == main = "mcp"          \* MonitoredMCPServer.Shutdown holds m.mu

-----------------------------------------------------------------------------
(* The servers *)

\* MonitoredMCPServer.Start marks the server as running before it listens.
McpStarts ==
  /\ mcp = "starting" /\ ~locked
  /\ mcp' = "marked"
  /\ running' = TRUE
  /\ UNCHANGED <<process, main, ws, stopped, monitor, bridgeVars, call, traffic,
                 monitoringVars>>

McpListens ==
  /\ mcp = "marked"
  /\ mcp' = "listening"
  /\ UNCHANGED <<process, main, running, ws, stopped, monitor, bridgeVars, call, traffic,
                 monitoringVars>>

\* Fault: ErrServerClosed is no error, as for the WebSocket server.
FaultyMcpFails ==
  /\ mcp = "closing"
  /\ mcp' = "returned"
  /\ UNCHANGED <<process, main, running, ws, stopped, monitor, bridgeVars, call, traffic,
                 monitoringVars>>

\* Start has an error to return: the port is taken, or the server is closed.
\* The goroutine calls Fatal, whichever it is.
McpFails ==
  /\ mcp \in {"marked", "closing"}
  /\ process' = "failed"
  /\ UNCHANGED <<main, servers, bridgeVars, call, traffic, monitoringVars>>

WsListens ==
  /\ ws = "marked"
  /\ ws' = "listening"
  /\ UNCHANGED <<process, main, mcp, running, stopped, monitor, bridgeVars, call, traffic,
                 monitoringVars>>

\* The port is taken, or the server is closed.  The goroutine logs the one and
\* ignores the other, and returns; nobody else is told.
WsReturns ==
  /\ ws \in {"marked", "closing"}
  /\ ws' = "returned"
  /\ UNCHANGED <<process, main, mcp, running, stopped, monitor, bridgeVars, call, traffic,
                 monitoringVars>>

\* The port of the monitoring server is taken.
MonitorFails ==
  /\ monitor = "listening" /\ \A r \in Requests : at[r] = "idle"
  /\ monitor' = "returned"
  /\ UNCHANGED <<process, main, mcp, running, ws, stopped, bridgeVars, call, traffic,
                 monitoringVars>>

-----------------------------------------------------------------------------
(* main, after the signal *)

\* SIGTERM or an interrupt, and cancel().
Cancel ==
  /\ main = "serving"
  /\ main' = "cancelled"
  /\ UNCHANGED <<process, servers, bridgeVars, call, traffic, monitoringVars>>

\* Shutdown takes the lock and closes the listener.  It closes nothing when the
\* server's goroutine has not got that far; the server listens all the same then.
Closes(server) ==
  CASE server = "listening" -> {"closing"}
    [] server = "marked" -> {"closing", "marked"}
    [] OTHER -> {server}

McpShutdown ==
  /\ main = "cancelled"
  /\ main' = "mcp"
  /\ mcp' \in Closes(mcp)
  /\ UNCHANGED <<process, running, ws, stopped, monitor, bridgeVars, call, traffic,
                 monitoringVars>>

\* Every request has ended or 30 seconds are over.
McpShutdownEnds ==
  /\ main = "mcp"
  /\ main' = "ws"
  /\ running' = FALSE
  /\ UNCHANGED <<process, mcp, ws, stopped, monitor, bridgeVars, call, traffic, monitoringVars>>

WsShutdown ==
  /\ main = "ws"
  /\ main' = "waiting"
  /\ stopped' = TRUE
  /\ ws' \in Closes(ws)
  /\ UNCHANGED <<process, mcp, running, monitor, bridgeVars, call, traffic, monitoringVars>>

\* wg.Wait: for the five goroutines main has started.
Exit ==
  /\ main = "waiting"
  /\ mcp = "returned" /\ ws = "returned" /\ monitor = "returned"
  /\ bridge = "returned" /\ handler = "returned"
  /\ process' = "exited"
  /\ UNCHANGED <<main, servers, bridgeVars, call, traffic, monitoringVars>>

-----------------------------------------------------------------------------
(* Calls, bridge and response handler *)

callStep == <<process, main, servers, traffic, monitoringVars>>

CallBegins(c) ==
  /\ traffic = "calls" /\ mcp = "listening" /\ call[c] = "none"
  /\ call' = [call EXCEPT ![c] = "asking"]
  /\ UNCHANGED <<callStep, bridgeVars>>

\* The send to questionCh waits for room, and for nothing else.
CallAsks(c) ==
  /\ call[c] = "asking" /\ Len(questionCh) < QuestionCap
  /\ call' = [call EXCEPT ![c] = "waiting"]
  /\ questionCh' = Append(questionCh, c)
  /\ UNCHANGED <<callStep, bridge, sending, handler, asked, responseCh>>

\* The timer, or the context of the MCP request.
CallGivesUp(c) ==
  /\ call[c] = "waiting"
  /\ call' = [call EXCEPT ![c] = "returned"]
  /\ UNCHANGED <<callStep, bridgeVars>>

BridgeTakes ==
  /\ bridge = "select" /\ questionCh # <<>>
  /\ questionCh' = Tail(questionCh)
  /\ \/ asked' = asked \cup {Head(questionCh)} /\ UNCHANGED <<bridge, sending>>
     \/ bridge' = "send" /\ sending' = Head(questionCh) /\ UNCHANGED asked
  /\ UNCHANGED <<callStep, call, handler, responseCh>>

\* A client answers, or has done so and the message waits in messageCh.
BridgeHears(c) ==
  /\ bridge = "select" /\ c \in asked
  /\ bridge' = "send"
  /\ sending' = c
  /\ asked' = asked \ {c}
  /\ UNCHANGED <<callStep, call, handler, questionCh, responseCh>>

BridgeSends ==
  /\ bridge = "send" /\ Len(responseCh) < ResponseCap
  /\ responseCh' = Append(responseCh, sending)
  /\ bridge' = "select"
  /\ sending' = NoCall
  /\ UNCHANGED <<callStep, call, handler, asked, questionCh>>

\* Fault: the bridge also leaves while it sends, with the response in its hands.
FaultyBridgeReturns ==
  /\ bridge \in {"select", "send"} /\ cancelled
  /\ bridge' = "returned"
  /\ UNCHANGED <<callStep, call, sending, handler, asked, questionCh, responseCh>>

BridgeReturns ==
  /\ bridge = "select" /\ cancelled
  /\ bridge' = "returned"
  /\ UNCHANGED <<callStep, call, sending, handler, asked, questionCh, responseCh>>

HandlerTakes ==
  /\ handler = "select" /\ responseCh # <<>>
  /\ responseCh' = Tail(responseCh)
  /\ call' = [call EXCEPT ![Head(responseCh)] = "returned"]
  /\ UNCHANGED <<callStep, bridge, sending, handler, asked, questionCh>>

HandlerReturns ==
  /\ handler = "select" /\ cancelled
  /\ handler' = "returned"
  /\ UNCHANGED <<callStep, call, bridge, sending, asked, questionCh, responseCh>>

-----------------------------------------------------------------------------
(* What the checkers see *)

\* IsRunning of the WebSocket server knows of its shutdown and not of its failure.
\* messageCh may be anywhere between empty and full.  No checker says "unknown".
Seen(n) ==
  CASE n = "websocket_server" -> {IF stopped THEN "unhealthy" ELSE "healthy"}
    [] n = "mcp_server" -> {IF running THEN "healthy" ELSE "unhealthy"}
    [] OTHER -> Statuses \ {"unknown"}

\* Fault: IsRunning of the MCP server does not take the lock.
FaultyReadable(n) == n \in Components

\* IsRunning of the MCP server waits for the lock Shutdown holds.
Readable(n) == n = "mcp_server" => ~locked

RequestStep(r) ==
  /\ \/ \E n \in Components : Readable(n) /\ \E s \in Seen(n) : Check(r, n, s)
     \/ Answer(r) \/ End(r)
  /\ UNCHANGED <<process, main, servers, bridgeVars, call, traffic>>

RequestBegins(r) ==
  /\ traffic = "monitoring" /\ monitor = "listening"
  /\ Begin(r)
  /\ UNCHANGED <<process, main, servers, bridgeVars, call, traffic>>

-----------------------------------------------------------------------------
CallStep(c) == CallAsks(c) \/ CallGivesUp(c)
BridgeStep == BridgeTakes \/ BridgeSends \/ BridgeReturns
HandlerStep == HandlerTakes \/ HandlerReturns
MainStep == McpShutdown \/ McpShutdownEnds \/ WsShutdown \/ Exit

Step ==
  \/ McpStarts \/ McpListens \/ McpFails \/ WsListens \/ WsReturns \/ MonitorFails
  \/ Cancel \/ MainStep
  \/ \E c \in Calls : CallBegins(c) \/ CallStep(c) \/ BridgeHears(c)
  \/ BridgeStep \/ HandlerStep
  \/ \E r \in Requests : RequestBegins(r) \/ RequestStep(r)

Ended == process # "running" /\ UNCHANGED vars

Next == (process = "running" /\ Step) \/ Ended

Running(A) == process = "running" /\ A

\* Goroutines are scheduled, timers fire.  Nobody has to send a signal, to call
\* or to answer.
Fairness ==
  /\ WF_vars(Running(McpStarts)) /\ WF_vars(Running(McpListens \/ McpFails))
  /\ WF_vars(Running(MainStep))
  /\ \A c \in Calls : WF_vars(Running(CallStep(c)))
  /\ WF_vars(Running(BridgeStep)) /\ WF_vars(Running(HandlerStep))
  /\ \A r \in Requests : WF_vars(Running(RequestStep(r)))

Spec == Init /\ [][Next]_vars

FairSpec == Spec /\ Fairness

-----------------------------------------------------------------------------
(* Properties *)

TypeOK ==
  /\ MonitoringTypeOK
  /\ process \in {"running", "exited", "failed"}
  /\ main \in {"serving", "cancelled", "mcp", "ws", "waiting"}
  /\ mcp \in {"starting", "marked", "listening", "closing", "returned"}
  /\ running \in BOOLEAN /\ stopped \in BOOLEAN
  /\ ws \in {"marked", "listening", "closing", "returned"}
  /\ monitor \in {"listening", "returned"}
  /\ bridge \in {"select", "send", "returned"}
  /\ sending \in Calls \cup {NoCall} /\ (bridge = "send" <=> sending # NoCall)
  /\ handler \in {"select", "returned"}
  /\ asked \subseteq Calls
  /\ call \in [Calls -> {"none", "asking", "waiting", "returned"}]
  /\ questionCh \in Seq(Calls) /\ Len(questionCh) <= QuestionCap
  /\ responseCh \in Seq(Calls) /\ Len(responseCh) <= ResponseCap
  /\ traffic \in {"calls", "monitoring"}

\* README.md:13: "Graceful Shutdown: Clean server shutdown with proper resource
\* cleanup", for which main waits in main_monitoring.go:292 and logs "All servers
\* shut down successfully" in line 318.  The process does not fail because its MCP
\* server has been shut down.
StopsCleanly == ~(process = "failed" /\ mcp = "closing")

\* Shutdown has come before the MCP server's goroutine and has closed nothing.
Missed == main \in {"mcp", "ws", "waiting"} /\ mcp \notin {"closing", "returned"}

\* A signal ends the process, whatever else is under way, when it finds the MCP
\* server listening.
SignalEndsProcess == (main = "cancelled" /\ mcp = "listening") ~> (process # "running")

\* A call that has begun returns or the process ends, also when the bridge has
\* left and the channel to it is full.
CallsEnd ==
  \A c \in Calls :
     (call[c] \in {"asking", "waiting"})
        ~> (call[c] = "returned" \/ process # "running" \/ Missed)

\* A check that comes once the MCP server is being shut down does not find it
\* healthy.  A report that has checked it before may still say so.
NotHealthyWhileClosing ==
  [][\A r \in Requests :
       /\ "mcp_server" \in todo[r] /\ "mcp_server" \notin todo'[r]
       /\ components'[r]["mcp_server"] = "healthy"
       => main \in {"serving", "cancelled"} \/ Missed]_vars

\* A request for the state of the process is answered unless the process ends,
\* although it waits for the shutdown of the MCP server.
RequestsEnd ==
  \A r \in Requests : (at[r] # "idle") ~> (at[r] = "idle" \/ process # "running")
=============================================================================
