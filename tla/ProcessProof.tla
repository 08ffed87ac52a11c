----------------------------- MODULE ProcessProof -----------------------------
(***************************************************************************)
(* Proofs about Process and the monitoring server in it, for every number  *)
(* of calls and requests and every capacity of the channels.               *)
(***************************************************************************)
EXTENDS Process, TLAPS

-----------------------------------------------------------------------------
(* The monitoring server *)

\* What a checker says, and a report adds up to.
Told == {"healthy", "warning", "unhealthy"}

AnyReport == UNION {[D -> Told] : D \in SUBSET Components}

\* A report has its status from the components checked so far.
Report(r) ==
  /\ DOMAIN components[r] \subseteq Components
  /\ \A n \in DOMAIN components[r] : components[r][n] \in Told
  /\ todo[r] \cap DOMAIN components[r] = {}
  /\ at[r] # "checking" => todo[r] = {}
  /\ at[r] = "idle" => components[r] = NoReport
  /\ components[r] = NoReport \/ \E n \in DOMAIN components[r] : TRUE
  /\ status[r] = "unhealthy" <=> \E n \in DOMAIN components[r] : components[r][n] = "unhealthy"
  /\ status[r] = "healthy" <=> \A n \in DOMAIN components[r] : components[r][n] = "healthy"

MonitoringInv ==
  /\ at \in [Requests -> {"idle", "checking", "answered"}]
  /\ todo \in [Requests -> SUBSET Components]
  /\ components \in [Requests -> AnyReport]
  /\ status \in [Requests -> Told]
  /\ \A r \in Requests : Report(r)
  /\ inFlight \in {-1, 0, 1}
  /\ OneMeansBusy

LEMMA NoReportIsReport == NoReport \in AnyReport /\ DOMAIN NoReport = {}
<1>1. NoReport \in [{} -> Told]
  BY DEF NoReport
<1> QED
  BY <1>1 DEF AnyReport, NoReport

LEMMA MonitoringStarts == MonitoringInit => MonitoringInv
<1> SUFFICES ASSUME MonitoringInit PROVE MonitoringInv
  OBVIOUS
<1>1. \A r \in Requests : Report(r)
  BY NoReportIsReport DEF MonitoringInit, Report
<1> QED
  BY <1>1, NoReportIsReport DEF MonitoringInit, MonitoringInv, Told, OneMeansBusy

\* One more component leaves the report in order.
LEMMA CheckReports ==
  ASSUME MonitoringInv, NEW r \in Requests, NEW n \in Components, NEW s \in Told,
         Check(r, n, s)
  PROVE  Report(r)' /\ components'[r] \in AnyReport
<1>1. /\ components'[r] = [m \in DOMAIN components[r] \cup {n} |->
                             IF m = n THEN s ELSE components[r][m]]
      /\ status'[r] = Overall(status[r], s)
      /\ todo'[r] = todo[r] \ {n}
      /\ at[r] = "checking" /\ at' = at
  BY DEF Check, MonitoringInv
<1>2. Report(r) /\ n \notin DOMAIN components[r] /\ status[r] \in Told
  BY DEF Check, MonitoringInv, Report
<1>3. DOMAIN components'[r] = DOMAIN components[r] \cup {n}
      /\ components'[r][n] = s
      /\ \A m \in DOMAIN components[r] : components'[r][m] = components[r][m]
  BY <1>1, <1>2
<1>4. components'[r] \in [DOMAIN components'[r] -> Told]
  BY <1>1, <1>2, <1>3 DEF Report
<1>5. components'[r] \in AnyReport
  BY <1>2, <1>3, <1>4 DEF Report, AnyReport
<1>6. Report(r)'
  <2>1. \/ s = "unhealthy" /\ status'[r] = "unhealthy"
        \/ s = "warning" /\ status[r] = "healthy" /\ status'[r] = "warning"
        \/ s = "warning" /\ status[r] # "healthy" /\ status'[r] = status[r]
        \/ s = "healthy" /\ status'[r] = status[r]
    BY <1>1 DEF Overall, Told
  <2> QED
    BY <1>1, <1>2, <1>3, <2>1 DEF Report, Told
<1> QED
  BY <1>5, <1>6

LEMMA MonitoringStep ==
  ASSUME MonitoringInv, NEW r \in Requests,
         \/ Begin(r) \/ Answer(r) \/ End(r)
         \/ \E n \in Components, s \in Told : Check(r, n, s)
  PROVE  MonitoringInv'
<1>1. CASE Begin(r)
  <2>1. \A q \in Requests : Report(q)'
    BY <1>1, NoReportIsReport DEF Begin, MonitoringInv, Report
  <2> QED
    BY <1>1, <2>1 DEF Begin, MonitoringInv, SetHTTPRequestsInFlight, OneMeansBusy
<1>2. CASE Answer(r)
  <2>1. \A q \in Requests : Report(q)'
    BY <1>2 DEF Answer, MonitoringInv, Report
  <2> QED
    BY <1>2, <2>1 DEF Answer, MonitoringInv, OneMeansBusy
<1>3. CASE End(r)
  <2>1. Report(r)'
    BY <1>3, NoReportIsReport DEF End, MonitoringInv, Report
  <2>2. \A q \in Requests \ {r} : Report(q)'
    BY <1>3 DEF End, MonitoringInv, Report
  <2> QED
    BY <1>3, <2>1, <2>2, NoReportIsReport
    DEF End, MonitoringInv, SetHTTPRequestsInFlight, OneMeansBusy, Told
<1>4. ASSUME NEW n \in Components, NEW s \in Told, Check(r, n, s) PROVE MonitoringInv'
  <2>1. \A q \in Requests \ {r} : Report(q)'
    BY <1>4 DEF Check, MonitoringInv, Report
  <2>2. Report(r)' /\ components'[r] \in AnyReport
    BY <1>4, CheckReports
  <2>3. components' \in [Requests -> AnyReport]
    BY <1>4, <2>2 DEF Check, MonitoringInv
  <2>4. status' \in [Requests -> Told]
    BY <1>4 DEF Check, MonitoringInv, Overall, Told
  <2> QED
    BY <1>4, <2>1, <2>2, <2>3, <2>4 DEF Check, MonitoringInv, OneMeansBusy
<1> QED
  BY <1>1, <1>2, <1>3, <1>4

-----------------------------------------------------------------------------
(* The process *)

\* What main, the servers and the bridge keep to: the MCP goroutine never returns,
\* and the server is not marked as running once a shutdown that has closed it is over.
ServersInv ==
  /\ process \in {"running", "failed"}
  /\ main \in {"serving", "cancelled", "mcp", "ws", "waiting"}
  /\ mcp \in {"starting", "marked", "listening", "closing"}
  /\ ws \in {"marked", "listening", "closing", "returned"}
  /\ monitor \in {"listening", "returned"}
  /\ main \in {"ws", "waiting"} /\ mcp = "closing" => running = FALSE

Flags == running \in BOOLEAN /\ stopped \in BOOLEAN

QueuesInv ==
  /\ bridge \in {"select", "send", "returned"}
  /\ sending \in Calls \cup {NoCall} /\ (bridge = "send" <=> sending # NoCall)
  /\ handler \in {"select", "returned"}
  /\ asked \subseteq Calls
  /\ call \in [Calls -> {"none", "asking", "waiting", "returned"}]
  /\ questionCh \in Seq(Calls) /\ Len(questionCh) <= QuestionCap
  /\ responseCh \in Seq(Calls) /\ Len(responseCh) <= ResponseCap
  /\ traffic \in {"calls", "monitoring"}

ProcessInv == MonitoringInv /\ ServersInv /\ Flags /\ QueuesInv

LEMMA ProcessInit == Init => ProcessInv
<1> SUFFICES ASSUME Init PROVE ProcessInv
  OBVIOUS
<1>1. MonitoringInv
  BY MonitoringStarts DEF Init
<1>2. ServersInv
  BY DEF Init, ServersInv
<1>3. Flags
  BY DEF Init, Flags
<1>4. QueuesInv
  BY ProcessAssumption DEF ProcessAssumption, Init, QueuesInv
<1> QED
  BY <1>1, <1>2, <1>3, <1>4 DEF ProcessInv

\* The steps of the servers and of main.
ServerStep ==
  \/ McpStarts \/ McpListens \/ McpFails \/ WsListens \/ WsReturns \/ MonitorFails
  \/ Cancel \/ MainStep

\* The steps of calls, bridge and handler.
QueueStep ==
  \/ \E c \in Calls : CallBegins(c) \/ CallStep(c) \/ BridgeHears(c)
  \/ BridgeStep \/ HandlerStep

MonitorStep == \E r \in Requests : RequestBegins(r) \/ RequestStep(r)

LEMMA Steps == Step <=> ServerStep \/ QueueStep \/ MonitorStep
  BY DEF Step, ServerStep, QueueStep, MonitorStep

\* Who changes what.
LEMMA Apart ==
  /\ ServerStep => UNCHANGED <<bridgeVars, call, traffic, monitoringVars>>
  /\ QueueStep => UNCHANGED <<process, main, servers, traffic, monitoringVars>>
  /\ MonitorStep => UNCHANGED <<process, main, servers, bridgeVars, call, traffic>>
<1>1. ServerStep => UNCHANGED <<bridgeVars, call, traffic, monitoringVars>>
  BY DEF ServerStep, MainStep, McpStarts, McpListens, McpFails, WsListens, WsReturns,
         MonitorFails, Cancel, McpShutdown, McpShutdownEnds, WsShutdown, Exit
<1>2. QueueStep => UNCHANGED <<process, main, servers, traffic, monitoringVars>>
  BY DEF QueueStep, callStep, CallBegins, CallStep, CallAsks, CallGivesUp, BridgeHears,
         BridgeStep, BridgeTakes, BridgeSends, BridgeReturns, HandlerStep, HandlerTakes,
         HandlerReturns
<1>3. MonitorStep => UNCHANGED <<process, main, servers, bridgeVars, call, traffic>>
  BY DEF MonitorStep, RequestBegins, RequestStep
<1> QED
  BY <1>1, <1>2, <1>3

LEMMA ServersKept ==
  ASSUME ServersInv, Flags, UNCHANGED <<process, main, servers>>
  PROVE  ServersInv' /\ Flags'
  BY DEF ServersInv, Flags, servers

LEMMA ServersStep ==
  ASSUME ServersInv, Flags, ServerStep
  PROVE  ServersInv' /\ Flags'
<1> USE DEF ServersInv
<1>1. Flags'
  BY DEF Flags, ServerStep, MainStep, McpStarts, McpListens, McpFails, WsListens,
         WsReturns, MonitorFails, Cancel, McpShutdown, McpShutdownEnds, WsShutdown, Exit,
         servers
<1>2. CASE McpStarts \/ McpListens \/ McpFails \/ WsListens \/ WsReturns \/ MonitorFails
  BY <1>1, <1>2 DEF McpStarts, McpListens, McpFails, WsListens, WsReturns, MonitorFails, servers
<1>3. CASE Cancel
  BY <1>1, <1>3 DEF Cancel, servers
<1>4. CASE McpShutdown
  BY <1>1, <1>4 DEF McpShutdown, Closes
<1>5. CASE McpShutdownEnds
  BY <1>1, <1>5 DEF McpShutdownEnds
<1>6. CASE WsShutdown
  BY <1>1, <1>6 DEF WsShutdown, Closes
<1>7. CASE Exit
  BY <1>1, <1>7 DEF Exit
<1> QED
  BY <1>1, <1>2, <1>3, <1>4, <1>5, <1>6, <1>7 DEF ServerStep, MainStep

LEMMA QueuesKept ==
  ASSUME QueuesInv, UNCHANGED <<bridgeVars, call, traffic>>
  PROVE  QueuesInv'
  BY DEF QueuesInv, bridgeVars

LEMMA QueuesStep ==
  ASSUME QueuesInv, QueueStep
  PROVE  QueuesInv'
<1> USE ProcessAssumption DEF ProcessAssumption, QueuesInv, callStep, bridgeVars
<1>1. ASSUME NEW c \in Calls, CallBegins(c) \/ CallGivesUp(c) PROVE QueuesInv'
  BY <1>1 DEF CallBegins, CallGivesUp
<1>2. ASSUME NEW c \in Calls, CallAsks(c) PROVE QueuesInv'
  <2>1. Append(questionCh, c) \in Seq(Calls) /\ Len(Append(questionCh, c)) <= QuestionCap
    BY <1>2 DEF CallAsks
  <2> QED
    BY <1>2, <2>1 DEF CallAsks
<1>3. ASSUME NEW c \in Calls, BridgeHears(c) PROVE QueuesInv'
  BY <1>3 DEF BridgeHears
<1>4. CASE BridgeTakes
  <2>1. Head(questionCh) \in Calls /\ Tail(questionCh) \in Seq(Calls)
        /\ Len(Tail(questionCh)) <= QuestionCap
    BY <1>4 DEF BridgeTakes
  <2> QED
    BY <1>4, <2>1 DEF BridgeTakes
<1>5. CASE BridgeSends
  <2>1. Append(responseCh, sending) \in Seq(Calls)
        /\ Len(Append(responseCh, sending)) <= ResponseCap
    BY <1>5 DEF BridgeSends
  <2> QED
    BY <1>5, <2>1 DEF BridgeSends
<1>6. CASE BridgeReturns
  BY <1>6 DEF BridgeReturns
<1>7. CASE HandlerTakes
  <2>1. Head(responseCh) \in Calls /\ Tail(responseCh) \in Seq(Calls)
        /\ Len(Tail(responseCh)) <= ResponseCap
    BY <1>7 DEF HandlerTakes
  <2> QED
    BY <1>7, <2>1 DEF HandlerTakes
<1>8. CASE HandlerReturns
  BY <1>8 DEF HandlerReturns
<1> QED
  BY <1>1, <1>2, <1>3, <1>4, <1>5, <1>6, <1>7, <1>8
  DEF QueueStep, CallStep, BridgeStep, HandlerStep

LEMMA MonitorsStep ==
  ASSUME MonitoringInv, MonitorStep
  PROVE  MonitoringInv'
<1>1. \A n \in Components : Seen(n) \subseteq Told
  BY DEF Seen, Statuses, Told, Components
<1>2. \E r \in Requests : \/ Begin(r) \/ Answer(r) \/ End(r)
                          \/ \E n \in Components, s \in Told : Check(r, n, s)
  BY <1>1 DEF MonitorStep, RequestBegins, RequestStep
<1> QED
  BY <1>2, MonitoringStep

LEMMA MonitoringKept ==
  ASSUME MonitoringInv, UNCHANGED monitoringVars
  PROVE  MonitoringInv'
  BY DEF MonitoringInv, monitoringVars, Report, OneMeansBusy

LEMMA ProcessStep == ProcessInv /\ [Next]_vars => ProcessInv'
<1> SUFFICES ASSUME ProcessInv, [Next]_vars PROVE ProcessInv'
  OBVIOUS
<1>1. ServerStep => ProcessInv'
  BY Apart, ServersStep, QueuesKept, MonitoringKept DEF ProcessInv
<1>2. QueueStep => ProcessInv'
  BY Apart, ServersKept, QueuesStep, MonitoringKept DEF ProcessInv
<1>3. MonitorStep => ProcessInv'
  BY Apart, ServersKept, QueuesKept, MonitorsStep DEF ProcessInv
<1>4. UNCHANGED vars => ProcessInv'
  BY ServersKept, QueuesKept, MonitoringKept DEF ProcessInv, vars
<1> QED
  BY <1>1, <1>2, <1>3, <1>4, Steps DEF Next, Ended

LEMMA ProcessInvariance == Spec => []ProcessInv
  BY ProcessInit, ProcessStep, PTL DEF Spec

\* Every variable keeps its type and every channel its capacity.
THEOREM Typing == Spec => []TypeOK
<1>1. ProcessInv => TypeOK
  <2> SUFFICES ASSUME ProcessInv PROVE TypeOK
    OBVIOUS
  <2>1. MonitoringTypeOK
    BY DEF ProcessInv, MonitoringInv, Report, MonitoringTypeOK, Statuses, Told
  <2>2. running \in BOOLEAN /\ stopped \in BOOLEAN
    BY DEF ProcessInv, Flags
  <2> QED
    BY <2>1, <2>2 DEF ProcessInv, ServersInv, QueuesInv, TypeOK
<1> QED
  BY <1>1, ProcessInvariance, PTL

\* wg.Wait never returns: of the goroutines main waits for, the MCP server's ends
\* the process instead of returning.
THEOREM NoCleanExit == Spec => [](process # "exited")
<1>1. ProcessInv => process # "exited"
  BY DEF ProcessInv, ServersInv
<1> QED
  BY <1>1, ProcessInvariance, PTL

\* /ready and /health answer alike to a finished report, and a ready server is live.
THEOREM EndpointsAlike == Spec => []EndpointsAgree
<1>1. ProcessInv => EndpointsAgree
  <2> SUFFICES ASSUME MonitoringInv, NEW r \in Requests
               PROVE  LET answers == Endpoints200(components[r], status[r])
                      IN  /\ "/ready" \in answers <=> "/health" \in answers
                          /\ "/ready" \in answers => "/live" \in answers
    BY DEF ProcessInv, EndpointsAgree
  <2>1. Report(r) /\ status[r] \in Told
    BY DEF MonitoringInv
  <2>2. IsReady(components[r]) <=> status[r] \in {"healthy", "warning"}
    BY <2>1 DEF Report, IsReady, Told
  <2>3. IsReady(components[r]) => IsLive(components[r])
    BY <2>1 DEF Report, IsReady, IsLive, Told
  <2> QED
    BY <2>2, <2>3 DEF Endpoints200
<1> QED
  BY <1>1, ProcessInvariance, PTL

\* The gauge http_requests_in_flight, which is set and not added to, says 1 only
\* while a request is being served.
THEOREM GaugeMeansBusy == Spec => []OneMeansBusy
<1>1. ProcessInv => OneMeansBusy
  BY DEF ProcessInv, MonitoringInv
<1> QED
  BY <1>1, ProcessInvariance, PTL

-----------------------------------------------------------------------------
(* What is told during the shutdown *)

LEMMA ToldStep ==
  ProcessInv /\ [Next]_vars =>
    \A r \in Requests :
       /\ "mcp_server" \in todo[r] /\ "mcp_server" \notin todo'[r]
       /\ components'[r]["mcp_server"] = "healthy"
       => main \in {"serving", "cancelled"} \/ Missed
<1> SUFFICES ASSUME ProcessInv, [Next]_vars, NEW r \in Requests,
                    "mcp_server" \in todo[r], "mcp_server" \notin todo'[r],
                    components'[r]["mcp_server"] = "healthy"
             PROVE  main \in {"serving", "cancelled"} \/ Missed
  OBVIOUS
<1>1. MonitorStep
  <2>1. ~UNCHANGED monitoringVars
    BY DEF monitoringVars
  <2>2. ~UNCHANGED vars
    BY <2>1 DEF vars
  <2> QED
    BY <2>1, <2>2, Apart, Steps DEF Next, Ended
<1>2. PICK s \in Seen("mcp_server") : Readable("mcp_server") /\ Check(r, "mcp_server", s)
  <2>1. PICK q \in Requests : RequestBegins(q) \/ RequestStep(q)
    BY <1>1 DEF MonitorStep
  <2>2. Report(q) /\ todo \in [Requests -> SUBSET Components]
    BY DEF ProcessInv, MonitoringInv
  <2>3. ~Begin(q) /\ ~Answer(q) /\ ~End(q)
    BY <2>2 DEF Begin, Answer, End, Report
  <2>4. PICK n \in Components : Readable(n) /\ \E s \in Seen(n) : Check(q, n, s)
    BY <2>1, <2>3 DEF RequestBegins, RequestStep
  <2>5. q = r /\ n = "mcp_server"
    BY <2>2, <2>4 DEF Check
  <2> QED
    BY <2>4, <2>5
<1>3. s = "healthy"
  BY <1>2 DEF Check, ProcessInv, MonitoringInv
<1>4. running /\ main # "mcp"
  BY <1>2, <1>3 DEF Seen, Readable, locked
<1> QED
  BY <1>4 DEF ProcessInv, ServersInv, Missed

\* Once the MCP server is being shut down no check finds it healthy: its checker
\* waits for the lock and then finds it not running.
THEOREM ToldOfClosing == Spec => NotHealthyWhileClosing
<1>1. ProcessInv /\ [Next]_vars =>
        [\A r \in Requests :
           /\ "mcp_server" \in todo[r] /\ "mcp_server" \notin todo'[r]
           /\ components'[r]["mcp_server"] = "healthy"
           => main \in {"serving", "cancelled"} \/ Missed]_vars
  BY ToldStep
<1> QED
  BY <1>1, ProcessInvariance, PTL DEF Spec, NotHealthyWhileClosing
=============================================================================
