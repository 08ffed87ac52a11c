----------------------------- MODULE Monitoring -----------------------------
(***************************************************************************)
(* The monitoring server: startMonitoringServer of                         *)
(* cmd/server/main_monitoring.go, the chain of internal/middleware around  *)
(* internal/health, and the gauge of internal/metrics they share.          *)
(*                                                                         *)
(* A request passes the middlewares on its way in, which set headers and   *)
(* the gauge, and on its way out.  A preflight (OPTIONS) is answered by    *)
(* CORSMiddleware and changes nothing.  None of the handlers panics.       *)
(* What the checkers see belongs to the process: Process passes it in.     *)
(***************************************************************************)
EXTENDS Integers

CONSTANTS Reports,  \* connections that ask for /health, /ready or /live,
          Scrapes   \* and those that ask for /metrics, again and again

Requests == Reports \cup Scrapes

\* The components main registers, and their checkers' names for them.
Components == {"websocket_server", "mcp_server", "communication_channels"}
Statuses == {"healthy", "warning", "unhealthy", "unknown"}

VARIABLES
  at,          \* request -> "idle", "checking" or "answered"
  todo,        \* request -> the components its report has still to check
  components,  \* request -> report.Components: status of those checked
  status,      \* request -> report.Status so far
  inFlight     \* the gauge http_requests_in_flight

monitoringVars == <<at, todo, components, status, inFlight>>

NoReport == [n \in {} |-> "healthy"]

MonitoringInit ==
  /\ at = [r \in Requests |-> "idle"]
  /\ todo = [r \in Requests |-> {}]
  /\ components = [r \in Requests |-> NoReport]
  /\ status = [r \in Requests |-> "healthy"]
  /\ inFlight = 0

-----------------------------------------------------------------------------
\* It sets the gauge to the number it is given.
SetHTTPRequestsInFlight(n) == inFlight' = n

\* The way in: SecurityMiddleware sets headers, RequestIDMiddleware and
\* TracingMiddleware add to the context, LoggingMiddleware and MetricsMiddleware wrap
\* the writer, and the latter sets the gauge; RecoveryMiddleware has no panic to
\* recover from.  /health, /ready and /live begin with a report: GetHealthReport
\* takes the read lock of the manager, and nobody writes the map once the server
\* listens.
Begin(r) ==
  /\ at[r] = "idle"
  /\ at' = [at EXCEPT ![r] = "checking"]
  /\ todo' = [todo EXCEPT ![r] = IF r \in Reports THEN Components ELSE {}]
  /\ SetHTTPRequestsInFlight(1)
  /\ UNCHANGED <<components, status>>

\* Fault: a warning is reported whatever came before.
FaultyOverall(old, s) ==
  CASE s = "unhealthy" -> "unhealthy"
    [] s = "warning" -> "warning"
    [] OTHER -> old

Overall(old, s) ==
  CASE s = "unhealthy" -> "unhealthy"
    [] s = "warning" /\ old = "healthy" -> "warning"
    [] OTHER -> old

\* One round of the loop over the map, in the random order of a range; n's
\* checker says s.
Check(r, n, s) ==
  /\ at[r] = "checking" /\ n \in todo[r]
  /\ todo' = [todo EXCEPT ![r] = @ \ {n}]
  /\ components' = [components EXCEPT ![r] =
                      [m \in DOMAIN @ \cup {n} |-> IF m = n THEN s ELSE @[m]]]
  /\ status' = [status EXCEPT ![r] = Overall(@, s)]
  /\ UNCHANGED <<at, inFlight>>

IsReady(report) == \A n \in DOMAIN report : report[n] \notin {"unhealthy", "unknown"}

IsLive(report) ==
  report = NoReport \/ \E n \in DOMAIN report : report[n] \in {"healthy", "warning"}

\* Which of the endpoints answer 200, and not 503, to a report.
Endpoints200(report, s) ==
  {"/metrics"} \cup (IF s \in {"healthy", "warning"} THEN {"/health"} ELSE {})
               \cup (IF IsReady(report) THEN {"/ready"} ELSE {})
               \cup (IF IsLive(report) THEN {"/live"} ELSE {})

\* The handler writes its answer.
Answer(r) ==
  /\ at[r] = "checking" /\ todo[r] = {}
  /\ at' = [at EXCEPT ![r] = "answered"]
  /\ UNCHANGED <<todo, components, status, inFlight>>

\* The way out, through MetricsMiddleware and LoggingMiddleware.
End(r) ==
  /\ at[r] = "answered"
  /\ at' = [at EXCEPT ![r] = "idle"]
  /\ components' = [components EXCEPT ![r] = NoReport]
  /\ status' = [status EXCEPT ![r] = "healthy"]
  /\ SetHTTPRequestsInFlight(-1)
  /\ UNCHANGED todo

-----------------------------------------------------------------------------
(* Properties *)

MonitoringTypeOK ==
  /\ at \in [Requests -> {"idle", "checking", "answered"}]
  /\ todo \in [Requests -> SUBSET Components]
  /\ \A r \in Requests : /\ DOMAIN components[r] \subseteq Components
                         /\ \A n \in DOMAIN components[r] : components[r][n] \in Statuses
  /\ status \in [Requests -> Statuses]
  /\ inFlight \in {-1, 0, 1}

\* The endpoints agree: what the report adds up while it goes through the
\* components, in whatever order, is what IsReady finds in the finished report,
\* and a server that is ready is live.
EndpointsAgree ==
  \A r \in Requests :
     LET answers == Endpoints200(components[r], status[r])
     IN  at[r] = "answered" =>
           /\ "/ready" \in answers <=> "/health" \in answers
           /\ "/ready" \in answers => "/live" \in answers

\* The gauge is set and never added to, so it does not count, and -1 says
\* nothing; but while it says 1 some request is being served.
OneMeansBusy == inFlight = 1 => \E r \in Requests : at[r] # "idle"
=============================================================================
