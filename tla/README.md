# frontend_router_mcp in TLA+

frontend_router_mcp lets an AI agent ask a person a question. The agent calls the MCP
tool `ask_user`; the server sends the question to every connected WebSocket client and
gives the first answer back to the agent. This directory holds TLA+ models of that
server and of the packages beside it, the TLC runs that check them on small instances, and
proofs checked by TLAPS. Source paths below are relative to the repository.

## 1. The system

### Inventory

| component | source | state it keeps | operations |
|---|---|---|---|
| `ask_user` tool | `internal/tools/ask_user.go` | `pendingRequests` (request ID to response channel), one channel of capacity 1 per call | `Execute`, `HandleUserResponse` |
| bridge | `cmd/server/main_monitoring.go:356` | `clients` (client ID to response sender), `activeQuestions` | takes questions from `questionCh`, messages from `messageCh`, sends to `responseCh` |
| response handler | `main_monitoring.go:510` | none | takes from `responseCh`, calls `HandleUserResponse` |
| WebSocket server | `internal/wsserver` | `clients`, a send channel per client, `register`, `unregister`, `broadcast`, `shutdown` | `HandleWebSocket`, `run` (the hub), `readPump`, `writePump`, `SendResponse`, `Shutdown` |
| process life cycle | `main_monitoring.go:86` | context, wait group, three HTTP servers, `MonitoredMCPServer.running` and its lock | start, signal, shutdown |
| monitoring server | `main_monitoring.go:322`, `internal/health`, `internal/middleware`, `internal/metrics` | registered checkers, the report of each request, gauges and counters | `/health`, `/ready`, `/live`, `/metrics` |
| circuit breaker, retry | `internal/resilience` | state, failure and half-open counters, last failure time | `Execute`, `Reset`, `GetOrCreate`, `WithCircuitBreaker`, `Retry` |
| rate limiter | `internal/validation/ratelimit.go` | per-client buckets, connection count, violations, block | `AllowRequest`, `AllowMessage`, `AddConnection`, `RemoveConnection`, block, cleanup, two middlewares |
| WebSocket validator | `internal/validation/websocket_middleware.go` | connection map with counters, a limiter of its own | validate upgrade, connection, message; removal; cleanup |
| request validator | `internal/validation/request_validation.go` | none but the request on its way | `WithTimeout`, `WithSizeLimit`, checks of head and body |
| internal MCP server | `internal/mcpserver` | tools, one message channel | handle a message or a POST, execute, reply |
| other validators, sanitizers, headers, structs | `internal/validation` (the rest) | rule tables | pure functions on text |
| errors, loggers, message type | `internal/errors`, `internal/logging`, `internal/logger`, `pkg/messaging` | none | values and output |

`cmd/server` uses the tool, the WebSocket server, health, metrics, middleware and logging.
The resilience, validation and internal MCP packages are written and tested but not wired
into the process.

### How the parts interact

    agent --MCP--> Execute --questionCh(10)--> bridge --send(256)--> writePump --> client
                     ^                          |  ^                                  |
                responseCh(1), one per call     |  +--messageCh(100)-- readPump <-----+
                     |                          |
                     +---- response handler <--responseCh(10)

Sends to `questionCh` and `responseCh` block; sends to `messageCh`, to a client's send
channel and to a call's response channel have a default case and drop. The hub of the
WebSocket server also receives from `messageCh`. `main` starts a goroutine for each server,
the bridge and the handler; they share a context, and `wg.Wait` waits for them. The health
checkers read the servers' state, the MCP server's under the lock its `Shutdown` holds.

### What is hard

* A call may end (timer, context) while its answer is on the way; the answer path has
  three goroutines and no common lock.
* IDs are readings of the clock and may collide, request IDs and client IDs alike.
* Connections drop between any two steps; the hub, the pumps, the bridge and Shutdown
  each learn of it at a different time.
* Channels that block form a chain that must not become a cycle; channels that do not
  block lose messages.
* Registration succeeds only while the hub is at its select.
* The end of the process: a signal meets servers that are starting, calls in flight and
  a bridge that leaves while others still send to it.
* Results that come late, in another state of the breaker than the one that let them in.
* Limits checked in one lock region and used in another; counts kept in two maps, each with
  a cleanup of its own.
* A server that reads requests and writes replies on one channel.
* A timeout that answers while the goroutine it gave up on goes on.

`PROJECT.json` lists these hazards line by line with the properties aimed at them.

## 2. Modules

| module | what it is | code |
|---|---|---|
| `AskOnce` | the abstract promise of the tool: a call waits under an ID, offers are made under IDs, the call ends once, with an offer made to it or without an answer | `ask_user.go` |
| `AskUser` | the tool, one action per lock region, select or return | `ask_user.go` |
| `Sockets` | connections, send channels, `messageCh` and the hub as the bridge sees them | `internal/wsserver`, abstracted |
| `Router` | `AskUser` and `Sockets` composed with the channels, the bridge and the response handler | `main_monitoring.go` |
| `WsServer` | the WebSocket server itself; implements `Sockets` | `internal/wsserver` |
| `Monitoring` | requests to the monitoring server, the health report and the gauge | `internal/health`, `middleware`, `metrics` |
| `Process` | `main`: servers, signal, shutdown, and what is in flight; extends `Monitoring` | `main_monitoring.go` |
| `CircuitBreaker` | the breaker: admission, late results, reset | `internal/resilience` |
| `Retry` | `Retry` and `WithCircuitBreaker` on top of the breaker | `internal/resilience` |
| `RateLimiter` | the operations on the limiter's map | `ratelimit.go` |
| `RequestValidator` | one request through `WithTimeout` around `WithSizeLimit` | `request_validation.go` |
| `Gate` | who uses the limiter and the request validator: the middlewares, the WebSocket validator | `internal/validation` |
| `McpServer` | the internal MCP message server | `internal/mcpserver` |
| `AskUserProof`, `RouterProof`, `WsServerProof`, `ProcessProof`, `CircuitBreakerProof`, `RetryProof`, `GateProof`, `McpServerProof` | theorems about the module each is named for | |
| `MCAskUser`, `MCRouter`, `MCWsServer`, `MCProcess`, `MCBreaker`, `MCGate`, `MCMcpServer` | instances for TLC | |

Definitions named `Faulty...` are variants of the definition below them with a plausible bug.
No specification uses them. For each property `PROJECT.json` names one that the property's run
must reject, which shows that the property depends on the code.

### AskUser

`pc[c]` is where the goroutine of call `c` is in `Execute`; `Register` is lines 82-95,
`QuestionSent`/`QuestionFailed` the return of `questionHandler`, `ReceiveResponse`,
`TimeOut` and `ContextDone` the three cases of the select, `Unregister` and `CloseChannel`
the two halves of the deferred function. For a goroutine `h` in `HandleUserResponse`,
`Lookup` is the lock region, and `SendResponse`, `ResponseDropped` and `SendPanics` are what
the select with a default case does on an open channel with room, on a full one, and on a
closed one. A channel is named by the call that made it. `offers` and `accepted` are history
variables: nothing reads them but the properties.

`AskOnce` sees a call as waiting from its registration to its deferred delete (`AbsStatus`);
an answer taken from the channel becomes visible at the delete.

### Router

`Tool == INSTANCE AskUser` and `Socket == INSTANCE Sockets` run side by side. Actions of
`Router` conjoin an action of a component with what the goroutines of `main` do: `AskQuestion`
is `Tool!QuestionSent` with the send to `questionCh`, `HandlerTakes` is `Tool!Lookup` with the
receive from `responseCh`, `TakeConnect` is `Socket!TakeAndRespond` with the bridge's map.
The bridge is a program of its own: `bridge` is where it stands, the fan-out is one step per
client in the order the map range happens to have, and the sends to `responseCh` block
(`bridge = "send"`, then `SendToHandler`). A send on a closed send channel is `SendPanics`.

In `Router` request IDs and client IDs are distinct (what collisions do is checked in
`AskUser` and `WsServer`), answers are tagged with the call they were said to, and the
shutdown is left to `Process` and `WsServer`.

### WsServer and Sockets

For each connection, `handler`, `reader` and `writer` are where `HandleWebSocket`, `readPump`
and `writePump` are. `hub` is where `run` is: at its `"select"`, about to `"insert"` or
`"remove"` (between the receive and the lock region), stuck in `"broadcast"`, or `"stopped"`.
A registration needs the hub at its select, otherwise it is refused; an unregister waits for
it. `HubRemoves` deletes by ID whatever the entry leads to and closes the channel of the one
who leaves, as the code does, so shared IDs behave as they do there. `Shutdown` is three
steps; it leaves the map as it is, and the hub that would clear it has been told to stop
(`server.go:147`, though `server_test.go:159` expects an empty map). The broadcast case of the
hub is absent because nothing but the hub sends to `broadcast`.

`ImplementsSockets` maps a connection to a link: new until the hub has received it, open
while the connection is up and its reader reads, broken afterwards, closed when the hub has
closed its send channel. This is what entitles `Router` to use `Sockets`.

### Process and Monitoring

`main` is where the main goroutine is, from serving to `wg.Wait`; `mcp`, `ws`, `monitor`,
`bridge` and `handler` are the five goroutines it waits for. `Start` of the MCP server marks it
as running before it listens, so `mcp` is `"marked"` in between. `Cancel` is the signal with
`cancel()`; `McpShutdown` takes the lock and closes the listener, `McpShutdownEnds` gives the
lock back, `WsShutdown` closes the WebSocket server. `McpFails` is `Fatal`, which ends the
process whatever `Start` returned, `ErrServerClosed` included; `WsReturns` only logs. Of calls
there is left where they block: the send to `questionCh` (`CallAsks`), which neither a timer
nor the context can end, and the wait for an answer (`CallGivesUp`). The bridge and the handler
leave at their selects only.

`Monitoring` is a request between the middlewares and the handler. `Check` is one round of
`GetHealthReport` over a map in random order; `Endpoints200` says which endpoints answer 200
to a report. `Process` gives it what each checker sees (`Seen`) and when the MCP checker can
read at all (`Readable`): not while `Shutdown` holds the lock.

The library behind the MCP server and net/http are external: `Shutdown` makes `ListenAndServe`
return `ErrServerClosed` at once; before the listener exists it may close nothing, and then
the server listens ever after (`Missed`).

### CircuitBreaker and Retry

`AllowClosed`, `AllowFirst` and `AllowProbe` are the admitting branches of `allowCall`, which is
one lock region; a refusal changes nothing. `Fail` and `Succeed` are `recordResult`, `Panic` a
function that never gets there. A goroutine in `running` may be from any earlier state of the
breaker, and that is the point: its result is recorded in the state of the day. The history
variables `probes`, `admitted` and `lost` say who was let through since the breaker last became
half-open, how many, and whether one of them panicked; `streak` counts failures in a row.
Time is the truth of `time.Since(lastFailureTime) > resetTimeout`, initially true because the
zero time is long ago. The comment at `circuit_breaker.go:173` says the breaker closes when all
half-open calls have completed; `halfOpenCalls` counts admissions, so it closes on the first
success after the last admission, and `Succeed` says so.

`Retry` makes its own manager and so its own breaker (`RetryBegins`); in a behaviour the breaker
is either shared by callers of `Execute` or used by one `Retry` after the other (`use`).
`WithCircuitBreaker` is a `Retry` with no retries.

### RateLimiter, RequestValidator and Gate

`clients` is the limiter's map. Every operation is one region of its lock and one action (or,
where outcomes differ, one action per outcome: `RequestPasses`, `RequestBlocked`,
`RequestOverRate`). A token bucket is external and may be empty at any time. Time is what the
code asks of it: whether a block is over and whether a client has been silent for
`ClientExpiry`. `sentenced` remembers which blocks ought to be in force.

In `Gate` a behaviour has one `owner` of the limiter. With `"middleware"`, the requests and
connections of the limiter's own middlewares, and the administrator's blocks. With
`"validator"`, `ValidateUpgrade` (checks, then limits under a read lock), and the three steps
of `ValidateConnection` under two locks: `Entered` in the validator's map, `Accepted` or
`Refused` by the limiter, `Removed` again; messages, pings, silence, the end of a connection
(`Ends`), which no code of the validator learns of, and `CleanupConnections`, which tells the
limiter nothing. With `"nobody"`, a request in a `RequestValidator` of its own:
the two share no state, and one run checks both. `collided` and `roamed` remember that the
clock gave an ID twice, and that an ID came back from another IP.

In `RequestValidator` a request is the set of checks its head fails, and a body. The goroutine
that `WithTimeout` starts (`serving`) and `WithTimeout` itself (`wrapper`) share `status`, the
first status written. Nothing in the repository puts the two wrappers together; the
order is ours: the other one leaves the checks outside the timeout, which is the simpler case. The scan of
JSON is modelled byte by byte over the bytes it tells apart, and checked against `Texts`, a
grammar of well-formed texts that knows nothing of counters.

### McpServer

A message is a record of its request, client, type, tool and error. `processMessages` starts
the goroutine that is `handling`; `handleMessage` refuses, which is a reply, or starts the
goroutine that is `executing`; `Return` replies, unless the tool's result cannot be encoded, which
is written to the log and `dropped`; `Send` puts a reply into the one channel that
requests come from. The transport (`Deliver`) and the server compete for it:
`server_test.go:339` reads its reply from that channel and is lucky when it gets it. `input` and
`succeeded` are histories.

## 3. Runs

| run | instance | checks |
|---|---|---|
| `ask_user` | 2 calls, 1 handler, 2 IDs, 2 answers | `PendingChannelsOpen`, `PendingUnlessCollision`, `AcceptedInOrder`, `ImplementsAskOnce` |
| `ask_user_late` | 1 call, 1 ID | violation of `LateResponseIsAnError` |
| `router` | channels of capacity 1 and three casts: 2 calls with 1 client; 1 call with 2 clients that answer and disconnect at will; 1 call that may be malformed or cancelled with 1 client and all message types | type, `AnswerIsFromUser`, `OneResponsePerQuestion`, `CallReturns` |
| `router_drop` | 1 call, 1 connection | violation of `DroppedClientsRemoved` |
| `ws_server` | 2 connections, 2 client IDs, capacities 1 | `MapLeadsToLiveClients`, `LeaversAreClosed`, `ImplementsSockets`, `PumpsEnd` |
| `ws_wedge` | 1 connection | violation of `ForwardedMessageDelivered` |
| `process` | 2 calls or 1 report and 1 scrape, capacities 1 | type, `EndpointsAgree`, `SignalEndsProcess`, `CallsEnd`, `NotHealthyWhileClosing`, `RequestsEnd` |
| `process_stop` | 1 call or 1 scrape | violation of `StopsCleanly` |
| `breaker` | 4 goroutines, limits 2 and 2, one may panic and may retry twice, `failureCount` up to 4 | type, `ProbesLimited`, `ClosedBelowLimit`, `SomeProbeDecides`, `RetryFindsClosed`, `TripsOnFailures`, `HalfOpenEnds` |
| `gate` | 3 connections, 3 IDs, 2 IPs, limits 2 and 1; requests with at most one flaw and bodies of up to 8 bytes, limits 7 and 5 | type, `ChargesMatch`, `OpenWithinLimits`, `OpenIsKnown`, `BlocksStay`, `JudgedWhole`, `RefusedIsNotHandled`, `GoodJSONPasses` |
| `mcp` | 2 requests, 2 clients, 2 tools, a channel of 1 | type, `OnceForTheAsker`, `ResultsAreReal`, `RepliesGetThrough` |
| `mcp_reply` | 1 request, 1 client, 1 tool, a channel of 1 | violation of `ResultComesBack` |

The type invariants of `AskUser` and `WsServer` are proved for every instance and in no run.

Bounds. Two calls are the fewest that collide on an ID, fill a channel of capacity 1 and
exchange answers; one response handler is what the process has. Two connections are the
fewest for a fan-out that is interrupted and for a shared client ID. Capacity 1 makes every
channel full and every default case taken within a few steps; a larger channel only delays
that. A behaviour of `Router` has a `cast`: the calls that are made, those of them that may be
malformed or cancelled, the clients that connect and the types of message they send. The three
casts of the run are each cut down where another is complete; together with more they would
not fit into one instance. `traffic` in `Process`
says whether a behaviour has calls or monitoring requests: neither reads what the other
writes, and both meet the same shutdown. `FailureBound` stops `failureCount`, which open and
half-open states only ever increase; beyond `MaxFailures` its value makes no difference. Four
goroutines are one more than a half-open period lets through, so one may be late from an
earlier state. `MaxRetries` is one more retry than the breaker lets through. Three connections
and IDs in `gate` are one more than the limits of two, and one IP holds more than its limit of
one; `violations` stops at `AutoBlockThreshold`, here 1, above which the code makes no
difference, and `CollidesOnce` lets the clock repeat an ID once, and after that only one whose
connection has ended: the properties of charges and limits are silent after the first time, and
`BlocksStay` has no need of an ID given twice. Bodies hold every sequence of three bytes, every
well-formed text of five, and lengths below, at and above both limits. Two requests in `mcp` fill the channel and wait for it.
`use`, `owner` and `strict` are choices between behaviours, not bounds.

Symmetry is declared in `gate` only (connections, IDs, IPs), which never tells those apart and
has no liveness property.

Deadlock is checked where the system should not stop: `AskUser` stops nowhere except after a
panic; `Router` may rest only where every call has returned and both goroutines of `main` wait
at their selects (`Quiet`); `CircuitBreaker` and `Gate` never stop. `WsServer` may stop for good
once the hub is stopped or stuck, `Process` once `main` hangs in `wg.Wait`, and `McpServer` when
each request has been asked and answered, so their configurations switch the check off.

### What the violations show

* `ask_user_late`: a call whose timer has fired, before or after the handler's lookup, deletes
  its entry and closes its channel between that lookup and the send, and the send panics. The
  code's own message, "channel full or closed", expects an error.
* `router_drop`: a client that has answered vanishes without a `disconnect` message, and the hub
  closes its send channel. `README.md:378` says that disconnected clients are removed; the bridge
  keeps this one in its map, and takes the next question with it among those to ask. The one
  thing the send to it can do is to panic. The acknowledgement of a `connect` may meet a closed
  channel too (`main_monitoring.go:493`); the theorem `DiesOfClosedChannels` has both.
* `ws_wedge`: the hub's `messageCh` case sends to the channel only the hub receives from.
* `process_stop`: `README.md:13` promises a clean shutdown. After a signal `Start` of the MCP
  server returns `ErrServerClosed`, the goroutine that called it takes this for an error and
  calls `Fatal`, and the process exits with 1, with calls and the WebSocket shutdown under way.
  No run of the program gets to "All servers shut down successfully" (`NoCleanExit`): the
  monitoring server, for which `main` waits as well, is shut down by nobody.
* `mcp_reply`: the message server reads its own `tool_response` off its channel before the
  transport does, and an error takes the place of the result that `server.go:114` sends "back to
  the client".

The passing properties of `AskUser` and `Router` hold in the presence of these: a panic ends
the process, and the liveness properties say "returns, or the process has died".

### What passing properties say of the code that one might not expect

Several properties hold under a condition, and what the condition excludes does go wrong.

* `SignalEndsProcess`, `CallsEnd` and `NotHealthyWhileClosing` except a signal that comes before
  the MCP server listens (`Missed`): `Shutdown` closes nothing, the server listens on, and
  `wg.Wait` waits for ever.
* `SignalEndsProcess` and `CallsEnd` hold because the process ends, by the exit of `process_stop`:
  a call whose send finds `questionCh` full after the bridge has left does not return.
* `ChargesMatch` asks for equality behind the limiter's own middleware only. A validator has no
  operation for the end of a connection it has accepted, and its cleanup of idle ones does not
  call the limiter, so the limiter counts every connection it has ever accepted (`Ends`) against
  limits that are meant for concurrent ones (`ratelimit.go:34`). What remains true, and is
  checked, is that the charge is never too low.
* `OpenWithinLimits` excludes IDs that come back from another IP (`ratelimit.go:203` counts by the
  IP of the first sight), and IDs the clock gives twice, as `ChargesMatch` and `OpenIsKnown` do: the
  removal of a refused connection then takes another one's entry and charge.
* `BlocksStay` excludes silent clients: `Cleanup` forgets a manual block with its client.
* `RefusedIsNotHandled` excludes timeouts: `WithTimeout` answers and the handler goes on.
* `JudgedWhole` says nothing of a body of exactly the limit, which the code takes for one that
  exceeds it.
* `NotHealthyWhileClosing` is about checks. A report that has checked the MCP server before the
  signal may be answered, with "healthy", after it.
* `OnceForTheAsker` has a place for results that cannot be encoded: `sendResponse` writes a line
  to the log and sends nothing, so the client waits in vain.

### Fairness

Goroutines are scheduled: weak fairness for each call, for the bridge, the handler, the hub,
the pumps, `main` and each request to the monitoring server. Timers fire: `TimeOut` belongs to
the call's steps, and the end of `Shutdown`'s 30 seconds to those of `main`. A select that
finds a case ready again and again takes it in the end, because Go picks at random among the
ready cases: strong fairness of `TakeQuestion` in `Router`. Senders that block on a full channel
wait in a queue that Go serves in order: strong fairness of each reply's `Send` in `McpServer`. A
read on a dead connection fails and a ticker ticks. A function run by the breaker ends; a tool
of the message server need not. Nobody has to answer, connect, disconnect, cancel, shut down,
submit a request or take a reply.

## 4. Proofs

Every theorem holds for all values of the constants that satisfy the assumptions named in the
module of the specification (markers such as `NoCall` are not values of the sets they mark,
capacities are at least one, sets of connections in `Gate` are finite).

`AskUserProof`:

* `Typing`: `TypeOK` is inductive.
* `MapLeadsToOpenChannels`, `RegisteredCallsAreFound`: the inductive invariant `IInv` adds to
  the two properties that a channel is closed exactly when its call has returned, and that a
  call that is registered has an ID. Without the first nothing relates `closed` to `pc`,
  without the second the deletion by ID says nothing.
* `AcceptedAnswersAccounted`: by `AnswerInv`, which relates the history of accepted answers to
  the outcome and the buffer, and needs `IInv` for the freshness of a registered channel.
* `Refinement`: `Spec => ImplementsAskOnce`. Every step but a few is invisible to `AskOnce`
  (lemma `Invisible`); a lookup is an offer, a registration is an ask, the deferred delete is
  the end of the call (lemma `RefinesUnregister`), which needs that the answer taken was
  offered for the call's own ID while it waited.
* `EndsOnce`: once a call has ended, no step begins it again or changes what it returned. Read
  off the refinement: `AskOnce` has no step that touches a call that is done.
* `DiesOnlyLate`: the process dies only with a handler that holds the channel of a call that has
  returned. The invariant needs the second half of the race, that such a call stays returned.

`RouterProof`:

* That the tool in the pipeline is the tool of `AskUser` is how `Router` is built: each step is a
  step of `AskUser` or leaves the tool alone (lemma `ToolRefined`), which needs from `Types` only
  that the handler looks up IDs there are. So what `AskUserProof` proves holds in the pipeline.
  This module has an instance of that one, `Proved`, whose theorems are used by name after lemma
  `ToolIsProved`.
* `PipelineKeepsPromise`: the pipeline, from the socket to the caller, implements `AskOnce`.
  `WaitingCallsAreFound` and `AnswersAccounted` are the tool's two properties for the pipeline.
* `Typing`: from `Types`, which adds where a connection is and what the bridge holds.
* `OneResponse`: `FlowInv` adds to the property that a question goes one way. It is in the queue,
  with the bridge, put to a client or answered, never in two of these places (`QuestionsFlow`),
  and a request ID leads to the call that drew it (`OwnID`). Without the first a question
  still in the queue could be answered twice.
* `GenuineAnswers`: by `AnswersGenuine`, which says of every answer on the way that it was said to
  its question, or that it is the text for no clients and the question has been put to nobody.
* `ChannelHasRoom`: whoever is about to be handed a response has an empty buffer, so the
  `default` case of `HandleUserResponse`, which drops the answer, is not taken in this process.
  It follows from `OneResponse` and `AnswersAccounted` together.
* `DiesOfClosedChannels`: the two ways to die, and what has gone wrong before each. `BridgeKnows`
  adds that whom the bridge knows has connected, and that a link never becomes new again.
* `NeverAllWaiting`: while a question or a response is under way the bridge or the handler can
  take a step. Their sends block, `SendToClient` on a full `send` too, but not on each other.
  It says that somebody can step by the conditions of the steps, written out in `BridgeReady` and
  `HandlerReady`, as the prover has no rules for `ENABLED`.

`WsServerProof`:

* `Typing`: the queues (`QueuesStep`) and the rest of the state (`Places`, part of `ServerInv`).
* `MapIsLive`, `LeaversCleanedUp`: `ServerInv` adds `Roles` (only a connection the hub has
  received has pumps or a map entry, the hub holds connections of the right kind, a closed send
  channel means a reader that has left) and `Entered` (a client the hub has not let go of is
  under its ID, or shares it). `Entered` is what the deletion by ID needs: the entry that the
  hub deletes for a leaver is the leaver's own unless the ID is shared.
* `Refinement`: `Spec => ImplementsSockets`. Steps of `HandleWebSocket` after the hub's receive,
  of the pumps' ends and of `StopHTTP` are invisible (`Invisible`); a read failure and a dead
  peer are `Break` (`RefinesBreak`); an unregister becomes visible when the hub closes the channel
  (`RefinesRemoves`); the loop of `Shutdown` breaks the links of the map (`RefinesCloseConnections`).

`ProcessProof`: `ProcessInv` is the types with the fact that the MCP goroutine never returns and
that a server whose shutdown has ended is not marked as running. From it `NoCleanExit`, and the
action property `ToldOfClosing`, in which the checker's wait for the lock does the work.
`EndpointsAlike` and `GaugeMeansBusy` come from `MonitoringInv`: the status added up so far is the
worst of the components checked so far, whatever their order, and components checked and still
to check make up the report. No checker says `"unknown"`, which `/ready` refuses and the sum
ignores; the invariant says so (`Told`), and `EndpointsAlike` needs it.

`CircuitBreakerProof`, `RetryProof`:

* `Typing`: inductive; numbers and truth values are taken apart because no single prover
  handles both.
* `AtMostOneExtraProbe`, `BelowLimit`, `NeverStuck`: `BreakerInv` adds to the three properties
  what the counters stand for: `Counting` (a half-open period has let through one call more
  than `halfOpenCalls`, outside it nothing is remembered) and `CountsRow` (in the closed state
  `failureCount` is the number of failures in a row). Without `CountsRow` nothing ties the
  counter to results that came while the breaker was open.
* `TripsRightly`: the action property from `CountsRow`.
* `RetryIsNeverRefused`: `RetryInv` adds that while `Retry` works its breaker has counted its own
  failures and nothing else.
* `RetryTripsRightly`: a breaker under `Retry` opens for the same reasons as one alone.
* `RetryKeepsBudget`: the function runs at most `MaxRetries + 1` times, from `Budget`, what runs
  and retries left add up to at each place of the loop.

`GateProof`:

* `GateTyping`: in particular no count of connections is ever negative.
* `HandledOnlyIfPassed` and its corollary `RefusedAreNotHandled`: what is read of
  a body up to the limit, if it is shorter than the limit, is the whole body (`ReadWhole`).
* `ChargesAreRight` and its corollary `OpenAreKnown`: with `Distinct`, which says of a validator's
  connections that they have different IDs until the clock repeats one, every begin moves the
  charge and the set of counted connections by one under the same ID. Counted are the open ones and,
  of a validator's, those that have ended (`CountsMatch`), as the end of one changes no charge.
* `BlocksStayOnRecord`: the action property, operation by operation.
* `LimitsHold`: open connections are within the two limits, in total and for an IP, unless the
  clock gave two the same ID or an ID came from two IPs. The code compares the limits with sums
  over the limiter's map, so the proof needs what the sums are: the numbers of counted connections
  (`SumIs`, `SumIsCounted`, `LimiterCounts`), given `CountsMatch` and `Charged`, which says that the
  map is finite and has every counted connection under the IP it came from. `SumIs`
  is by induction over finite sets, of which it takes the least that fails (`LeastSubset`).
* `GoodTextsPass`: a body that is JSON is never refused as bad JSON. First the recursive
  functions are shown to satisfy their equations (`Recursion`, from `StrongInduction`). Then
  every text of the grammar leads the scan from a state outside a string back to that state, and
  never to fewer open braces or brackets than there were (`Leads`, `ScanItem`, `ScanTexts`).
  `RefusalIsVerdict` ties the answer given to the verdict of the scan.

`McpServerProof`:

* `OneAnswerOnItsWay`: by `Once`, which says of the seven places a request can be in that each holds
  it at most once and no two hold it together; every action takes it from one place and puts it
  into another (`Leave`, `Enter`, `ChannelTaken`, `ChannelPut`, `Moved`).
* `Results`: by `Contents`, which ties every message, a reply to a reply too, to the request it
  goes back to.

The theorems on induction that come with the prover take an operator as parameter, which its
backends cannot instantiate. The two inductions over data above therefore use the form with a
set: the set of numbers, or of sizes, for which the claim fails has a least element.

Model-checked only: liveness (`CallReturns`, `PumpsEnd`, `SignalEndsProcess`, `CallsEnd`,
`RequestsEnd`, `HalfOpenEnds`, `RepliesGetThrough`), as the prover has no rules for `ENABLED` and
so none for fairness. Every invariant and every other action property that a passing run checks
is stated by a theorem.

## 5. Not modelled

* The text of checks and transformations: `input_limits.go`, `structs.go`, `validator.go`,
  `sanitization.go`, `security_headers.go`, and which texts the checks of `request_validation.go`
  and `websocket_middleware.go` refuse. They are stateless functions on strings, mostly regular
  expressions, and their properties are about characters. That the validator throws its
  sanitized payload away (`websocket_middleware.go:459`) can be read off the code.
* `errors`, `logging`, `logger`: values and output. The test clients.
* The length of a timeout: a timer may fire at any time after the question was handed over.
  The tool handler's overriding of `timeout_seconds` with 300 is therefore not visible.
* Counters nobody reads: request totals, message statistics, all metrics but the in-flight
  gauge. That gauge is set to 1 and -1 and never added to (`metrics.go:285`), so it does not
  count; `OneMeansBusy` is all it says.
* Data races on single words: `LastActivity` in the ping handlers, `httpServer` of the WebSocket
  server, the map of `RateLimitMiddleware` (which `main` does not use) and the tools of the message
  server, which its users register before they start it.
* The map of a breaker `Manager` that somebody keeps: nobody does.

What could be taken further: `Router` over `WsServer` itself instead of over `Sockets`, by proof
only, as each of the two fills an instance for TLC alone; and `Process` composed with `Router`
rather than beside it, for the same reason.
