------------------------------ MODULE GateProof ------------------------------
(***************************************************************************)
(* The invariants of Gate, proved for any number of connections, clients   *)
(* and addresses, any limits and any requests.                             *)
(***************************************************************************)
EXTENDS Gate, FiniteSetTheorems, TLAPS

-----------------------------------------------------------------------------
(* Types of the limiter *)

LimiterType ==
  /\ DOMAIN clients \subseteq ClientIDs
  /\ \A id \in DOMAIN clients : clients[id] \in Entries
  /\ sentenced \subseteq ClientIDs

LEMMA NewEntryType == \A ip \in IPs : NewEntry(ip) \in Entries
  BY LimiterAssumption DEF LimiterAssumption, NewEntry, Entries

LEMMA EntryOfType ==
  ASSUME LimiterType, NEW id \in ClientIDs, NEW ip \in IPs
  PROVE  EntryOf(id, ip) \in Entries /\ Seen(id, ip) \in Entries
<1>1. EntryOf(id, ip) \in Entries
  BY NewEntryType DEF EntryOf, Known, LimiterType
<1> QED
  BY <1>1 DEF Seen, Entries

LEMMA ViolationType ==
  ASSUME NEW e \in Entries
  PROVE  OneMoreViolation(e) \in Entries
<1>1. e.violations \in 0..AutoBlockThreshold /\ AutoBlockThreshold \in Nat
  BY LimiterAssumption DEF LimiterAssumption, Entries
<1>2. (IF e.violations < AutoBlockThreshold THEN e.violations + 1 ELSE e.violations)
        \in 0..AutoBlockThreshold
  BY <1>1
<1> QED
  BY <1>2 DEF OneMoreViolation, Entries

LEMMA BlockType ==
  ASSUME NEW e \in Entries, NEW b \in {"none", "auto", "manual", "over"}
  PROVE  [e EXCEPT !.block = b] \in Entries
  BY DEF Entries

LEMMA ChargeType ==
  ASSUME NEW e \in Entries
  PROVE  /\ [e EXCEPT !.connections = @ + 1] \in Entries
         /\ [e EXCEPT !.connections = IF @ = 0 THEN 0 ELSE @ - 1, !.silent = FALSE] \in Entries
<1>1. ASSUME NEW n \in Nat
      PROVE  [e EXCEPT !.connections = n] \in Entries
                /\ [e EXCEPT !.connections = n, !.silent = FALSE] \in Entries
  BY DEF Entries
<1>2. e.connections \in Nat
  BY DEF Entries
<1>3. e.connections + 1 \in Nat /\ (IF e.connections = 0 THEN 0 ELSE e.connections - 1) \in Nat
  BY <1>2
<1> QED
  BY <1>1, <1>3

\* What Put does to the map.
LEMMA PutType ==
  ASSUME LimiterType, NEW id \in ClientIDs, NEW e \in Entries, Put(id, e),
         sentenced' \subseteq ClientIDs
  PROVE  LimiterType'
  BY DEF Put, LimiterType

LEMMA KeepType ==
  ASSUME LimiterType, NEW ids \in SUBSET DOMAIN clients, Keep(ids), UNCHANGED sentenced
  PROVE  LimiterType'
  BY DEF Keep, LimiterType

LEMMA LimiterSame == LimiterType /\ UNCHANGED limiterVars => LimiterType'
  BY DEF LimiterType, limiterVars

LEMMA RequestsKeepType ==
  ASSUME LimiterType, NEW id \in ClientIDs, NEW ip \in IPs,
         RequestPasses(id, ip) \/ RequestBlocked(id, ip) \/ RequestOverRate(id, ip)
  PROVE  LimiterType'
<1> DEFINE e == Unblocked(Seen(id, ip))
           v == OneMoreViolation(e)
<1>1. Seen(id, ip) \in Entries /\ e \in Entries
  BY EntryOfType, BlockType DEF Unblocked
<1>2. v \in Entries
  BY <1>1, ViolationType
<1>2a. [v EXCEPT !.block = "auto"] \in Entries
  BY <1>2, BlockType
<1>3. CASE RequestPasses(id, ip)
  BY <1>1, <1>3, PutType DEF RequestPasses, LimiterType
<1>4. CASE RequestBlocked(id, ip)
  BY <1>1, <1>4, PutType DEF RequestBlocked, LimiterType
<1>5. CASE RequestOverRate(id, ip)
  <2>1. sentenced' \subseteq ClientIDs
    BY <1>5 DEF RequestOverRate, LimiterType
  <2>2. \E x \in Entries : Put(id, x)
    BY <1>2, <1>2a, <1>5 DEF RequestOverRate
  <2> QED
    BY <2>1, <2>2, PutType
<1> QED
  BY <1>3, <1>4, <1>5

LEMMA MessageKeepsType ==
  ASSUME LimiterType, NEW id, MessageOverRate(id)
  PROVE  LimiterType'
<1>1. id \in ClientIDs /\ clients[id] \in Entries
  BY DEF MessageOverRate, MayMessage, Known, LimiterType
<1>2. OneMoreViolation(clients[id]) \in Entries
  BY <1>1, ViolationType
<1> QED
  BY <1>1, <1>2, PutType DEF MessageOverRate, LimiterType

LEMMA ConnectionsKeepType ==
  ASSUME LimiterType, NEW id, NEW ip,
         (id \in ClientIDs /\ ip \in IPs /\ AddConnection(id, ip)) \/ RemoveConnection(id)
  PROVE  LimiterType'
<1>1. CASE id \in ClientIDs /\ ip \in IPs /\ AddConnection(id, ip)
  <2>1. [Seen(id, ip) EXCEPT !.connections = @ + 1] \in Entries
    BY <1>1, EntryOfType, ChargeType
  <2> QED
    BY <1>1, <2>1, PutType DEF AddConnection, LimiterType
<1>2. CASE RemoveConnection(id)
  <2>1. CASE Known(id)
    <3>1. id \in ClientIDs /\ clients[id] \in Entries
      BY <2>1 DEF Known, LimiterType
    <3>2. [clients[id] EXCEPT !.connections = IF @ = 0 THEN 0 ELSE @ - 1,
                              !.silent = FALSE] \in Entries
      BY <3>1, ChargeType
    <3> QED
      BY <1>2, <2>1, <3>1, <3>2, PutType DEF RemoveConnection, LimiterType
  <2>2. CASE ~Known(id)
    BY <1>2, <2>2, LimiterSame DEF RemoveConnection, limiterVars
  <2> QED
    BY <2>1, <2>2
<1> QED
  BY <1>1, <1>2

LEMMA AdministrationKeepsType ==
  ASSUME LimiterType, NEW id, BlockClient(id) \/ UnblockClient(id)
  PROVE  LimiterType'
<1>1. id \in ClientIDs /\ clients[id] \in Entries
  BY DEF BlockClient, UnblockClient, Known, LimiterType
<1>2. /\ [clients[id] EXCEPT !.block = "manual"] \in Entries
      /\ [clients[id] EXCEPT !.block = "none"] \in Entries
  BY <1>1 DEF Entries
<1>3. sentenced' \subseteq ClientIDs
  BY <1>1 DEF BlockClient, UnblockClient, LimiterType
<1> QED
  BY <1>1, <1>2, <1>3, PutType DEF BlockClient, UnblockClient

LEMMA TimeKeepsType ==
  ASSUME LimiterType, Cleanup \/ \E id \in ClientIDs : BlockEnds(id) \/ FallsSilent(id)
  PROVE  LimiterType'
<1>1. CASE Cleanup
  BY <1>1, KeepType DEF Cleanup
<1>2. ASSUME NEW id \in ClientIDs, BlockEnds(id) PROVE LimiterType'
  <2>1. sentenced' \subseteq ClientIDs
    BY <1>2 DEF BlockEnds, LimiterType
  <2>2. CASE Known(id) /\ InForce(clients[id])
    <3>1. [clients[id] EXCEPT !.block = "over"] \in Entries
      BY <2>2 DEF Known, LimiterType, Entries
    <3> QED
      BY <1>2, <2>1, <2>2, <3>1, PutType DEF BlockEnds
  <2>3. CASE ~(Known(id) /\ InForce(clients[id]))
    BY <1>2, <2>1, <2>3 DEF BlockEnds, LimiterType
  <2> QED
    BY <2>2, <2>3
<1>3. ASSUME NEW id \in ClientIDs, FallsSilent(id) PROVE LimiterType'
  <2>1. [clients[id] EXCEPT !.silent = TRUE] \in Entries
    BY <1>3 DEF FallsSilent, Known, LimiterType, Entries
  <2> QED
    BY <1>3, <2>1, PutType DEF FallsSilent, LimiterType
<1> QED
  BY <1>1, <1>2, <1>3

-----------------------------------------------------------------------------
(* Types of the validator *)

\* Who is where: what a connection has given by the time it has got to a place.
ConnType ==
  /\ owner \in {"middleware", "validator", "nobody"}
  /\ place \in [Conns -> {"idle", "upgrading", "entered", "refused", "open", "gone"}]
  /\ who \in [Conns -> ClientIDs \cup {NoID}]
  /\ from \in [Conns -> IPs \cup {NoIP}]
  /\ remote \in [Conns -> IPs \cup {NoIP}]
  /\ DOMAIN connections \subseteq ClientIDs
  /\ \A id \in DOMAIN connections : connections[id] \in Conns
  /\ quiet \subseteq Conns
  /\ \A k \in Conns : place[k] \in {"idle", "upgrading"} <=> who[k] = NoID
  /\ \A k \in Conns : place[k] # "idle" => from[k] \in IPs

HistoryType == collided \in BOOLEAN /\ roamed \in BOOLEAN

Types == LimiterType /\ ConnType /\ HistoryType /\ RequestTypeOK

LEMMA TypesImply == Types => TypeOK
  BY DEF Types, LimiterType, ConnType, HistoryType, TypeOK

LEMMA TypesInit == Init => Types
<1> SUFFICES ASSUME Init PROVE Types
  OBVIOUS
<1>1. LimiterType
  BY DEF Init, LimiterInit, LimiterType
<1>2. ConnType
  BY GateAssumption DEF GateAssumption, Init, ConnType
<1>3. HistoryType
  BY DEF Init, HistoryType
<1>4. RequestTypeOK
  BY DEF Init, RequestInit, RequestTypeOK, RequestType, NoRequest
<1> QED
  BY <1>1, <1>2, <1>3, <1>4 DEF Types

LEMMA LimiterStepType ==
  ASSUME LimiterType, ConnType, [Next]_vars
  PROVE  LimiterType'
<1>1. ASSUME NEW id \in ClientIDs, NEW ip \in IPs, HTTPRequest(id, ip) PROVE LimiterType'
  BY <1>1, RequestsKeepType DEF HTTPRequest
<1>2. ASSUME NEW k \in Conns, NEW id \in ClientIDs, NEW ip \in IPs, WebSocketBegins(k, id, ip)
      PROVE  LimiterType'
  BY <1>2, ConnectionsKeepType DEF WebSocketBegins
<1>3. ASSUME NEW k \in Conns, WebSocketEnds(k) PROVE LimiterType'
  BY <1>3, ConnectionsKeepType DEF WebSocketEnds
<1>4. CASE Administration
  BY <1>4, AdministrationKeepsType DEF Administration
<1>5. ASSUME NEW k \in Conns, Accepted(k) PROVE LimiterType'
  <2>1. who[k] \in ClientIDs /\ from[k] \in IPs
    BY <1>5 DEF Accepted, Move, ConnType
  <2> QED
    BY <1>5, <2>1, ConnectionsKeepType DEF Accepted
<1>6. ASSUME NEW k \in Conns, Removed(k) PROVE LimiterType'
  BY <1>6, ConnectionsKeepType, LimiterSame DEF Removed
<1>7. ASSUME NEW k \in Conns, MessageRefused(k) PROVE LimiterType'
  BY <1>7, MessageKeepsType DEF MessageRefused
<1>8. CASE LimiterStep
  BY <1>8, TimeKeepsType DEF LimiterStep
<1>9. ASSUME NEW k \in Conns, NEW ip \in IPs, NEW addr \in IPs, ValidateUpgrade(k, ip, addr)
      PROVE  LimiterType'
  BY <1>9, LimiterSame DEF ValidateUpgrade
<1>10. ASSUME NEW k \in Conns, NEW id \in ClientIDs, Entered(k, id) PROVE LimiterType'
  BY <1>10, LimiterSame DEF Entered
<1>11. ASSUME NEW k \in Conns, Refused(k) \/ MessageAccepted(k) \/ PingPong(k) \/ Ends(k) \/ FallsQuiet(k)
       PROVE  LimiterType'
  BY <1>11, LimiterSame DEF Refused, MessageAccepted, PingPong, Heard, Ends, FallsQuiet
<1>12. CASE CleanupConnections \/ UNCHANGED <<limiterVars, owner, connVars>> \/ UNCHANGED vars
  BY <1>12, LimiterSame DEF CleanupConnections, vars
<1> QED
  BY <1>1, <1>2, <1>3, <1>4, <1>5, <1>6, <1>7, <1>8, <1>9, <1>10, <1>11, <1>12
  DEF Next, ConnectionStep

LEMMA ConnStepType ==
  ASSUME ConnType, [Next]_vars
  PROVE  ConnType'
<1> USE GateAssumption DEF GateAssumption, ConnType, Move
<1>1. ASSUME NEW id \in ClientIDs, NEW ip \in IPs, HTTPRequest(id, ip) PROVE ConnType'
  BY <1>1 DEF HTTPRequest, connVars
<1>2. ASSUME NEW k \in Conns, NEW id \in ClientIDs, NEW ip \in IPs, WebSocketBegins(k, id, ip)
      PROVE  ConnType'
  BY <1>2 DEF WebSocketBegins
<1>3. ASSUME NEW k \in Conns, WebSocketEnds(k) PROVE ConnType'
  BY <1>3 DEF WebSocketEnds
<1>4. CASE Administration \/ LimiterStep
  BY <1>4 DEF Administration, LimiterStep, connVars
<1>5. ASSUME NEW k \in Conns, NEW ip \in IPs, NEW addr \in IPs, ValidateUpgrade(k, ip, addr)
      PROVE  ConnType'
  BY <1>5 DEF ValidateUpgrade
<1>6. ASSUME NEW k \in Conns, NEW id \in ClientIDs, Entered(k, id) PROVE ConnType'
  BY <1>6 DEF Entered
<1>7. ASSUME NEW k \in Conns, Accepted(k) PROVE ConnType'
  BY <1>7 DEF Accepted
<1>8. ASSUME NEW k \in Conns, Refused(k) PROVE ConnType'
  BY <1>8 DEF Refused
<1>9. ASSUME NEW k \in Conns, Removed(k) PROVE ConnType'
  BY <1>9 DEF Removed
<1>10. ASSUME NEW k \in Conns, MessageRefused(k) PROVE ConnType'
  BY <1>10 DEF MessageRefused, connVars
<1>11. ASSUME NEW k \in Conns, MessageAccepted(k) \/ PingPong(k) PROVE ConnType'
  BY <1>11 DEF MessageAccepted, PingPong, Heard
<1>12. ASSUME NEW k \in Conns, Ends(k) \/ FallsQuiet(k) PROVE ConnType'
  BY <1>12 DEF Ends, FallsQuiet
<1>13. CASE CleanupConnections
  BY <1>13 DEF CleanupConnections
<1>14. CASE UNCHANGED <<limiterVars, owner, connVars>> \/ UNCHANGED vars
  BY <1>14 DEF vars, connVars
<1> QED
  BY <1>1, <1>2, <1>3, <1>4, <1>5, <1>6, <1>7, <1>8, <1>9, <1>10, <1>11, <1>12, <1>13, <1>14
  DEF Next, ConnectionStep

LEMMA HistoryStepType == HistoryType /\ [Next]_vars => HistoryType'
<1> SUFFICES ASSUME HistoryType, [Next]_vars PROVE HistoryType'
  OBVIOUS
<1>1. \/ collided' = collided
      \/ \E k \in Conns, id \in ClientIDs : collided' = (collided \/ \E j \in Conns : who[j] = id)
  <2>1. ASSUME NEW k \in Conns, NEW id \in ClientIDs, Entered(k, id)
        PROVE  collided' = (collided \/ \E j \in Conns : who[j] = id)
    BY <2>1 DEF Entered
  <2> QED
    BY <2>1 DEF Next, ConnectionStep, vars, connVars, HTTPRequest, WebSocketBegins,
       WebSocketEnds, Administration, ValidateUpgrade, Accepted, Refused, Removed,
       MessageRefused, MessageAccepted, PingPong, Heard, Ends, FallsQuiet, CleanupConnections,
       LimiterStep
<1>2. \/ roamed' = roamed
      \/ \E id \in ClientIDs, ip \in IPs : roamed' = (roamed \/ Roams(id, ip))
      \/ \E k \in Conns : roamed' = (roamed \/ Roams(who[k], from[k]))
  BY DEF Next, ConnectionStep, vars, connVars, HTTPRequest, WebSocketBegins,
     WebSocketEnds, Administration, ValidateUpgrade, Entered, Accepted, Refused, Removed,
     MessageRefused, MessageAccepted, PingPong, Heard, Ends, FallsQuiet, CleanupConnections,
     LimiterStep
<1> QED
  BY <1>1, <1>2 DEF HistoryType

-----------------------------------------------------------------------------
(* The request in the RequestValidator *)

LEMMA BodyAnswer == ValidateRequestBody(request) \in {"ok", "too large", "bad JSON"}
  BY DEF ValidateRequestBody

\* Again the provers take the truth values one kind at a time.
RequestShape ==
  /\ request \in RequestType
  /\ serving \in {"idle", "head", "body", "handler", "done"}
  /\ wrapper \in {"idle", "waiting", "returned"}
  /\ status \in {"none", "bad head", "too large", "bad JSON", "unreadable",
                 "handled", "timeout"}

LEMMA RequestStepType ==
  ASSUME RequestTypeOK, RequestNext
  PROVE  RequestTypeOK'
<1>1. strict' \in BOOLEAN
  BY DEF RequestTypeOK, RequestNext, RequestArrives, HeadChecked, BodyChecked, HandlerStep,
     Served, TimesOut, RequestOver
<1>2. RequestShape
  BY DEF RequestTypeOK, RequestShape
<1>3. ASSUME NEW r \in Incoming, RequestArrives(r) PROVE RequestShape'
  BY <1>2, <1>3, RequestAssumption DEF RequestAssumption, RequestArrives, RequestShape
<1>4. ASSUME HeadChecked PROVE RequestShape'
  BY <1>2, <1>4 DEF HeadChecked, Reply, RequestShape
<1>5. ASSUME BodyChecked PROVE RequestShape'
  BY <1>2, <1>5, BodyAnswer DEF BodyChecked, Reply, RequestShape
<1>6. ASSUME HandlerStep \/ Served \/ TimesOut PROVE RequestShape'
  BY <1>2, <1>6 DEF HandlerStep, Served, TimesOut, Reply, RequestShape
<1>7. ASSUME RequestOver PROVE RequestShape'
  <2>1. NoRequest \in RequestType
    BY DEF RequestType, NoRequest
  <2> QED
    BY <1>7, <2>1 DEF RequestOver, RequestShape
<1>8. RequestShape'
  BY <1>3, <1>4, <1>5, <1>6, <1>7 DEF RequestNext
<1> QED
  BY <1>1, <1>8 DEF RequestTypeOK, RequestShape

LEMMA RequestsOrNot ==
  ASSUME [Next]_vars
  PROVE  RequestNext \/ UNCHANGED requestVars
  BY DEF Next, RequestStep, vars

LEMMA TypesStep == Types /\ [Next]_vars => Types'
<1> SUFFICES ASSUME Types, [Next]_vars PROVE Types'
  OBVIOUS
<1>1. LimiterType' /\ ConnType' /\ HistoryType'
  BY LimiterStepType, ConnStepType, HistoryStepType DEF Types
<1>2. RequestTypeOK'
  <2>1. CASE UNCHANGED requestVars
    BY <2>1 DEF Types, RequestTypeOK, requestVars
  <2> QED
    BY <2>1, RequestsOrNot, RequestStepType DEF Types
<1> QED
  BY <1>1, <1>2 DEF Types

LEMMA Typed == Spec => []Types
  BY TypesInit, TypesStep, PTL DEF Spec

\* The type invariant: no entry's count of connections is ever negative, and the
\* values are the ones the code's types and constants allow.
THEOREM GateTyping == Spec => []TypeOK
  BY Typed, TypesImply, PTL

\* A handler runs only after every check has passed, and status is then what the
\* handler or the timer has written.
NotRefused ==
  /\ serving \in {"head", "body", "handler"} => status \in {"none", "handled", "timeout"}
  /\ serving = "handler" => ReadAll(request.body) = request.body

LEMMA ReadWhole ==
  ASSUME NEW r \in RequestType, ~TooLarge(ReadAll(r.body))
  PROVE  ReadAll(r.body) = r.body
<1>1. r.body \in Seq(Bytes) /\ MaxBodySize \in Nat /\ MaxBodySize # 0
  BY RequestAssumption DEF RequestAssumption, RequestType
<1>2. Len(r.body) < MaxBodySize
  <2>1. SUFFICES ASSUME Len(r.body) >= MaxBodySize PROVE FALSE
    BY <1>1
  <2>2. ReadAll(r.body) = SubSeq(r.body, 1, MaxBodySize)
    BY <1>1, <2>1 DEF ReadAll
  <2>3. Len(SubSeq(r.body, 1, MaxBodySize)) = MaxBodySize
    BY <1>1, <2>1
  <2> QED
    BY <1>1, <2>2, <2>3 DEF TooLarge
<1>3. ReadAll(r.body) = SubSeq(r.body, 1, Len(r.body))
  BY <1>2 DEF ReadAll
<1> QED
  BY <1>1, <1>3

LEMMA NotRefusedStep == RequestTypeOK /\ NotRefused /\ [Next]_vars => NotRefused'
<1> SUFFICES ASSUME RequestTypeOK, NotRefused, [Next]_vars PROVE NotRefused'
  OBVIOUS
<1> USE DEF NotRefused
<1>1. CASE UNCHANGED requestVars
  BY <1>1 DEF requestVars
<1>2. ASSUME NEW r \in Incoming, RequestArrives(r) PROVE NotRefused'
  BY <1>2 DEF RequestArrives
<1>3. CASE HeadChecked
  BY <1>3 DEF HeadChecked
<1>4. CASE BodyChecked
  <2>1. serving' = "handler" => ~TooLarge(ReadAll(request.body))
    BY <1>4 DEF BodyChecked, ValidateRequestBody
  <2>2. request' = request /\ request \in RequestType
    BY <1>4 DEF BodyChecked, RequestTypeOK
  <2>3. serving' \in {"handler", "done"} /\ (serving' = "handler" => status' = status)
    BY <1>4 DEF BodyChecked
  <2>4. serving = "body"
    BY <1>4 DEF BodyChecked
  <2> QED
    BY <2>1, <2>2, <2>3, <2>4, ReadWhole
<1>5. CASE HandlerStep \/ Served \/ TimesOut
  BY <1>5 DEF HandlerStep, Served, TimesOut, Reply
<1>6. CASE RequestOver
  BY <1>6 DEF RequestOver
<1> QED
  BY <1>1, <1>2, <1>3, <1>4, <1>5, <1>6, RequestsOrNot DEF RequestNext

\* What reaches a handler has been judged in full and has not been refused,
\* whatever the limits and the requests.
THEOREM HandledOnlyIfPassed == Spec => [](JudgedWhole /\ RefusedIsNotHandled)
<1>1. Init => NotRefused
  BY DEF Init, RequestInit, NotRefused
<1>2. Types => RequestTypeOK
  BY DEF Types
<1>3. NotRefused => JudgedWhole /\ RefusedIsNotHandled
  BY DEF NotRefused, JudgedWhole, RefusedIsNotHandled
<1> QED
  BY <1>1, <1>2, <1>3, NotRefusedStep, Typed, PTL DEF Spec

\* A client that has been told of a refusal by any check does not have its request
\* handled.
COROLLARY RefusedAreNotHandled == Spec => []RefusedIsNotHandled
  BY HandledOnlyIfPassed, PTL

-----------------------------------------------------------------------------
(* What the limiter charges *)

LEMMA ChargeOfPut ==
  ASSUME NEW id, NEW e, Put(id, e), NEW j
  PROVE  Charge(j)' = IF j = id THEN e.connections ELSE Charge(j)
  BY DEF Put, Charge, Known

LEMMA ChargeIsNat == ASSUME LimiterType, NEW id PROVE Charge(id) \in Nat
  BY DEF LimiterType, Charge, Known, Entries

LEMMA SeenCharge ==
  ASSUME LimiterType, NEW id, NEW ip, id \in ClientIDs, ip \in IPs
  PROVE  Seen(id, ip).connections = Charge(id) /\ Seen(id, ip) \in Entries
<1>1. EntryOf(id, ip).connections = Charge(id)
  BY DEF EntryOf, Charge, NewEntry
<1>2. EntryOf(id, ip) \in Entries
  BY EntryOfType
<1> QED
  BY <1>1, <1>2, EntryOfType DEF Seen, Entries

LEMMA OtherFields ==
  ASSUME NEW e \in Entries, NEW b
  PROVE  /\ [e EXCEPT !.block = b].connections = e.connections
         /\ OneMoreViolation(e).connections = e.connections
         /\ [e EXCEPT !.silent = TRUE].connections = e.connections
  BY DEF Entries, OneMoreViolation

LEMMA RequestsChargeNothing ==
  ASSUME LimiterType, NEW id \in ClientIDs, NEW ip \in IPs, NEW j,
         RequestPasses(id, ip) \/ RequestBlocked(id, ip) \/ RequestOverRate(id, ip)
  PROVE  Charge(j)' = Charge(j)
<1> DEFINE e == Unblocked(Seen(id, ip))
           v == OneMoreViolation(e)
<1>1. Seen(id, ip).connections = Charge(id) /\ Seen(id, ip) \in Entries
  BY SeenCharge
<1>2. e.connections = Charge(id) /\ e \in Entries
  BY <1>1, OtherFields, BlockType DEF Unblocked
<1>3. v.connections = Charge(id) /\ v \in Entries
  BY <1>2, OtherFields, ViolationType
<1>4. [v EXCEPT !.block = "auto"].connections = Charge(id)
  BY <1>3, OtherFields
<1>5. \E x : Put(id, x) /\ x.connections = Charge(id)
  BY <1>1, <1>2, <1>3, <1>4 DEF RequestPasses, RequestBlocked, RequestOverRate
<1> QED
  BY <1>5, ChargeOfPut

LEMMA AddCharges ==
  ASSUME LimiterType, NEW id, NEW ip, id \in ClientIDs, ip \in IPs, AddConnection(id, ip), NEW j
  PROVE  Charge(j)' = IF j = id THEN Charge(j) + 1 ELSE Charge(j)
<1> DEFINE e == [Seen(id, ip) EXCEPT !.connections = @ + 1]
<1>1. e.connections = Charge(id) + 1
  BY SeenCharge DEF Entries
<1>2. Put(id, e)
  BY DEF AddConnection
<1> HIDE DEF e
<1> QED
  BY <1>1, <1>2, ChargeOfPut

LEMMA RemoveCharges ==
  ASSUME LimiterType, NEW id, RemoveConnection(id), NEW j
  PROVE  Charge(j)' = IF j = id /\ Charge(j) # 0 THEN Charge(j) - 1 ELSE Charge(j)
<1>1. CASE Known(id)
  <2> DEFINE e == [clients[id] EXCEPT !.connections = IF @ = 0 THEN 0 ELSE @ - 1,
                                      !.silent = FALSE]
  <2>1. clients[id] \in Entries /\ Charge(id) = clients[id].connections
    BY <1>1 DEF Known, LimiterType, Charge
  <2>2. e.connections = IF Charge(id) = 0 THEN 0 ELSE Charge(id) - 1
    BY <2>1 DEF Entries
  <2>3. Put(id, e)
    BY <1>1 DEF RemoveConnection
  <2> HIDE DEF e
  <2> QED
    BY <2>2, <2>3, ChargeOfPut
<1>2. CASE ~Known(id)
  BY <1>2 DEF RemoveConnection, Charge, Known
<1> QED
  BY <1>1, <1>2

LEMMA MessagesChargeNothing ==
  ASSUME LimiterType, NEW id, NEW j,
         MessageOverRate(id) \/ BlockClient(id) \/ UnblockClient(id) \/ BlockEnds(id)
           \/ FallsSilent(id)
  PROVE  Charge(j)' = Charge(j)
<1>1. CASE Known(id)
  <2>1. clients[id] \in Entries /\ Charge(id) = clients[id].connections
    BY <1>1 DEF Known, LimiterType, Charge
  <2>2. (\E x : Put(id, x) /\ x.connections = Charge(id)) \/ UNCHANGED clients
    <3>1. CASE MessageOverRate(id)
      BY <2>1, <3>1, OtherFields DEF MessageOverRate
    <3>2. /\ [clients[id] EXCEPT !.block = "manual"].connections = Charge(id)
          /\ [clients[id] EXCEPT !.block = "none"].connections = Charge(id)
          /\ [clients[id] EXCEPT !.block = "over"].connections = Charge(id)
      BY <2>1, OtherFields
    <3>3. CASE BlockClient(id) \/ UnblockClient(id) \/ BlockEnds(id)
      BY <3>2, <3>3 DEF BlockClient, UnblockClient, BlockEnds
    <3>4. CASE FallsSilent(id)
      BY <2>1, <3>4, OtherFields DEF FallsSilent
    <3> QED
      BY <3>1, <3>2, <3>3, <3>4
  <2> QED
    BY <2>2, ChargeOfPut DEF Charge, Known
<1>2. CASE ~Known(id)
  BY <1>2 DEF MessageOverRate, MayMessage, BlockClient, UnblockClient, BlockEnds, FallsSilent,
     Charge, Known
<1> QED
  BY <1>1, <1>2

LEMMA CleanupChargesNothing ==
  ASSUME LimiterType, Cleanup, NEW j
  PROVE  Charge(j)' = Charge(j)
  BY DEF Cleanup, Keep, Charge, Known

-----------------------------------------------------------------------------
(* The connections that are counted *)

\* The limiter counts the connections that are open and, as nobody tells it of
\* their end, those of a validator that are gone.
CountedUnder(id) == {k \in Conns : place[k] \in {"open", "gone"} /\ who[k] = id}

CountsMatch ==
  ~collided => \A id \in ClientIDs : Charge(id) = Cardinality(CountedUnder(id))

CountedIsKnown ==
  ~collided => \A k \in Conns : place[k] \in {"open", "gone"} => Known(who[k])

\* Only a validator's connections are ever gone.
GoneOfValidator == \A k \in Conns : place[k] = "gone" => owner = "validator"

LEMMA GoneStep == ConnType /\ GoneOfValidator /\ [Next]_vars => GoneOfValidator'
<1> SUFFICES ASSUME ConnType, GoneOfValidator, [Next]_vars PROVE GoneOfValidator'
  OBVIOUS
<1>1. \/ owner' = owner
      \/ owner # "validator" /\ UNCHANGED place
  BY DEF Next, ConnectionStep, vars, connVars, HTTPRequest, WebSocketBegins,
     WebSocketEnds, Administration, ValidateUpgrade, Entered, Accepted, Refused, Removed,
     MessageRefused, MessageAccepted, PingPong, Heard, Ends, FallsQuiet, CleanupConnections,
     LimiterStep
<1>2. \A k \in Conns : place'[k] = "gone" => place[k] = "gone" \/ owner = "validator"
  BY DEF Next, ConnectionStep, vars, connVars, HTTPRequest, WebSocketBegins,
     WebSocketEnds, Administration, ValidateUpgrade, Entered, Accepted, Refused, Removed,
     MessageRefused, MessageAccepted, PingPong, Heard, Ends, FallsQuiet, CleanupConnections,
     LimiterStep, Move, ConnType
<1> QED
  BY <1>1, <1>2 DEF GoneOfValidator

LEMMA CountedFinite ==
  ASSUME NEW id
  PROVE  IsFiniteSet(CountedUnder(id)) /\ Cardinality(CountedUnder(id)) \in Nat
<1>1. CountedUnder(id) \subseteq Conns
  BY DEF CountedUnder
<1>2. IsFiniteSet(CountedUnder(id))
  BY <1>1, FS_Subset, GateAssumption DEF GateAssumption
<1> QED
  BY <1>2, FS_CardinalityType

LEMMA Opens ==
  ASSUME ConnType, NEW k \in Conns, NEW id, place[k] \notin {"open", "gone"}, who' [k] = id,
         place' = [place EXCEPT ![k] = "open"],
         \A j \in Conns \ {k} : who'[j] = who[j],
         NEW j
  PROVE  Cardinality(CountedUnder(j))'
           = IF j = id THEN Cardinality(CountedUnder(j)) + 1 ELSE Cardinality(CountedUnder(j))
<1>1. CountedUnder(j)' = IF j = id THEN CountedUnder(j) \cup {k} ELSE CountedUnder(j)
  BY DEF CountedUnder, ConnType
<1>2. k \notin CountedUnder(j)
  BY DEF CountedUnder
<1>3. Cardinality(CountedUnder(j) \cup {k}) = Cardinality(CountedUnder(j)) + 1
  BY <1>2, CountedFinite, FS_AddElement
<1> QED
  BY <1>1, <1>3

LEMMA Closes ==
  ASSUME ConnType, NEW k \in Conns, place[k] \in {"open", "gone"},
         place' = [place EXCEPT ![k] = "idle"],
         \A j \in Conns \ {k} : who'[j] = who[j],
         NEW j
  PROVE  Cardinality(CountedUnder(j))'
           = IF j = who[k] THEN Cardinality(CountedUnder(j)) - 1 ELSE Cardinality(CountedUnder(j))
<1>1. CountedUnder(j)' = IF j = who[k] THEN CountedUnder(j) \ {k} ELSE CountedUnder(j)
  BY DEF CountedUnder, ConnType
<1>2. j = who[k] => k \in CountedUnder(j)
  BY DEF CountedUnder
<1>3. j = who[k] => Cardinality(CountedUnder(j) \ {k}) = Cardinality(CountedUnder(j)) - 1
  BY <1>2, CountedFinite, FS_RemoveElement
<1> QED
  BY <1>1, <1>3

LEMMA StayCounted ==
  ASSUME NEW j,
         \A k \in Conns : place[k] \in {"open", "gone"} <=> place'[k] \in {"open", "gone"},
         \A k \in Conns : place[k] \in {"open", "gone"} => who'[k] = who[k]
  PROVE  CountedUnder(j)' = CountedUnder(j)
  BY DEF CountedUnder
-----------------------------------------------------------------------------
(* The charges match *)

\* As long as the clock gives no ID twice, no two connections of a validator
\* share one.
Distinct ==
  owner = "validator" /\ ~collided =>
    \A j, k \in Conns : who[j] = who[k] /\ who[j] # NoID => j = k

LEMMA DistinctStep == ConnType /\ Distinct /\ [Next]_vars => Distinct'
<1> SUFFICES ASSUME ConnType, Distinct, [Next]_vars PROVE Distinct'
  OBVIOUS
<1> USE DEF Distinct
<1>1. ASSUME NEW k \in Conns, NEW id \in ClientIDs, Entered(k, id) PROVE Distinct'
  <2>1. /\ who' = [who EXCEPT ![k] = id] /\ owner' = owner
        /\ collided' = (collided \/ \E j \in Conns : who[j] = id)
    BY <1>1 DEF Entered
  <2>2. SUFFICES ASSUME owner' = "validator", ~collided', NEW i \in Conns, NEW j \in Conns,
                        who'[i] = who'[j], who'[i] # NoID
                 PROVE  i = j
    OBVIOUS
  <2>3. ~collided /\ \A h \in Conns : who[h] # id
    BY <2>1, <2>2
  <2>4. \A h \in Conns : who'[h] = IF h = k THEN id ELSE who[h]
    BY <2>1 DEF ConnType
  <2> QED
    BY <2>1, <2>2, <2>3, <2>4
<1>2. ASSUME NEW k \in Conns, WebSocketEnds(k) \/ Removed(k) PROVE Distinct'
  <2>1. who' = [who EXCEPT ![k] = NoID] /\ owner' = owner /\ collided' = collided
    BY <1>2 DEF WebSocketEnds, Removed
  <2>2. \A h \in Conns : who'[h] = IF h = k THEN NoID ELSE who[h]
    BY <2>1 DEF ConnType
  <2> QED
    BY <2>1, <2>2
<1>3. ASSUME NEW k \in Conns, NEW id \in ClientIDs, NEW ip \in IPs, WebSocketBegins(k, id, ip)
      PROVE  Distinct'
  BY <1>3 DEF WebSocketBegins
<1>4. ASSUME NEW k \in Conns, NEW ip \in IPs, NEW addr \in IPs, ValidateUpgrade(k, ip, addr)
      PROVE  Distinct'
  BY <1>4 DEF ValidateUpgrade
<1>5. ASSUME NEW k \in Conns, \/ Accepted(k) \/ Refused(k) \/ MessageRefused(k)
                              \/ MessageAccepted(k) \/ PingPong(k) \/ Ends(k) \/ FallsQuiet(k)
      PROVE  Distinct'
  BY <1>5 DEF Accepted, Refused, MessageRefused, MessageAccepted, PingPong, Heard, Ends, FallsQuiet,
     connVars
<1>6. ASSUME NEW id \in ClientIDs, NEW ip \in IPs, HTTPRequest(id, ip) PROVE Distinct'
  BY <1>6 DEF HTTPRequest, connVars
<1>7. CASE Administration \/ CleanupConnections \/ LimiterStep
  BY <1>7 DEF Administration, CleanupConnections, LimiterStep, connVars
<1>8. CASE UNCHANGED <<limiterVars, owner, connVars>> \/ UNCHANGED vars
  BY <1>8 DEF vars, connVars
<1> QED
  BY <1>1, <1>2, <1>3, <1>4, <1>5, <1>6, <1>7, <1>8 DEF Next, ConnectionStep

LEMMA CountsStep == Types /\ Distinct /\ CountsMatch /\ [Next]_vars => CountsMatch'
<1> SUFFICES ASSUME LimiterType, ConnType, Distinct, CountsMatch, [Next]_vars,
                    ~collided', NEW j \in ClientIDs
             PROVE  Charge(j)' = Cardinality(CountedUnder(j))'
  BY DEF Types, CountsMatch
<1> DEFINE Goal == Charge(j)' = Cardinality(CountedUnder(j))'
<1>1. ASSUME NEW k \in Conns, NEW id \in ClientIDs, Entered(k, id) PROVE ~collided
  BY <1>1 DEF Entered
<1>2. ~collided
  <2>1. collided' = collided \/ \E k \in Conns, id \in ClientIDs : Entered(k, id)
    BY DEF Next, ConnectionStep, vars, connVars, HTTPRequest, WebSocketBegins,
       WebSocketEnds, Administration, ValidateUpgrade, Accepted, Refused, Removed,
       MessageRefused, MessageAccepted, PingPong, Heard, Ends, FallsQuiet, CleanupConnections,
       LimiterStep
  <2> QED
    BY <1>1, <2>1
<1>3. Charge(j) = Cardinality(CountedUnder(j)) /\ Charge(j) \in Nat
  BY <1>2, ChargeIsNat DEF CountsMatch
<1>4. ASSUME UNCHANGED <<place, who>> PROVE CountedUnder(j)' = CountedUnder(j)
  BY <1>4 DEF CountedUnder
<1>5. ASSUME UNCHANGED clients PROVE Charge(j)' = Charge(j)
  BY <1>5 DEF Charge, Known
<1>6. ASSUME NEW id \in ClientIDs, NEW ip \in IPs, HTTPRequest(id, ip) PROVE Goal
  <2>1. Charge(j)' = Charge(j)
    BY <1>6, RequestsChargeNothing DEF HTTPRequest
  <2> QED
    BY <1>3, <1>4, <1>6, <2>1 DEF HTTPRequest, connVars
<1>7. ASSUME NEW k \in Conns, NEW id \in ClientIDs, NEW ip \in IPs, WebSocketBegins(k, id, ip)
      PROVE  Goal
  <2>1. Charge(j)' = IF j = id THEN Charge(j) + 1 ELSE Charge(j)
    BY <1>7, AddCharges DEF WebSocketBegins
  <2>2. /\ place[k] \notin {"open", "gone"} /\ place' = [place EXCEPT ![k] = "open"]
        /\ who'[k] = id /\ \A h \in Conns \ {k} : who'[h] = who[h]
    BY <1>7 DEF WebSocketBegins, Move, ConnType
  <2>3. Cardinality(CountedUnder(j))'
           = IF j = id THEN Cardinality(CountedUnder(j)) + 1 ELSE Cardinality(CountedUnder(j))
    BY <2>2, Opens
  <2> QED
    BY <1>3, <2>1, <2>3
<1>8. ASSUME NEW k \in Conns, WebSocketEnds(k) PROVE Goal
  <2>1. Charge(j)' = IF j = who[k] /\ Charge(j) # 0 THEN Charge(j) - 1 ELSE Charge(j)
    BY <1>8, RemoveCharges DEF WebSocketEnds
  <2>2. /\ place[k] \in {"open", "gone"} /\ place' = [place EXCEPT ![k] = "idle"]
        /\ \A h \in Conns \ {k} : who'[h] = who[h]
    BY <1>8 DEF WebSocketEnds, Move, ConnType
  <2>3. Cardinality(CountedUnder(j))'
           = IF j = who[k] THEN Cardinality(CountedUnder(j)) - 1 ELSE Cardinality(CountedUnder(j))
    BY <2>2, Closes
  <2>4. j = who[k] => Cardinality(CountedUnder(j)) # 0
    <3>1. k \in CountedUnder(who[k])
      BY <2>2 DEF CountedUnder
    <3> QED
      BY <3>1, CountedFinite, FS_EmptySet
  <2> QED
    BY <1>3, <2>1, <2>3, <2>4
<1>9. ASSUME NEW k \in Conns, Accepted(k) PROVE Goal
  <2>1. who[k] \in ClientIDs /\ from[k] \in IPs
    BY <1>9 DEF Accepted, Move, ConnType
  <2>2. Charge(j)' = IF j = who[k] THEN Charge(j) + 1 ELSE Charge(j)
    BY <1>9, <2>1, AddCharges DEF Accepted
  <2>3. /\ place[k] \notin {"open", "gone"} /\ place' = [place EXCEPT ![k] = "open"] /\ who' = who
    BY <1>9 DEF Accepted, Move
  <2>4. Cardinality(CountedUnder(j))'
           = IF j = who[k] THEN Cardinality(CountedUnder(j)) + 1 ELSE Cardinality(CountedUnder(j))
    BY <2>3, Opens
  <2> QED
    BY <1>3, <2>2, <2>4
<1>10. ASSUME NEW k \in Conns, Removed(k) PROVE Goal
  <2>1. /\ owner = "validator" /\ place[k] = "refused" /\ who[k] # NoID
        /\ place' = [place EXCEPT ![k] = "idle"] /\ who' = [who EXCEPT ![k] = NoID]
    BY <1>10 DEF Removed, Move, ConnType
  <2>2. CountedUnder(j)' = CountedUnder(j)
    BY <2>1, StayCounted DEF ConnType
  <2>3. CountedUnder(who[k]) = {}
    BY <1>2, <2>1 DEF Distinct, CountedUnder
  <2>4. j = who[k] => Charge(j) = 0
    BY <1>3, <2>3, FS_EmptySet
  <2>5. Charge(j)' = Charge(j)
    <3>1. CASE who[k] \in DOMAIN connections
      BY <1>10, <2>4, <3>1, RemoveCharges DEF Removed
    <3>2. CASE who[k] \notin DOMAIN connections
      BY <1>5, <1>10, <3>2 DEF Removed, limiterVars
    <3> QED
      BY <3>1, <3>2
  <2> QED
    BY <1>3, <2>2, <2>5
<1>11. ASSUME NEW k \in Conns, NEW ip \in IPs, NEW addr \in IPs, ValidateUpgrade(k, ip, addr)
       PROVE  Goal
  <2>1. CountedUnder(j)' = CountedUnder(j)
    BY <1>11, StayCounted DEF ValidateUpgrade, Move, ConnType
  <2> QED
    BY <1>3, <1>5, <1>11, <2>1 DEF ValidateUpgrade, limiterVars
<1>12. ASSUME NEW k \in Conns, NEW id \in ClientIDs, Entered(k, id) PROVE Goal
  <2>1. CountedUnder(j)' = CountedUnder(j)
    BY <1>12, StayCounted DEF Entered, Move, ConnType
  <2> QED
    BY <1>3, <1>5, <1>12, <2>1 DEF Entered, limiterVars
<1>13. ASSUME NEW k \in Conns, Refused(k) PROVE Goal
  <2>1. CountedUnder(j)' = CountedUnder(j)
    BY <1>13, StayCounted DEF Refused, Move, ConnType
  <2> QED
    BY <1>3, <1>5, <1>13, <2>1 DEF Refused, limiterVars
<1>14. ASSUME NEW k \in Conns, MessageRefused(k) PROVE Goal
  <2>1. Charge(j)' = Charge(j)
    BY <1>14, MessagesChargeNothing DEF MessageRefused
  <2> QED
    BY <1>3, <1>4, <1>14, <2>1 DEF MessageRefused, connVars
<1>15. ASSUME NEW k \in Conns, MessageAccepted(k) \/ PingPong(k) \/ FallsQuiet(k) PROVE Goal
  BY <1>3, <1>4, <1>5, <1>15 DEF MessageAccepted, PingPong, Heard, FallsQuiet, limiterVars
<1>16. ASSUME NEW k \in Conns, Ends(k) PROVE Goal
  <2>1. CountedUnder(j)' = CountedUnder(j)
    BY <1>16, StayCounted DEF Ends, Move, ConnType
  <2> QED
    BY <1>3, <1>5, <1>16, <2>1 DEF Ends, limiterVars
<1>17. CASE Administration
  <2>1. Charge(j)' = Charge(j)
    BY <1>17, MessagesChargeNothing DEF Administration
  <2> QED
    BY <1>3, <1>4, <1>17, <2>1 DEF Administration, connVars
<1>18. CASE LimiterStep
  <2>1. Charge(j)' = Charge(j)
    BY <1>18, MessagesChargeNothing, CleanupChargesNothing DEF LimiterStep
  <2> QED
    BY <1>3, <1>4, <1>18, <2>1 DEF LimiterStep, connVars
<1>19. CASE CleanupConnections
  BY <1>3, <1>4, <1>5, <1>19 DEF CleanupConnections, limiterVars
<1>20. CASE UNCHANGED <<limiterVars, owner, connVars>> \/ UNCHANGED vars
  BY <1>3, <1>4, <1>5, <1>20 DEF vars, connVars, limiterVars
<1> QED
  BY <1>6, <1>7, <1>8, <1>9, <1>10, <1>11, <1>12, <1>13, <1>14, <1>15, <1>16, <1>17, <1>18,
     <1>19, <1>20 DEF Next, ConnectionStep

LEMMA CountedMeansKnown == Types /\ CountsMatch => CountedIsKnown
<1> SUFFICES ASSUME ConnType, CountsMatch, ~collided, NEW k \in Conns,
                    place[k] \in {"open", "gone"}
             PROVE  Known(who[k])
  BY DEF Types, CountedIsKnown
<1>1. k \in CountedUnder(who[k]) /\ who[k] \in ClientIDs
  BY DEF CountedUnder, ConnType
<1>2. Cardinality(CountedUnder(who[k])) # 0
  BY <1>1, CountedFinite, FS_EmptySet
<1> QED
  BY <1>1, <1>2 DEF CountsMatch, Charge

\* What the limiter charges an ID for is what has been accepted under it and not
\* taken off again.
LEMMA Counting == Spec => [](CountsMatch /\ CountedIsKnown)
<1>1. Init => Distinct
  BY DEF Init, Distinct
<1>2. Init => CountsMatch
  <2> SUFFICES ASSUME Init, NEW id \in ClientIDs PROVE Charge(id) = Cardinality(CountedUnder(id))
    BY DEF CountsMatch
  <2>1. Charge(id) = 0
    BY DEF Init, LimiterInit, Charge, Known
  <2>2. CountedUnder(id) = {}
    BY DEF Init, CountedUnder
  <2> QED
    BY <2>1, <2>2, FS_EmptySet
<1>3. Types /\ Distinct /\ [Next]_vars => Distinct'
  BY DistinctStep DEF Types
<1> QED
  BY <1>1, <1>2, <1>3, CountsStep, CountedMeansKnown, Typed, PTL DEF Spec

\* No charge is lost, for any number of connections, through every begin, end,
\* refusal and cleanup, until the clock gives an ID twice: an ID is charged for all
\* that is open under it and, behind the limiter's own middleware, for nothing else;
\* and the limiter knows every ID that has an open connection.  A validator's may be
\* charged for more, by as many as are gone.
THEOREM ChargesAreRight == Spec => [](ChargesMatch /\ OpenIsKnown)
<1>1. Init => GoneOfValidator
  BY DEF Init, GoneOfValidator
<1>2. Types /\ GoneOfValidator /\ [Next]_vars => GoneOfValidator'
  BY GoneStep DEF Types
<1>3. CountsMatch /\ GoneOfValidator => ChargesMatch
  <2> SUFFICES ASSUME CountsMatch, GoneOfValidator, ~collided, NEW id \in ClientIDs
               PROVE  /\ Charge(id) >= Cardinality(OpenUnder(id))
                      /\ owner = "middleware" => Charge(id) = Cardinality(OpenUnder(id))
    BY DEF ChargesMatch
  <2>1. Charge(id) = Cardinality(CountedUnder(id))
    BY DEF CountsMatch
  <2>2. OpenUnder(id) \subseteq CountedUnder(id)
    BY DEF OpenUnder, CountedUnder
  <2>3. Cardinality(OpenUnder(id)) <= Cardinality(CountedUnder(id))
        /\ Cardinality(OpenUnder(id)) \in Nat /\ Cardinality(CountedUnder(id)) \in Nat
    BY <2>2, CountedFinite, FS_Subset, FS_CardinalityType
  <2>4. owner = "middleware" => OpenUnder(id) = CountedUnder(id)
    BY DEF OpenUnder, CountedUnder, GoneOfValidator
  <2> QED
    BY <2>1, <2>3, <2>4
<1>4. CountedIsKnown => OpenIsKnown
  BY DEF CountedIsKnown, OpenIsKnown
<1> QED
  BY <1>1, <1>2, <1>3, <1>4, Counting, Typed, PTL DEF Spec

\* An ID with an open connection has an entry, so that no message of its fails for
\* an unknown client.
COROLLARY OpenAreKnown == Spec => []OpenIsKnown
  BY ChargesAreRight, PTL

-----------------------------------------------------------------------------
(* Blocks *)

\* What a step may do to the block of a client.
BlockStays(id) ==
  OnRecord(id) /\ id \in sentenced' =>
    OnRecord(id)' \/ (clients[id].silent /\ clients[id].connections = 0)

LEMMA PutKeepsBlock ==
  ASSUME NEW i, NEW e, Put(i, e), NEW id,
         id = i /\ OnRecord(id) /\ id \in sentenced' => InForce(e)
  PROVE  BlockStays(id)
  BY DEF BlockStays, Put, OnRecord, Known

LEMMA SameBlock ==
  ASSUME NEW e \in Entries, NEW n, NEW b \in BOOLEAN
  PROVE  /\ InForce(e) => InForce([e EXCEPT !.silent = b])
         /\ InForce(e) => InForce([e EXCEPT !.connections = n])
         /\ InForce(e) => InForce([e EXCEPT !.connections = n, !.silent = b])
         /\ InForce([e EXCEPT !.block = "manual"])
  BY DEF InForce, Entries

LEMMA SeenKeepsBlock ==
  ASSUME LimiterType, NEW i \in ClientIDs, NEW ip \in IPs, OnRecord(i)
  PROVE  InForce(EntryOf(i, ip)) /\ InForce(Seen(i, ip))
<1>1. EntryOf(i, ip) = clients[i] /\ InForce(clients[i])
  BY DEF EntryOf, OnRecord
<1>2. EntryOf(i, ip) \in Entries
  BY EntryOfType
<1> QED
  BY <1>1, <1>2, SameBlock DEF Seen

LEMMA RequestsKeepBlocks ==
  ASSUME LimiterType, NEW i \in ClientIDs, NEW ip \in IPs, NEW id,
         RequestPasses(i, ip) \/ RequestBlocked(i, ip) \/ RequestOverRate(i, ip)
  PROVE  BlockStays(id)
<1>1. CASE RequestBlocked(i, ip)
  BY <1>1, PutKeepsBlock, SeenKeepsBlock DEF RequestBlocked
<1>2. CASE RequestPasses(i, ip) \/ RequestOverRate(i, ip)
  <2>1. ~OnRecord(i)
    BY <1>2, SeenKeepsBlock DEF RequestPasses, RequestOverRate
  <2>2. \E e : Put(i, e)
    BY <1>2 DEF RequestPasses, RequestOverRate
  <2> QED
    BY <2>1, <2>2, PutKeepsBlock
<1> QED
  BY <1>1, <1>2

LEMMA ConnectionsKeepBlocks ==
  ASSUME LimiterType, NEW i, NEW ip, NEW id,
         (i \in ClientIDs /\ ip \in IPs /\ AddConnection(i, ip)) \/ RemoveConnection(i)
  PROVE  BlockStays(id)
<1>1. CASE i \in ClientIDs /\ ip \in IPs /\ AddConnection(i, ip)
  <2> DEFINE e == [Seen(i, ip) EXCEPT !.connections = @ + 1]
  <2>1. OnRecord(i) => InForce(e)
    BY <1>1, EntryOfType, SeenKeepsBlock, SameBlock
  <2>2. Put(i, e)
    BY <1>1 DEF AddConnection
  <2> HIDE DEF e
  <2> QED
    BY <2>1, <2>2, PutKeepsBlock
<1>2. CASE RemoveConnection(i) /\ Known(i)
  <2> DEFINE e == [clients[i] EXCEPT !.connections = IF @ = 0 THEN 0 ELSE @ - 1,
                                     !.silent = FALSE]
  <2>1. OnRecord(i) => InForce(e)
    <3>1. clients[i] \in Entries
      BY <1>2 DEF Known, LimiterType
    <3> QED
      BY <3>1, SameBlock DEF OnRecord
  <2>2. Put(i, e)
    BY <1>2 DEF RemoveConnection
  <2> HIDE DEF e
  <2> QED
    BY <2>1, <2>2, PutKeepsBlock
<1>3. CASE RemoveConnection(i) /\ ~Known(i)
  BY <1>3 DEF RemoveConnection, BlockStays, OnRecord, Known
<1> QED
  BY <1>1, <1>2, <1>3

LEMMA OthersKeepBlocks ==
  ASSUME LimiterType, NEW i, NEW id,
         MessageOverRate(i) \/ BlockClient(i) \/ UnblockClient(i) \/ BlockEnds(i)
           \/ FallsSilent(i) \/ Cleanup
  PROVE  BlockStays(id)
<1>1. CASE MessageOverRate(i)
  BY <1>1, PutKeepsBlock DEF MessageOverRate, MayMessage, OnRecord
<1>2. CASE BlockClient(i)
  <2>1. InForce([clients[i] EXCEPT !.block = "manual"])
    BY <1>2, SameBlock DEF BlockClient, Known, LimiterType
  <2> QED
    BY <1>2, <2>1, PutKeepsBlock DEF BlockClient
<1>3. CASE UnblockClient(i)
  BY <1>3, PutKeepsBlock DEF UnblockClient
<1>4. CASE BlockEnds(i)
  <2>1. i \notin sentenced'
    BY <1>4 DEF BlockEnds
  <2>2. (\E e : Put(i, e)) \/ UNCHANGED clients
    BY <1>4 DEF BlockEnds
  <2> QED
    BY <2>1, <2>2, PutKeepsBlock DEF BlockStays, OnRecord, Known
<1>5. CASE FallsSilent(i)
  <2>1. clients[i] \in Entries
    BY <1>5 DEF FallsSilent, Known, LimiterType
  <2>2. InForce(clients[i]) => InForce([clients[i] EXCEPT !.silent = TRUE])
    BY <2>1, SameBlock
  <2> QED
    BY <1>5, <2>2, PutKeepsBlock DEF FallsSilent, OnRecord
<1>6. CASE Cleanup
  BY <1>6 DEF Cleanup, Keep, BlockStays, OnRecord, Known
<1> QED
  BY <1>1, <1>2, <1>3, <1>4, <1>5, <1>6

LEMMA BlockStep ==
  ASSUME Types, [Next]_vars, NEW id \in ClientIDs
  PROVE  BlockStays(id)
<1> USE DEF Types
<1>1. ASSUME NEW i \in ClientIDs, NEW ip \in IPs, HTTPRequest(i, ip) PROVE BlockStays(id)
  BY <1>1, RequestsKeepBlocks DEF HTTPRequest
<1>2. ASSUME NEW k \in Conns, NEW i \in ClientIDs, NEW ip \in IPs, WebSocketBegins(k, i, ip)
      PROVE  BlockStays(id)
  BY <1>2, ConnectionsKeepBlocks DEF WebSocketBegins
<1>3. ASSUME NEW k \in Conns, WebSocketEnds(k) PROVE BlockStays(id)
  BY <1>3, ConnectionsKeepBlocks DEF WebSocketEnds
<1>4. ASSUME NEW k \in Conns, Accepted(k) PROVE BlockStays(id)
  <2>1. who[k] \in ClientIDs /\ from[k] \in IPs
    BY <1>4 DEF Accepted, Move, ConnType
  <2> QED
    BY <1>4, <2>1, ConnectionsKeepBlocks DEF Accepted
<1>5. ASSUME UNCHANGED clients PROVE BlockStays(id)
  BY <1>5 DEF BlockStays, OnRecord, Known
<1>6. ASSUME NEW k \in Conns, Removed(k) PROVE BlockStays(id)
  BY <1>5, <1>6, ConnectionsKeepBlocks DEF Removed, limiterVars
<1>7. ASSUME NEW k \in Conns, MessageRefused(k) PROVE BlockStays(id)
  BY <1>7, OthersKeepBlocks DEF MessageRefused
<1>8. CASE Administration
  BY <1>8, OthersKeepBlocks DEF Administration
<1>9. CASE LimiterStep
  BY <1>9, OthersKeepBlocks DEF LimiterStep
<1>10. ASSUME NEW k \in Conns, NEW ip \in IPs, NEW addr \in IPs, ValidateUpgrade(k, ip, addr)
       PROVE  BlockStays(id)
  BY <1>5, <1>10 DEF ValidateUpgrade, limiterVars
<1>11. ASSUME NEW k \in Conns, NEW i \in ClientIDs, Entered(k, i) PROVE BlockStays(id)
  BY <1>5, <1>11 DEF Entered, limiterVars
<1>12. ASSUME NEW k \in Conns, Refused(k) \/ MessageAccepted(k) \/ PingPong(k) \/ Ends(k) \/ FallsQuiet(k)
       PROVE  BlockStays(id)
  BY <1>5, <1>12 DEF Refused, MessageAccepted, PingPong, Heard, Ends, FallsQuiet, limiterVars
<1>13. CASE CleanupConnections \/ UNCHANGED <<limiterVars, owner, connVars>> \/ UNCHANGED vars
  BY <1>5, <1>13 DEF CleanupConnections, vars, limiterVars
<1> QED
  BY <1>1, <1>2, <1>3, <1>4, <1>6, <1>7, <1>8, <1>9, <1>10, <1>11, <1>12, <1>13
  DEF Next, ConnectionStep

\* No step but UnblockClient and the end of its time takes a block off the record,
\* unless the client has no connection and has been silent for ClientExpiry.
THEOREM BlocksStayOnRecord == Spec => BlocksStay
<1>1. Types /\ [Next]_vars =>
        [\A id \in ClientIDs :
           OnRecord(id) /\ id \in sentenced' =>
             OnRecord(id)' \/ (clients[id].silent /\ clients[id].connections = 0)]_vars
  BY BlockStep DEF BlockStays
<1> QED
  BY <1>1, Typed, PTL DEF Spec, BlocksStay
-----------------------------------------------------------------------------
(* Sums *)

\* The least element of a set of sets: induction over the subsets of a finite set.
LEMMA LeastSubset ==
  ASSUME NEW S, IsFiniteSet(S), NEW C \in SUBSET SUBSET S, C # {}
  PROVE  \E s \in C : \A t \in C : t \subseteq s => t = s
<1>1. IsWellFoundedOn(StrictSubsetOrdering(S), SUBSET S)
  BY FS_StrictSubsetOrderingWellFounded, FS_FiniteSubsetsOfFinite
<1>2. \E s \in C : \A t \in C : <<t, s>> \notin StrictSubsetOrdering(S)
  BY <1>1, WFMin
<1>3. \A s, t \in C : t \subseteq s /\ t # s => <<t, s>> \in StrictSubsetOrdering(S)
  BY DEF StrictSubsetOrdering
<1> QED
  BY <1>2, <1>3

\* h[s] is the sum of f over s, for every subset s of S.
Taken(s) == CHOOSE x \in s : TRUE
SumsUp(h, f, S) ==
  h = [s \in SUBSET S |-> IF s = {} THEN 0 ELSE f[Taken(s)] + h[s \ {Taken(s)}]]

\* The sum over a finite set is what meets its defining equation, in whatever
\* order the elements are taken.
LEMMA SumIs ==
  ASSUME NEW f, NEW S, IsFiniteSet(S), NEW h, SumsUp(h, f, S)
  PROVE  SumFunctionOnSet(f, S) = h[S]
<1> DEFINE g == CHOOSE g : SumsUp(g, f, S)
           C == {s \in SUBSET S : g[s] # h[s]}
<1>1. SumFunctionOnSet(f, S) = g[S]
  BY DEF SumFunctionOnSet, FoldFunctionOnSet, MapThenFoldSet, SumsUp, Taken
<1>2. SumsUp(g, f, S)
  OBVIOUS
<1> HIDE DEF g
<1>3. C = {}
  <2> SUFFICES ASSUME C # {} PROVE FALSE
    OBVIOUS
  <2>1. C \in SUBSET SUBSET S
    OBVIOUS
  <2>2. PICK s \in C : \A t \in C : t \subseteq s => t = s
    <3> HIDE DEF C
    <3> QED
      BY <2>1, LeastSubset
  <2>3. /\ g[s] = IF s = {} THEN 0 ELSE f[Taken(s)] + g[s \ {Taken(s)}]
        /\ h[s] = IF s = {} THEN 0 ELSE f[Taken(s)] + h[s \ {Taken(s)}]
    BY <1>2 DEF SumsUp
  <2>4. s # {} => Taken(s) \in s
    BY DEF Taken
  <2>5. s # {} => g[s \ {Taken(s)}] = h[s \ {Taken(s)}]
    BY <2>2, <2>4
  <2> QED
    BY <2>2, <2>3, <2>5
<1> QED
  BY <1>1, <1>3

-----------------------------------------------------------------------------
(* The limits *)

CountedIn(ids) == {k \in Conns : place[k] \in {"open", "gone"} /\ who[k] \in ids}

\* What the limiter adds up is the number of connections that are counted.
LEMMA SumIsCounted ==
  ASSUME LimiterType, CountsMatch, ~collided, NEW S \in SUBSET DOMAIN clients, IsFiniteSet(S)
  PROVE  SumFunctionOnSet(Connections, S) = Cardinality(CountedIn(S))
<1> DEFINE h == [s \in SUBSET S |-> Cardinality(CountedIn(s))]
<1>1. ASSUME NEW s PROVE IsFiniteSet(CountedIn(s)) /\ Cardinality(CountedIn(s)) \in Nat
  <2>1. CountedIn(s) \subseteq Conns
    BY DEF CountedIn
  <2>2. IsFiniteSet(CountedIn(s))
    BY <2>1, FS_Subset, GateAssumption DEF GateAssumption
  <2> QED
    BY <2>2, FS_CardinalityType
<1>2. ASSUME NEW s \in SUBSET S
      PROVE  h[s] = IF s = {} THEN 0 ELSE Connections[Taken(s)] + h[s \ {Taken(s)}]
  <2>1. CASE s = {}
    <3>1. CountedIn(s) = {}
      BY <2>1 DEF CountedIn
    <3> QED
      BY <2>1, <3>1, FS_EmptySet
  <2>2. CASE s # {}
    <3> DEFINE x == Taken(s)
               rest == s \ {x}
    <3>1. x \in s
      BY <2>2 DEF Taken
    <3> HIDE DEF x
    <3>2. Connections[x] = Cardinality(CountedUnder(x))
      BY <3>1 DEF Connections, CountsMatch, Charge, Known, LimiterType
    <3>3. /\ CountedIn(s) = CountedUnder(x) \cup CountedIn(rest)
          /\ CountedUnder(x) \cap CountedIn(rest) = {}
      BY <3>1 DEF CountedIn, CountedUnder
    <3>4. Cardinality(CountedIn(s)) = Cardinality(CountedUnder(x)) + Cardinality(CountedIn(rest))
      <4>1. Cardinality(CountedUnder(x) \cup CountedIn(rest))
              = Cardinality(CountedUnder(x)) + Cardinality(CountedIn(rest))
                  - Cardinality(CountedUnder(x) \cap CountedIn(rest))
        BY <1>1, CountedFinite, FS_Union
      <4>2. Cardinality(CountedUnder(x) \cap CountedIn(rest)) = 0
        BY <3>3, FS_EmptySet
      <4>3. Cardinality(CountedUnder(x)) \in Nat /\ Cardinality(CountedIn(rest)) \in Nat
        BY <1>1, CountedFinite
      <4> QED
        BY <3>3, <4>1, <4>2, <4>3
    <3>5. h[s] = Connections[x] + h[rest]
      BY <3>2, <3>4
    <3> QED
      BY <2>2, <3>5 DEF x
  <2> QED
    BY <2>1, <2>2
<1>3. SumsUp(h, Connections, S)
  <2>1. h = [s \in SUBSET S |->
               IF s = {} THEN 0 ELSE Connections[Taken(s)] + h[s \ {Taken(s)}]]
    BY <1>2
  <2> HIDE DEF h
  <2> QED
    BY <2>1 DEF SumsUp
<1>4. h[S] = Cardinality(CountedIn(S))
  OBVIOUS
<1> HIDE DEF h
<1> QED
  BY <1>3, <1>4, SumIs

\* What a step does to the limiter's map: one entry more at most, and an entry
\* keeps the IP it was made with.
MapMoves ==
  /\ \E id : DOMAIN clients' \subseteq DOMAIN clients \cup {id}
  /\ \A id : Known(id) /\ Known(id)' => clients'[id].ip = clients[id].ip

LEMMA PutMoves ==
  ASSUME NEW id, NEW e, Put(id, e), Known(id) => e.ip = clients[id].ip
  PROVE  MapMoves
  BY DEF MapMoves, Put, Known

LEMMA SameMoves == ASSUME UNCHANGED clients PROVE MapMoves
  BY DEF MapMoves, Known

LEMMA SameIP ==
  ASSUME NEW e \in Entries, NEW b, NEW n, NEW q
  PROVE  /\ [e EXCEPT !.block = b].ip = e.ip
         /\ [e EXCEPT !.silent = q].ip = e.ip
         /\ [e EXCEPT !.connections = n].ip = e.ip
         /\ [e EXCEPT !.connections = n, !.silent = q].ip = e.ip
         /\ OneMoreViolation(e).ip = e.ip
  BY DEF Entries, OneMoreViolation

LEMMA SeenIP ==
  ASSUME LimiterType, NEW id \in ClientIDs, NEW ip \in IPs
  PROVE  /\ Seen(id, ip) \in Entries
         /\ Seen(id, ip).ip = IF Known(id) THEN clients[id].ip ELSE ip
<1>1. EntryOf(id, ip) \in Entries /\ Seen(id, ip) \in Entries
  BY EntryOfType
<1>2. Seen(id, ip).ip = EntryOf(id, ip).ip
  BY <1>1, SameIP DEF Seen
<1> QED
  BY <1>1, <1>2 DEF EntryOf, NewEntry

LEMMA RequestsMove ==
  ASSUME LimiterType, NEW id \in ClientIDs, NEW ip \in IPs,
         RequestPasses(id, ip) \/ RequestBlocked(id, ip) \/ RequestOverRate(id, ip)
  PROVE  MapMoves
<1> DEFINE e == Unblocked(Seen(id, ip))
           v == OneMoreViolation(e)
<1>1. Known(id) => Seen(id, ip).ip = clients[id].ip
  BY SeenIP
<1>2. e.ip = Seen(id, ip).ip /\ e \in Entries
  BY SeenIP, SameIP, BlockType DEF Unblocked
<1>3. v.ip = e.ip /\ v \in Entries
  BY <1>2, SameIP, ViolationType
<1>4. [v EXCEPT !.block = "auto"].ip = v.ip
  BY <1>3, SameIP
<1>5. \E x : Put(id, x) /\ x.ip = Seen(id, ip).ip
  BY <1>2, <1>3, <1>4 DEF RequestPasses, RequestBlocked, RequestOverRate
<1> QED
  BY <1>1, <1>5, PutMoves

LEMMA AddMoves ==
  ASSUME LimiterType, NEW id \in ClientIDs, NEW ip \in IPs, AddConnection(id, ip)
  PROVE  MapMoves /\ Known(id)' /\ clients'[id].ip = IF Known(id) THEN clients[id].ip ELSE ip
<1> DEFINE e == [Seen(id, ip) EXCEPT !.connections = @ + 1]
<1>1. e.ip = IF Known(id) THEN clients[id].ip ELSE ip
  BY SeenIP, SameIP
<1>2. Put(id, e)
  BY DEF AddConnection
<1> HIDE DEF e
<1>3. Known(id)' /\ clients'[id] = e
  BY <1>2 DEF Put, Known
<1> QED
  BY <1>1, <1>2, <1>3, PutMoves

LEMMA OthersMove ==
  ASSUME LimiterType, NEW id,
         \/ RemoveConnection(id) \/ MessageOverRate(id) \/ BlockClient(id) \/ UnblockClient(id)
         \/ BlockEnds(id) \/ FallsSilent(id) \/ Cleanup
  PROVE  MapMoves
<1>1. CASE Cleanup
  BY <1>1 DEF Cleanup, Keep, MapMoves, Known
<1>2. CASE UNCHANGED clients
  BY <1>2, SameMoves
<1>3. CASE Known(id) /\ \E e : Put(id, e) /\ e.ip = clients[id].ip
  BY <1>3, PutMoves
<1>4. CASE Known(id) /\ ~Cleanup
  <2>1. clients[id] \in Entries
    BY <1>4 DEF Known, LimiterType
  <2>2. RemoveConnection(id) => \E e : Put(id, e) /\ e.ip = clients[id].ip
    <3> DEFINE e == [clients[id] EXCEPT !.connections = IF @ = 0 THEN 0 ELSE @ - 1,
                                        !.silent = FALSE]
    <3>1. e.ip = clients[id].ip
      BY <2>1, SameIP
    <3>2. RemoveConnection(id) => Put(id, e)
      BY <1>4 DEF RemoveConnection
    <3> QED
      BY <3>1, <3>2
  <2>3. MessageOverRate(id) \/ FallsSilent(id) => \E e : Put(id, e) /\ e.ip = clients[id].ip
    BY <1>4, <2>1, SameIP DEF MessageOverRate, FallsSilent
  <2>4. /\ [clients[id] EXCEPT !.block = "manual"].ip = clients[id].ip
        /\ [clients[id] EXCEPT !.block = "none"].ip = clients[id].ip
        /\ [clients[id] EXCEPT !.block = "over"].ip = clients[id].ip
    BY <2>1, SameIP
  <2>5. BlockClient(id) \/ UnblockClient(id) => \E e : Put(id, e) /\ e.ip = clients[id].ip
    BY <2>4 DEF BlockClient, UnblockClient
  <2>6. BlockEnds(id) => (\E e : Put(id, e) /\ e.ip = clients[id].ip) \/ UNCHANGED clients
    BY <2>4 DEF BlockEnds
  <2> QED
    BY <1>2, <1>3, <1>4, <2>2, <2>3, <2>5, <2>6
<1>5. CASE ~Known(id) /\ ~Cleanup
  BY <1>2, <1>5 DEF RemoveConnection, MessageOverRate, MayMessage, BlockClient, UnblockClient,
     BlockEnds, FallsSilent
<1> QED
  BY <1>1, <1>4, <1>5

\* What a step is to the limiter.
LEMMA LimiterMoves == Types /\ [Next]_vars => MapMoves
<1> SUFFICES ASSUME LimiterType, ConnType, [Next]_vars PROVE MapMoves
  BY DEF Types
<1>1. ASSUME NEW id \in ClientIDs, NEW ip \in IPs, HTTPRequest(id, ip) PROVE MapMoves
  BY <1>1, RequestsMove DEF HTTPRequest
<1>2. ASSUME NEW k \in Conns, NEW id \in ClientIDs, NEW ip \in IPs, WebSocketBegins(k, id, ip)
      PROVE  MapMoves
  BY <1>2, AddMoves DEF WebSocketBegins
<1>3. ASSUME NEW k \in Conns, Accepted(k) PROVE MapMoves
  <2>1. who[k] \in ClientIDs /\ from[k] \in IPs
    BY <1>3 DEF Accepted, Move, ConnType
  <2> QED
    BY <1>3, <2>1, AddMoves DEF Accepted
<1>4. ASSUME NEW k \in Conns, WebSocketEnds(k) \/ Removed(k) \/ MessageRefused(k) PROVE MapMoves
  BY <1>4, OthersMove, SameMoves DEF WebSocketEnds, Removed, MessageRefused, limiterVars
<1>5. CASE Administration \/ LimiterStep
  BY <1>5, OthersMove DEF Administration, LimiterStep
<1>6. ASSUME NEW k \in Conns, NEW ip \in IPs, NEW addr \in IPs, ValidateUpgrade(k, ip, addr)
      PROVE  MapMoves
  BY <1>6, SameMoves DEF ValidateUpgrade, limiterVars
<1>7. ASSUME NEW k \in Conns, NEW id \in ClientIDs, Entered(k, id) PROVE MapMoves
  BY <1>7, SameMoves DEF Entered, limiterVars
<1>8. ASSUME NEW k \in Conns, Refused(k) \/ MessageAccepted(k) \/ PingPong(k) \/ Ends(k) \/ FallsQuiet(k)
      PROVE  MapMoves
  BY <1>8, SameMoves DEF Refused, MessageAccepted, PingPong, Heard, Ends, FallsQuiet, limiterVars
<1>9. CASE CleanupConnections \/ UNCHANGED <<limiterVars, owner, connVars>> \/ UNCHANGED vars
  BY <1>9, SameMoves DEF CleanupConnections, vars, limiterVars
<1> QED
  BY <1>1, <1>2, <1>3, <1>4, <1>5, <1>6, <1>7, <1>8, <1>9 DEF Next, ConnectionStep

\* k opens under id from ip, which the limits allow.
Opening(k, id, ip) ==
  /\ MayConnect(ip) /\ AddConnection(id, ip)
  /\ place[k] \notin {"open", "gone"} /\ place' = [place EXCEPT ![k] = "open"]
  /\ who'[k] = id /\ from'[k] = ip
  /\ \A j \in Conns \ {k} : who'[j] = who[j] /\ from'[j] = from[j]
  /\ roamed' = (roamed \/ Roams(id, ip))

\* What is counted was so before, under the same ID and from the same IP.
NoneOpens ==
  /\ \A k \in Conns : place'[k] \in {"open", "gone"} =>
       place[k] \in {"open", "gone"} /\ who'[k] = who[k] /\ from'[k] = from[k]
  /\ roamed' = roamed

LEMMA OpeningOrNot ==
  ASSUME Types, [Next]_vars
  PROVE  NoneOpens \/ \E k \in Conns, id \in ClientIDs, ip \in IPs : Opening(k, id, ip)
<1> USE DEF Types
<1>1. ASSUME NEW k \in Conns, NEW id \in ClientIDs, NEW ip \in IPs, WebSocketBegins(k, id, ip)
      PROVE  Opening(k, id, ip)
  BY <1>1 DEF WebSocketBegins, Move, Opening, ConnType
<1>2. ASSUME NEW k \in Conns, Accepted(k)
      PROVE  who[k] \in ClientIDs /\ from[k] \in IPs /\ Opening(k, who[k], from[k])
  BY <1>2 DEF Accepted, Move, Opening, ConnType
<1>3. ASSUME NEW k \in Conns, WebSocketEnds(k) \/ Removed(k) PROVE NoneOpens
  BY <1>3 DEF WebSocketEnds, Removed, Move, NoneOpens, ConnType
<1>4. ASSUME NEW k \in Conns, NEW ip \in IPs, NEW addr \in IPs, ValidateUpgrade(k, ip, addr)
      PROVE  NoneOpens
  BY <1>4 DEF ValidateUpgrade, Move, NoneOpens, ConnType
<1>5. ASSUME NEW k \in Conns, NEW id \in ClientIDs, Entered(k, id) PROVE NoneOpens
  BY <1>5 DEF Entered, Move, NoneOpens, ConnType
<1>6. ASSUME NEW k \in Conns, Refused(k) PROVE NoneOpens
  BY <1>6 DEF Refused, Move, NoneOpens, ConnType
<1>7. ASSUME NEW k \in Conns, \/ MessageRefused(k) \/ MessageAccepted(k) \/ PingPong(k)
                              \/ Ends(k) \/ FallsQuiet(k)
      PROVE  NoneOpens
  BY <1>7 DEF MessageRefused, MessageAccepted, PingPong, Heard, Ends, FallsQuiet, Move, NoneOpens,
     ConnType, connVars
<1>8. ASSUME NEW id \in ClientIDs, NEW ip \in IPs, HTTPRequest(id, ip) PROVE NoneOpens
  BY <1>8 DEF HTTPRequest, NoneOpens, connVars
<1>9. CASE Administration \/ CleanupConnections \/ LimiterStep
  BY <1>9 DEF Administration, CleanupConnections, LimiterStep, NoneOpens, connVars
<1>10. CASE UNCHANGED <<limiterVars, owner, connVars>> \/ UNCHANGED vars
  BY <1>10 DEF vars, connVars, NoneOpens
<1> QED
  BY <1>1, <1>2, <1>3, <1>4, <1>5, <1>6, <1>7, <1>8, <1>9, <1>10 DEF Next, ConnectionStep

LEMMA CollidedStays == HistoryType /\ [Next]_vars /\ ~collided' => ~collided
<1>1. ASSUME NEW k \in Conns, NEW id \in ClientIDs, Entered(k, id), ~collided' PROVE ~collided
  BY <1>1 DEF Entered
<1> QED
  BY <1>1 DEF Next, ConnectionStep, vars, connVars, HTTPRequest, WebSocketBegins,
     WebSocketEnds, Administration, ValidateUpgrade, Accepted, Refused, Removed,
     MessageRefused, MessageAccepted, PingPong, Heard, Ends, FallsQuiet, CleanupConnections,
     LimiterStep

\* The map is finite, so it can be added up, and a connection that is counted is charged
\* to the IP it comes from.
Charged ==
  /\ IsFiniteSet(DOMAIN clients)
  /\ ~collided /\ ~roamed =>
       \A k \in Conns : place[k] \in {"open", "gone"} => clients[who[k]].ip = from[k]

LEMMA ChargedStep ==
  Types /\ CountedIsKnown /\ CountedIsKnown' /\ Charged /\ [Next]_vars => Charged'
<1> SUFFICES ASSUME Types, CountedIsKnown, CountedIsKnown', Charged, [Next]_vars PROVE Charged'
  OBVIOUS
<1>1. MapMoves
  BY LimiterMoves
<1>2. IsFiniteSet(DOMAIN clients)'
  <2>1. PICK id : DOMAIN clients' \subseteq DOMAIN clients \cup {id}
    BY <1>1 DEF MapMoves
  <2>2. IsFiniteSet(DOMAIN clients \cup {id})
    BY FS_AddElement DEF Charged
  <2> QED
    BY <2>1, <2>2, FS_Subset
<1>3. ASSUME ~collided', ~roamed', NEW k \in Conns, place'[k] \in {"open", "gone"}
      PROVE  clients'[who'[k]].ip = from'[k]
  <2>1. ~collided
    BY <1>3, CollidedStays DEF Types
  <2>2. ASSUME place[k] \in {"open", "gone"}, who'[k] = who[k], from'[k] = from[k], ~roamed
        PROVE  clients'[who'[k]].ip = from'[k]
    <3>1. who[k] \in DOMAIN clients /\ who[k] \in DOMAIN clients'
      BY <1>3, <2>1, <2>2 DEF CountedIsKnown, Known
    <3>2. clients'[who[k]].ip = clients[who[k]].ip
      BY <1>1, <3>1 DEF MapMoves, Known
    <3> QED
      BY <2>1, <2>2, <3>2 DEF Charged
  <2>3. CASE NoneOpens
    BY <1>3, <2>2, <2>3 DEF NoneOpens
  <2>4. ASSUME NEW i \in Conns, NEW id \in ClientIDs, NEW ip \in IPs, Opening(i, id, ip)
        PROVE  clients'[who'[k]].ip = from'[k]
    <3>1. ~roamed /\ ~Roams(id, ip)
      BY <1>3, <2>4 DEF Opening
    <3>2. clients'[id].ip = ip
      BY <2>4, <3>1, AddMoves DEF Opening, Roams, Types
    <3>3. k # i => place[k] \in {"open", "gone"} /\ who'[k] = who[k] /\ from'[k] = from[k]
      BY <1>3, <2>4 DEF Opening, Types, ConnType
    <3> QED
      BY <2>2, <2>4, <3>1, <3>2, <3>3 DEF Opening
  <2> QED
    BY <2>3, <2>4, OpeningOrNot
<1> QED
  BY <1>2, <1>3 DEF Charged

Counted == {k \in Conns : place[k] \in {"open", "gone"}}
CountedFrom(ip) ==
  {k \in Conns : place[k] \in {"open", "gone"} /\ from[k] = ip}

\* The limits hold of what is counted, too.
CountedWithinLimits ==
  /\ ~collided => Cardinality(Counted) <= MaxConnections
  /\ ~collided /\ ~roamed =>
       \A ip \in IPs : Cardinality(CountedFrom(ip)) <= MaxConnectionsPerIP

LEMMA CountedSetsFinite ==
  /\ IsFiniteSet(Counted) /\ Cardinality(Counted) \in Nat
  /\ \A ip : IsFiniteSet(CountedFrom(ip)) /\ Cardinality(CountedFrom(ip)) \in Nat
<1>1. Counted \subseteq Conns /\ \A ip : CountedFrom(ip) \subseteq Conns
  BY DEF Counted, CountedFrom
<1>2. IsFiniteSet(Counted) /\ \A ip : IsFiniteSet(CountedFrom(ip))
  BY <1>1, FS_Subset, GateAssumption DEF GateAssumption
<1> QED
  BY <1>2, FS_CardinalityType

\* What the limiter compares with its limits is what is counted.
LEMMA LimiterCounts ==
  ASSUME Types, CountsMatch, CountedIsKnown, Charged, ~collided
  PROVE  /\ getTotalConnections = Cardinality(Counted)
         /\ ~roamed => \A ip \in IPs : countConnectionsForIP(ip) = Cardinality(CountedFrom(ip))
<1>1. getTotalConnections = Cardinality(Counted)
  <2>1. CountedIn(DOMAIN clients) = Counted
    BY DEF CountedIn, Counted, CountedIsKnown, Known
  <2>2. DOMAIN Connections = DOMAIN clients
    BY DEF Connections
  <2>3. SumFunctionOnSet(Connections, DOMAIN clients) = Cardinality(CountedIn(DOMAIN clients))
    BY SumIsCounted DEF Types, Charged
  <2> QED
    BY <2>1, <2>2, <2>3 DEF getTotalConnections, SumFunction
<1>2. ASSUME ~roamed, NEW ip \in IPs
      PROVE  countConnectionsForIP(ip) = Cardinality(CountedFrom(ip))
  <2> DEFINE S == {id \in DOMAIN clients : clients[id].ip = ip}
  <2>1. CountedIn(S) = CountedFrom(ip)
    BY <1>2 DEF CountedIn, CountedFrom, CountedIsKnown, Known, Charged
  <2>2. S \in SUBSET DOMAIN clients /\ IsFiniteSet(S)
    BY FS_Subset DEF Charged
  <2>3. countConnectionsForIP(ip) = SumFunctionOnSet(Connections, S)
    BY DEF countConnectionsForIP
  <2> HIDE DEF S
  <2> QED
    BY <2>1, <2>2, <2>3, SumIsCounted DEF Types
<1> QED
  BY <1>1, <1>2

LEMMA LimitsStep ==
  ASSUME Types, CountsMatch, CountedIsKnown, Charged, CountedWithinLimits, [Next]_vars
  PROVE  CountedWithinLimits'
<1>1. SUFFICES ASSUME ~collided'
               PROVE  /\ Cardinality(Counted') <= MaxConnections
                      /\ ~roamed' => \A ip \in IPs :
                                      Cardinality(CountedFrom(ip)') <= MaxConnectionsPerIP
  BY DEF CountedWithinLimits, Counted, CountedFrom
<1>2. /\ Cardinality(Counted) <= MaxConnections
      /\ ~roamed => \A ip \in IPs : Cardinality(CountedFrom(ip)) <= MaxConnectionsPerIP
  BY <1>1, CollidedStays DEF CountedWithinLimits, Counted, CountedFrom, Types
<1>3. MaxConnections \in Nat /\ MaxConnectionsPerIP \in Nat
  BY LimiterAssumption DEF LimiterAssumption
<1>4. CASE NoneOpens
  <2>1. Counted' \subseteq Counted /\ \A ip : CountedFrom(ip)' \subseteq CountedFrom(ip)
    BY <1>4 DEF NoneOpens, Counted, CountedFrom
  <2>2. Cardinality(Counted') <= Cardinality(Counted) /\ Cardinality(Counted') \in Nat
    BY <2>1, CountedSetsFinite, FS_Subset, FS_CardinalityType
  <2>3. \A ip : /\ Cardinality(CountedFrom(ip)') <= Cardinality(CountedFrom(ip))
                /\ Cardinality(CountedFrom(ip)') \in Nat
    BY <2>1, CountedSetsFinite, FS_Subset, FS_CardinalityType
  <2>4. roamed' = roamed
    BY <1>4 DEF NoneOpens
  <2> QED
    BY <1>2, <1>3, <2>2, <2>3, <2>4, CountedSetsFinite
<1>5. ASSUME NEW k \in Conns, NEW id \in ClientIDs, NEW ip \in IPs, Opening(k, id, ip)
      PROVE  /\ Cardinality(Counted') <= MaxConnections
             /\ ~roamed' => \A i \in IPs : Cardinality(CountedFrom(i)') <= MaxConnectionsPerIP
  <2>1. /\ getTotalConnections = Cardinality(Counted)
        /\ ~roamed => \A i \in IPs : countConnectionsForIP(i) = Cardinality(CountedFrom(i))
    BY <1>1, LimiterCounts, CollidedStays DEF Types
  <2>2. Cardinality(Counted) < MaxConnections
    BY <1>5, <2>1 DEF Opening, MayConnect
  <2>3. ~roamed => Cardinality(CountedFrom(ip)) < MaxConnectionsPerIP
    BY <1>5, <2>1 DEF Opening, MayConnect
  <2>4. Counted' = Counted \cup {k}
    BY <1>5 DEF Opening, Counted, Types, ConnType
  <2>5. \A i : CountedFrom(i)' = IF i = ip THEN CountedFrom(i) \cup {k} ELSE CountedFrom(i)
    BY <1>5 DEF Opening, CountedFrom, Types, ConnType
  <2>6. ASSUME NEW T, IsFiniteSet(T)
        PROVE  Cardinality(T \cup {k}) <= Cardinality(T) + 1
    <3>1. Cardinality(T) \in Nat
      BY <2>6, FS_CardinalityType
    <3>2. Cardinality(T \cup {k}) = IF k \in T THEN Cardinality(T) ELSE Cardinality(T) + 1
      BY <2>6, FS_AddElement
    <3> QED
      BY <3>1, <3>2
  <2>7. Cardinality(Counted \cup {k}) <= Cardinality(Counted) + 1
    BY <2>6, CountedSetsFinite
  <2>8. Cardinality(CountedFrom(ip) \cup {k}) <= Cardinality(CountedFrom(ip)) + 1
    BY <2>6, CountedSetsFinite
  <2>9. Cardinality(Counted \cup {k}) \in Nat /\ Cardinality(CountedFrom(ip) \cup {k}) \in Nat
    <3>1. IsFiniteSet(Counted \cup {k}) /\ IsFiniteSet(CountedFrom(ip) \cup {k})
      BY CountedSetsFinite, FS_AddElement
    <3> QED
      BY <3>1, FS_CardinalityType
  <2>10. Cardinality(Counted') <= MaxConnections
    <3>1. Cardinality(Counted) \in Nat
      BY CountedSetsFinite
    <3> QED
      BY <1>3, <2>2, <2>4, <2>7, <2>9, <3>1
  <2>11. ASSUME ~roamed', NEW i \in IPs PROVE Cardinality(CountedFrom(i)') <= MaxConnectionsPerIP
    <3>1. ~roamed
      BY <1>5, <2>11 DEF Opening
    <3>2. CASE i = ip
      <4>1. CountedFrom(i)' = CountedFrom(ip) \cup {k}
        BY <2>5, <3>2
      <4>2. Cardinality(CountedFrom(ip)) \in Nat
        BY CountedSetsFinite
      <4> QED
        BY <1>3, <2>3, <2>8, <2>9, <3>1, <4>1, <4>2
    <3>3. CASE i # ip
      BY <1>2, <2>5, <3>1, <3>3
    <3> QED
      BY <3>2, <3>3
  <2> QED
    BY <2>10, <2>11
<1> QED
  BY <1>4, <1>5, OpeningOrNot

\* The connections that are open stay within the limiter's limits, for any limits
\* and any number of connections, although the validator enters a connection in one
\* region and asks the limiter in another: what the limiter adds up is no less.
THEOREM LimitsHold == Spec => []OpenWithinLimits
<1>1. Init => Charged
  BY FS_EmptySet DEF Init, LimiterInit, Charged
<1>2. Init => CountedWithinLimits
  <2> SUFFICES ASSUME Init PROVE CountedWithinLimits
    OBVIOUS
  <2>1. Counted = {} /\ \A ip : CountedFrom(ip) = {}
    BY DEF Init, Counted, CountedFrom
  <2> QED
    BY <2>1, FS_EmptySet, LimiterAssumption DEF LimiterAssumption, CountedWithinLimits
<1>3. CountedWithinLimits => OpenWithinLimits
  <2> DEFINE Open == {k \in Conns : place[k] = "open"}
             OpenFrom(ip) == {k \in Conns : place[k] = "open" /\ from[k] = ip}
  <2>1. Open \subseteq Counted /\ \A ip : OpenFrom(ip) \subseteq CountedFrom(ip)
    BY DEF Counted, CountedFrom
  <2> HIDE DEF Open, OpenFrom
  <2>2. Cardinality(Open) <= Cardinality(Counted) /\ Cardinality(Open) \in Nat
    BY <2>1, CountedSetsFinite, FS_Subset, FS_CardinalityType
  <2>3. \A ip : /\ Cardinality(OpenFrom(ip)) <= Cardinality(CountedFrom(ip))
                /\ Cardinality(OpenFrom(ip)) \in Nat
    BY <2>1, CountedSetsFinite, FS_Subset, FS_CardinalityType
  <2>4. MaxConnections \in Nat /\ MaxConnectionsPerIP \in Nat
    BY LimiterAssumption DEF LimiterAssumption
  <2>5. CountedWithinLimits =>
          /\ ~collided => Cardinality(Open) <= MaxConnections
          /\ ~collided /\ ~roamed =>
               \A ip \in IPs : Cardinality(OpenFrom(ip)) <= MaxConnectionsPerIP
    BY <2>2, <2>3, <2>4, CountedSetsFinite DEF CountedWithinLimits
  <2> QED
    BY <2>5 DEF OpenWithinLimits, Open, OpenFrom
<1> QED
  BY <1>1, <1>2, <1>3, ChargedStep, LimitsStep, Counting, Typed, PTL DEF Spec

-----------------------------------------------------------------------------
(* Induction and recursion over the natural numbers, in terms of sets *)

LEMMA StrongInduction ==
  ASSUME NEW S, \A n \in Nat : (\A m \in Nat : m < n => m \in S) => n \in S
  PROVE  Nat \subseteq S
<1> DEFINE R == OpToRel(<, Nat)
           T == Nat \ S
<1>1. IsWellFoundedOn(R, Nat)
  BY NatLessThanWellFounded
<1>2. R = {p \in Nat \X Nat : p[1] < p[2]}
  BY DEF OpToRel
<1> HIDE DEF R
<1>3. ASSUME T # {} PROVE FALSE
  <2>1. PICK n \in T : \A m \in T : <<m, n>> \notin R
    BY <1>1, <1>3, WFMin
  <2>2. ASSUME NEW m \in Nat, m < n PROVE m \in S
    <3>1. <<m, n>> \in R
      BY <1>2, <2>2
    <3> QED
      BY <2>1, <3>1
  <2> QED
    BY <2>2
<1> QED
  BY <1>3

\* A function on the naturals may be defined from its values at smaller numbers.
Recurs(G, V) ==
  /\ G \in [Nat -> [[Nat -> V] -> V]]
  /\ \A n \in Nat : \A g, h \in [Nat -> V] :
       (\A m \in Nat : m < n => g[m] = h[m]) => G[n][g] = G[n][h]

LEMMA Recursion ==
  ASSUME NEW V, NEW v \in V, NEW G, Recurs(G, V)
  PROVE  \E f \in [Nat -> V] : \A n \in Nat : f[n] = G[n][f]
<1> USE DEF Recurs
<1> DEFINE Upto(n, g) == \A m \in Nat : m <= n => g[m] = G[m][g]
<1>1. \A n \in Nat : \E g \in [Nat -> V] : Upto(n, g)
  <2> DEFINE S == {n \in Nat : \E g \in [Nat -> V] : Upto(n, g)}
  <2>1. ASSUME NEW n \in Nat, \A m \in Nat : m < n => m \in S
        PROVE  n \in S
    <3>1. \E g \in [Nat -> V] : \A m \in Nat : m < n => g[m] = G[m][g]
      <4>1. CASE n = 0
        <5>1. [i \in Nat |-> v] \in [Nat -> V]
          OBVIOUS
        <5>2. \A m \in Nat : ~(m < n)
          BY <4>1
        <5> QED
          BY <5>1, <5>2
      <4>2. CASE n # 0
        <5>1. n - 1 \in Nat /\ n - 1 < n
          BY <4>2
        <5>2. PICK g \in [Nat -> V] : Upto(n - 1, g)
          BY <2>1, <5>1
        <5>3. \A m \in Nat : m < n => m <= n - 1
          BY <5>1
        <5> QED
          BY <5>2, <5>3
      <4> QED
        BY <4>1, <4>2
    <3>2. PICK g \in [Nat -> V] : \A m \in Nat : m < n => g[m] = G[m][g]
      BY <3>1
    <3> DEFINE h == [g EXCEPT ![n] = G[n][g]]
    <3>3. h \in [Nat -> V] /\ h[n] = G[n][g] /\ \A m \in Nat : m < n => h[m] = g[m]
      OBVIOUS
    <3> HIDE DEF h
    <3>4. ASSUME NEW m \in Nat, m <= n PROVE h[m] = G[m][h]
      <4>1. \A i \in Nat : i < m => g[i] = h[i]
        BY <3>3, <3>4
      <4>2. G[m][g] = G[m][h]
        BY <3>3, <4>1
      <4>3. m = n \/ m < n
        BY <3>4
      <4> QED
        BY <3>2, <3>3, <4>2, <4>3
    <3> QED
      BY <3>3, <3>4
  <2> HIDE DEF S
  <2>2. Nat \subseteq S
    BY <2>1, StrongInduction
  <2> QED
    BY <2>2 DEF S
<1>2. ASSUME NEW n \in Nat, NEW g \in [Nat -> V], NEW h \in [Nat -> V], Upto(n, g), Upto(n, h)
      PROVE  \A m \in Nat : m <= n => g[m] = h[m]
  <2> DEFINE S == {m \in Nat : m <= n => g[m] = h[m]}
  <2>1. ASSUME NEW m \in Nat, \A i \in Nat : i < m => i \in S
        PROVE  m \in S
    <3> SUFFICES ASSUME m <= n PROVE g[m] = h[m]
      OBVIOUS
    <3>1. \A i \in Nat : i < m => g[i] = h[i]
      BY <2>1
    <3>2. G[m][g] = G[m][h]
      BY <3>1
    <3> QED
      BY <1>2, <3>2
  <2> HIDE DEF S
  <2>2. Nat \subseteq S
    BY <2>1, StrongInduction
  <2> QED
    BY <2>2 DEF S
<1> DEFINE at(n) == CHOOSE g \in [Nat -> V] : Upto(n, g)
           f == [n \in Nat |-> at(n)[n]]
<1>3. \A n \in Nat : at(n) \in [Nat -> V] /\ Upto(n, at(n))
  BY <1>1
<1> HIDE DEF at
<1>4. f \in [Nat -> V]
  BY <1>3
<1>5. ASSUME NEW n \in Nat PROVE f[n] = G[n][f]
  <2>1. ASSUME NEW m \in Nat, m < n PROVE f[m] = at(n)[m]
    <3>1. Upto(m, at(n)) /\ Upto(m, at(m))
      <4>1. \A i \in Nat : i <= m => i <= n
        BY <2>1
      <4> QED
        BY <1>3, <2>1, <4>1
    <3>2. at(n)[m] = at(m)[m]
      <4>1. at(n) \in [Nat -> V] /\ at(m) \in [Nat -> V] /\ m <= m
        BY <1>3
      <4> QED
        BY <1>2, <3>1, <4>1
    <3> QED
      BY <3>2
  <2>2. at(n) \in [Nat -> V] /\ at(n)[n] = G[n][at(n)]
    BY <1>3
  <2> DEFINE a == at(n)
  <2>3. G[n][f] = G[n][a]
    <3> HIDE DEF f, a
    <3>1. \A m \in Nat : m < n => f[m] = a[m]
      BY <2>1 DEF a
    <3>2. a \in [Nat -> V]
      BY <2>2 DEF a
    <3> QED
      BY <1>4, <3>1, <3>2
  <2> QED
    BY <2>2, <2>3
<1> QED
  BY <1>4, <1>5

-----------------------------------------------------------------------------
(* The texts of JSON *)

CharactersOf(n, f) ==
  IF n = 0 THEN {<<>>}
  ELSE Concat({<<b>> : b \in Bytes \ {"quote", "escape"}}, f[n - 1])
         \cup IF n = 1 THEN {}
              ELSE Concat({<<"escape", b>> : b \in Bytes}, f[n - 2])

ItemOf(k, f) ==
  IF k = 1 THEN {<<"other">>}
  ELSE {<<"quote">> \o s \o <<"quote">> : s \in Characters[k - 2]}
         \cup {<<"{">> \o t \o <<"}">> : t \in f[k - 2]}
         \cup {<<"[">> \o t \o <<"]">> : t \in f[k - 2]}

TextsOf(n, f) ==
  IF n = 0 THEN {<<>>} ELSE UNION {Concat(ItemOf(k, f), f[n - k]) : k \in 1..n}

\* Sets of sequences of bytes and nothing else, so that the definitions recur in a set.
Sets == SUBSET Seq(Bytes)

LEMMA OneByte ==
  ASSUME NEW b \in Bytes
  PROVE  <<b>> \in Seq(Bytes) /\ <<"escape", b>> \in Seq(Bytes)
<1>1. "escape" \in Bytes
  BY DEF Bytes
<1> QED
  BY <1>1

LEMMA ConcatType == ASSUME NEW S \in Sets, NEW T \in Sets PROVE Concat(S, T) \in Sets
<1>1. ASSUME NEW x \in Concat(S, T) PROVE x \in Seq(Bytes)
  <2>1. PICK s \in S, t \in T : x = s \o t
    BY DEF Concat
  <2>2. s \in Seq(Bytes) /\ t \in Seq(Bytes)
    BY DEF Sets
  <2> QED
    BY <2>1, <2>2
<1> QED
  BY <1>1 DEF Sets

LEMMA CharactersType == \A n \in Nat : \A f \in [Nat -> Sets] : CharactersOf(n, f) \in Sets
<1> SUFFICES ASSUME NEW n \in Nat, NEW f \in [Nat -> Sets] PROVE CharactersOf(n, f) \in Sets
  OBVIOUS
<1>1. CASE n = 0
  BY <1>1 DEF CharactersOf, Sets
<1>2. CASE n # 0
  <2>1. f[n - 1] \in Sets /\ (n # 1 => f[n - 2] \in Sets)
    BY <1>2
  <2>2. {<<b>> : b \in Bytes \ {"quote", "escape"}} \in Sets
          /\ {<<"escape", b>> : b \in Bytes} \in Sets
    BY OneByte DEF Sets
  <2>3. /\ Concat({<<b>> : b \in Bytes \ {"quote", "escape"}}, f[n - 1]) \in Sets
        /\ n # 1 => Concat({<<"escape", b>> : b \in Bytes}, f[n - 2]) \in Sets
    BY <2>1, <2>2, ConcatType
  <2> QED
    BY <1>2, <2>3 DEF CharactersOf, Sets
<1> QED
  BY <1>1, <1>2

LEMMA CharactersLocal ==
  ASSUME NEW n \in Nat, NEW f, NEW g, \A m \in Nat : m < n => f[m] = g[m]
  PROVE  CharactersOf(n, f) = CharactersOf(n, g)
<1>1. n # 0 => f[n - 1] = g[n - 1]
  OBVIOUS
<1>2. n # 0 /\ n # 1 => f[n - 2] = g[n - 2]
  OBVIOUS
<1> QED
  BY <1>1, <1>2 DEF CharactersOf

LEMMA CharactersDef ==
  Characters \in [Nat -> Sets] /\ \A n \in Nat : Characters[n] = CharactersOf(n, Characters)
<1> DEFINE G == [n \in Nat |-> [f \in [Nat -> Sets] |-> CharactersOf(n, f)]]
<1>1. G \in [Nat -> [[Nat -> Sets] -> Sets]]
  BY CharactersType
<1>2. \A n \in Nat : \A f \in [Nat -> Sets] : G[n][f] = CharactersOf(n, f)
  OBVIOUS
<1>3. {} \in Sets
  BY DEF Sets
<1> HIDE DEF G
<1>4. ASSUME NEW n \in Nat, NEW f \in [Nat -> Sets], NEW g \in [Nat -> Sets],
             \A m \in Nat : m < n => f[m] = g[m]
      PROVE  G[n][f] = G[n][g]
  BY <1>2, <1>4, CharactersLocal
<1>5. Recurs(G, Sets)
  BY <1>1, <1>4 DEF Recurs
<1>6. \E f \in [Nat -> Sets] : \A n \in Nat : f[n] = G[n][f]
  BY <1>3, <1>5, Recursion
<1>7. PICK f \in [Nat -> Sets] : \A n \in Nat : f[n] = CharactersOf(n, f)
  BY <1>2, <1>6
<1>8. Characters = CHOOSE g : g = [n \in Nat |-> CharactersOf(n, g)]
  BY DEF Characters, CharactersOf
<1>9. Characters = [n \in Nat |-> CharactersOf(n, Characters)]
  <2>1. f = [n \in Nat |-> CharactersOf(n, f)]
    BY <1>7
  <2> QED
    BY <1>8, <2>1
<1>10. Characters = f
  <2> DEFINE S == {n \in Nat : Characters[n] = f[n]}
  <2>1. ASSUME NEW n \in Nat, \A m \in Nat : m < n => m \in S
        PROVE  n \in S
    <3>1. CharactersOf(n, Characters) = CharactersOf(n, f)
      BY <2>1, CharactersLocal
    <3> QED
      BY <1>7, <1>9, <3>1
  <2> HIDE DEF S
  <2>2. Nat \subseteq S
    BY <2>1, StrongInduction
  <2>3. \A n \in Nat : Characters[n] = f[n]
    BY <2>2 DEF S
  <2> QED
    BY <1>9, <2>3
<1> QED
  BY <1>7, <1>10

LEMMA ItemType ==
  ASSUME NEW k \in Nat, k # 0, NEW f, k # 1 => f[k - 2] \in Sets
  PROVE  ItemOf(k, f) \in Sets
<1>1. CASE k = 1
  <2>1. <<"other">> \in Seq(Bytes)
    BY OneByte DEF Bytes
  <2> QED
    BY <1>1, <2>1 DEF ItemOf, Sets
<1>2. CASE k # 1
  <2>1. Characters[k - 2] \in Sets /\ f[k - 2] \in Sets
    BY <1>2, CharactersDef
  <2>2. ASSUME NEW a \in Bytes, NEW b \in Bytes, NEW s \in Seq(Bytes)
        PROVE  <<a>> \o s \o <<b>> \in Seq(Bytes)
    BY OneByte
  <2>3. "quote" \in Bytes /\ "{" \in Bytes /\ "}" \in Bytes /\ "[" \in Bytes /\ "]" \in Bytes
    BY DEF Bytes
  <2>4. ASSUME NEW x \in ItemOf(k, f) PROVE x \in Seq(Bytes)
    <3>1. CASE \E s \in Characters[k - 2] : x = <<"quote">> \o s \o <<"quote">>
      BY <2>1, <2>2, <2>3, <3>1 DEF Sets
    <3>2. CASE \E s \in f[k - 2] : x = <<"{">> \o s \o <<"}">>
      BY <2>1, <2>2, <2>3, <3>2 DEF Sets
    <3>3. CASE \E s \in f[k - 2] : x = <<"[">> \o s \o <<"]">>
      BY <2>1, <2>2, <2>3, <3>3 DEF Sets
    <3> QED
      BY <1>2, <2>4, <3>1, <3>2, <3>3 DEF ItemOf
  <2> QED
    BY <2>4 DEF Sets
<1> QED
  BY <1>1, <1>2

LEMMA TextsType == \A n \in Nat : \A f \in [Nat -> Sets] : TextsOf(n, f) \in Sets
<1> SUFFICES ASSUME NEW n \in Nat, NEW f \in [Nat -> Sets] PROVE TextsOf(n, f) \in Sets
  OBVIOUS
<1>1. CASE n = 0
  BY <1>1 DEF TextsOf, Sets
<1>2. CASE n # 0
  <2>1. ASSUME NEW k \in 1..n PROVE Concat(ItemOf(k, f), f[n - k]) \in Sets
    <3>1. k \in Nat /\ k # 0 /\ n - k \in Nat /\ (k # 1 => k - 2 \in Nat)
      OBVIOUS
    <3>2. ItemOf(k, f) \in Sets
      BY <3>1, ItemType
    <3> QED
      BY <3>1, <3>2, ConcatType
  <2> QED
    BY <1>2, <2>1 DEF TextsOf, Sets
<1> QED
  BY <1>1, <1>2

LEMMA TextsLocal ==
  ASSUME NEW n \in Nat, NEW f, NEW g, \A m \in Nat : m < n => f[m] = g[m]
  PROVE  TextsOf(n, f) = TextsOf(n, g)
<1>1. ASSUME NEW k \in 1..n
      PROVE  ItemOf(k, f) = ItemOf(k, g) /\ f[n - k] = g[n - k]
  <2>1. n - k \in Nat /\ n - k < n /\ (k # 1 => k - 2 \in Nat /\ k - 2 < n)
    OBVIOUS
  <2>2. f[n - k] = g[n - k] /\ (k # 1 => f[k - 2] = g[k - 2])
    BY <2>1
  <2> QED
    BY <2>2 DEF ItemOf
<1> QED
  BY <1>1 DEF TextsOf

LEMMA TextsDef == Texts \in [Nat -> Sets] /\ \A n \in Nat : Texts[n] = TextsOf(n, Texts)
<1> DEFINE G == [n \in Nat |-> [f \in [Nat -> Sets] |-> TextsOf(n, f)]]
<1>1. G \in [Nat -> [[Nat -> Sets] -> Sets]]
  BY TextsType
<1>2. \A n \in Nat : \A f \in [Nat -> Sets] : G[n][f] = TextsOf(n, f)
  OBVIOUS
<1>3. {} \in Sets
  BY DEF Sets
<1> HIDE DEF G
<1>4. ASSUME NEW n \in Nat, NEW f \in [Nat -> Sets], NEW g \in [Nat -> Sets],
             \A m \in Nat : m < n => f[m] = g[m]
      PROVE  G[n][f] = G[n][g]
  BY <1>2, <1>4, TextsLocal
<1>5. Recurs(G, Sets)
  BY <1>1, <1>4 DEF Recurs
<1>6. \E f \in [Nat -> Sets] : \A n \in Nat : f[n] = G[n][f]
  BY <1>3, <1>5, Recursion
<1>7. PICK f \in [Nat -> Sets] : \A n \in Nat : f[n] = TextsOf(n, f)
  BY <1>2, <1>6
<1>8. Texts = CHOOSE g : g = [n \in Nat |-> TextsOf(n, g)]
  BY DEF Texts, TextsOf, ItemOf
<1>9. Texts = [n \in Nat |-> TextsOf(n, Texts)]
  <2>1. f = [n \in Nat |-> TextsOf(n, f)]
    BY <1>7
  <2> QED
    BY <1>8, <2>1
<1>10. Texts = f
  <2> DEFINE S == {n \in Nat : Texts[n] = f[n]}
  <2>1. ASSUME NEW n \in Nat, \A m \in Nat : m < n => m \in S
        PROVE  n \in S
    <3>1. TextsOf(n, Texts) = TextsOf(n, f)
      BY <2>1, TextsLocal
    <3> QED
      BY <1>7, <1>9, <3>1
  <2> HIDE DEF S
  <2>2. Nat \subseteq S
    BY <2>1, StrongInduction
  <2>3. \A n \in Nat : Texts[n] = f[n]
    BY <2>2 DEF S
  <2> QED
    BY <1>9, <2>3
<1> QED
  BY <1>7, <1>10

-----------------------------------------------------------------------------
(* The scan of a text of JSON *)

\* The states of a scan that has at least b braces and c brackets open.
AtLeast(b, c) ==
  {s \in [braces : Int, brackets : Int, inString : BOOLEAN, escaped : BOOLEAN] :
     s.braces >= b /\ s.brackets >= c}
Outside(b, c) == [braces |-> b, brackets |-> c, inString |-> FALSE, escaped |-> FALSE]
Within(b, c) == [braces |-> b, brackets |-> c, inString |-> TRUE, escaped |-> FALSE]

\* The scan goes over t from state s to state u, and never below b and c.
Steps(f, t) == \A i \in 1..Len(t) : f[i] = Scanned(f[i - 1], t[i])
Leads(b, c, s, t, u) ==
  \E f \in [0..Len(t) -> AtLeast(b, c)] : f[0] = s /\ f[Len(t)] = u /\ Steps(f, t)

LEMMA LeadsNowhere ==
  ASSUME NEW b \in Int, NEW c \in Int, NEW s \in AtLeast(b, c)
  PROVE  Leads(b, c, s, <<>>, s)
<1> DEFINE f == [i \in 0..0 |-> s]
<1>1. f \in [0..Len(<<>>) -> AtLeast(b, c)] /\ f[0] = s /\ f[Len(<<>>)] = s
  OBVIOUS
<1>2. Steps(f, <<>>)
  BY DEF Steps
<1> QED
  BY <1>1, <1>2 DEF Leads

LEMMA LeadsOn ==
  ASSUME NEW b \in Int, NEW c \in Int, NEW s \in AtLeast(b, c), NEW x,
         NEW u \in AtLeast(b, c), u = Scanned(s, x)
  PROVE  Leads(b, c, s, <<x>>, u)
<1> DEFINE f == [i \in 0..1 |-> IF i = 0 THEN s ELSE u]
<1>1. Len(<<x>>) = 1 /\ <<x>>[1] = x
  OBVIOUS
<1>2. f \in [0..1 -> AtLeast(b, c)] /\ f[0] = s /\ f[1] = u
  OBVIOUS
<1> HIDE DEF f
<1>3. Steps(f, <<x>>)
  <2> SUFFICES ASSUME NEW i \in 1..1 PROVE f[i] = Scanned(f[i - 1], <<x>>[i])
    BY <1>1 DEF Steps
  <2>1. i = 1 /\ i - 1 = 0
    OBVIOUS
  <2> QED
    BY <1>1, <1>2, <2>1
<1> QED
  BY <1>1, <1>2, <1>3 DEF Leads

LEMMA LeadsFurther ==
  ASSUME NEW b \in Int, NEW c \in Int, NEW t \in Seq(Bytes), NEW v \in Seq(Bytes),
         NEW s, NEW u, NEW w, Leads(b, c, s, t, u), Leads(b, c, u, v, w)
  PROVE  Leads(b, c, s, t \o v, w)
<1>1. PICK f \in [0..Len(t) -> AtLeast(b, c)] : f[0] = s /\ f[Len(t)] = u /\ Steps(f, t)
  BY DEF Leads
<1>2. PICK g \in [0..Len(v) -> AtLeast(b, c)] : g[0] = u /\ g[Len(v)] = w /\ Steps(g, v)
  BY DEF Leads
<1> DEFINE m == Len(t)
           n == Len(v)
           h == [i \in 0..(m + n) |-> IF i <= m THEN f[i] ELSE g[i - m]]
<1>3. m \in Nat /\ n \in Nat /\ Len(t \o v) = m + n
  OBVIOUS
<1>4. h \in [0..(m + n) -> AtLeast(b, c)]
  <2> SUFFICES ASSUME NEW i \in 0..(m + n)
               PROVE  (IF i <= m THEN f[i] ELSE g[i - m]) \in AtLeast(b, c)
    OBVIOUS
  <2>1. i <= m => i \in 0..m
    BY <1>3
  <2>2. ~(i <= m) => i - m \in 0..n
    BY <1>3
  <2> QED
    BY <1>1, <1>2, <2>1, <2>2
<1>5. \A i \in 0..m : h[i] = f[i]
  BY <1>3
<1>6. \A i \in 0..n : h[i + m] = g[i]
  <2> SUFFICES ASSUME NEW i \in 0..n PROVE h[i + m] = g[i]
    OBVIOUS
  <2>1. i + m \in 0..(m + n) /\ (i + m) - m = i
    BY <1>3
  <2>2. CASE i = 0
    <3>1. i + m = m /\ m \in 0..m
      BY <1>3, <2>2
    <3> QED
      BY <1>1, <1>2, <1>5, <2>2, <3>1
  <2>3. CASE i # 0
    <3>1. ~(i + m <= m)
      BY <1>3, <2>3
    <3> QED
      BY <2>1, <3>1
  <2> QED
    BY <2>2, <2>3
<1> HIDE DEF h
<1>7. ASSUME NEW i \in 1..(m + n) PROVE h[i] = Scanned(h[i - 1], (t \o v)[i])
  <2>1. CASE i <= m
    <3>1. i \in 1..m /\ i \in 0..m /\ i - 1 \in 0..m
      BY <1>3, <2>1
    <3>2. (t \o v)[i] = t[i]
      BY <3>1
    <3> QED
      BY <1>1, <1>5, <3>1, <3>2 DEF Steps
  <2>2. CASE ~(i <= m)
    <3> DEFINE j == i - m
    <3>1. j \in 1..n /\ j \in 0..n /\ j - 1 \in 0..n /\ j + m = i /\ (j - 1) + m = i - 1
      BY <1>3, <2>2
    <3>2. (t \o v)[i] = v[j]
      BY <2>2, <3>1
    <3>3. h[i] = g[j] /\ h[i - 1] = g[j - 1]
      BY <1>6, <3>1
    <3> QED
      BY <1>2, <3>1, <3>2, <3>3 DEF Steps
  <2> QED
    BY <2>1, <2>2
<1>8. h[0] = s /\ h[m + n] = w
  <2>1. 0 \in 0..m /\ n \in 0..n /\ n + m = m + n
    BY <1>3
  <2> QED
    BY <1>1, <1>2, <1>5, <1>6, <2>1
<1>9. Steps(h, t \o v)
  BY <1>3, <1>7 DEF Steps
<1> QED
  BY <1>3, <1>4, <1>8, <1>9 DEF Leads

LEMMA LeadsLower ==
  ASSUME NEW b \in Int, NEW c \in Int, NEW b1 \in Int, NEW c1 \in Int, b1 >= b, c1 >= c,
         NEW s, NEW t, NEW u, Leads(b1, c1, s, t, u)
  PROVE  Leads(b, c, s, t, u)
<1>1. AtLeast(b1, c1) \subseteq AtLeast(b, c)
  BY DEF AtLeast
<1>2. PICK f \in [0..Len(t) -> AtLeast(b1, c1)] : f[0] = s /\ f[Len(t)] = u /\ Steps(f, t)
  BY DEF Leads
<1>3. f \in [0..Len(t) -> AtLeast(b, c)]
  BY <1>1
<1> QED
  BY <1>2, <1>3 DEF Leads

LEMMA ScanStates ==
  ASSUME NEW b \in Int, NEW c \in Int, NEW b1 \in Int, NEW c1 \in Int, b1 >= b, c1 >= c
  PROVE  Outside(b1, c1) \in AtLeast(b, c) /\ Within(b1, c1) \in AtLeast(b, c)
  BY DEF AtLeast, Outside, Within

LEMMA ScanStateHere ==
  ASSUME NEW b \in Int, NEW c \in Int
  PROVE  Outside(b, c) \in AtLeast(b, c) /\ Within(b, c) \in AtLeast(b, c)
<1>1. b >= b /\ c >= c
  OBVIOUS
<1> QED
  BY <1>1, ScanStates

\* One byte, outside and within a string.
LEMMA ScanByte ==
  ASSUME NEW b \in Int, NEW c \in Int
  PROVE  /\ Scanned(Outside(b, c), "other") = Outside(b, c)
         /\ Scanned(Outside(b, c), "quote") = Within(b, c)
         /\ Scanned(Within(b, c), "quote") = Outside(b, c)
         /\ Scanned(Outside(b, c), "{") = Outside(b + 1, c)
         /\ Scanned(Outside(b + 1, c), "}") = Outside(b, c)
         /\ Scanned(Outside(b, c), "[") = Outside(b, c + 1)
         /\ Scanned(Outside(b, c + 1), "]") = Outside(b, c)
         /\ \A x \in Bytes \ {"quote", "escape"} :
              Scanned(Within(b, c), x) = Within(b, c)
<1>1. /\ Scanned(Outside(b + 1, c), "}") = Outside(b, c)
      /\ Scanned(Outside(b, c + 1), "]") = Outside(b, c)
  <2>1. (b + 1) - 1 = b /\ (c + 1) - 1 = c
    OBVIOUS
  <2> QED
    BY <2>1 DEF Scanned, Outside
<1>2. \A x \in Bytes \ {"quote", "escape"} : Scanned(Within(b, c), x) = Within(b, c)
  BY DEF Scanned, Within
<1> QED
  BY <1>1, <1>2 DEF Scanned, Outside, Within

\* A backslash in a string takes the next byte with it.
LEMMA ScanEscape ==
  ASSUME NEW b \in Int, NEW c \in Int, NEW x \in Bytes
  PROVE  Leads(b, c, Within(b, c), <<"escape", x>>, Within(b, c))
<1> DEFINE s == Within(b, c)
           e == [braces |-> b, brackets |-> c, inString |-> TRUE, escaped |-> TRUE]
<1>1. s \in AtLeast(b, c) /\ e \in AtLeast(b, c)
  BY DEF AtLeast, Within
<1>2. e = Scanned(s, "escape") /\ s = Scanned(e, x)
  BY DEF Scanned, Within
<1>3. <<"escape", x>> = <<"escape">> \o <<x>>
  OBVIOUS
<1>4. <<"escape">> \in Seq(Bytes) /\ <<x>> \in Seq(Bytes)
  BY OneByte DEF Bytes
<1> HIDE DEF s, e
<1>5. Leads(b, c, s, <<"escape">>, e) /\ Leads(b, c, e, <<x>>, s)
  BY <1>1, <1>2, LeadsOn
<1>6. Leads(b, c, s, <<"escape">> \o <<x>>, s)
  BY <1>4, <1>5, LeadsFurther
<1> QED
  BY <1>3, <1>6 DEF s

\* What is within quotes leaves the scan within the string, and the counts alone.
LEMMA ScanCharacters ==
  \A n \in Nat : \A t \in Characters[n] : \A b, c \in Int :
    Leads(b, c, Within(b, c), t, Within(b, c))
<1> DEFINE Stays(t) == \A b, c \in Int :
             Leads(b, c, Within(b, c), t, Within(b, c))
           S == {n \in Nat : \A t \in Characters[n] : Stays(t)}
<1>1. ASSUME NEW n \in Nat, \A m \in Nat : m < n => m \in S
      PROVE  n \in S
  <2>1. ASSUME NEW t \in Characters[n], NEW b \in Int, NEW c \in Int
        PROVE  Leads(b, c, Within(b, c), t, Within(b, c))
    <3> DEFINE s == Within(b, c)
    <3>0. t \in CharactersOf(n, Characters) /\ s \in AtLeast(b, c)
      BY CharactersDef, ScanStateHere
    <3>1. ASSUME NEW h \in Seq(Bytes), NEW m \in Nat, m < n, NEW v \in Characters[m],
                 t = h \o v, Leads(b, c, s, h, s)
          PROVE  Leads(b, c, s, t, s)
      <4>1. v \in Seq(Bytes)
        BY CharactersDef DEF Sets
      <4>2. Stays(v)
        BY <1>1, <3>1
      <4>3. Leads(b, c, s, v, s)
        BY <4>2
      <4> HIDE DEF s
      <4> QED
        BY <3>1, <4>1, <4>3, LeadsFurther
    <3>2. CASE n = 0
      <4>1. t = <<>>
        BY <3>0, <3>2 DEF CharactersOf
      <4> QED
        BY <3>0, <4>1, LeadsNowhere
    <3>3. CASE n # 0 /\ t \in Concat({<<x>> : x \in Bytes \ {"quote", "escape"}}, Characters[n - 1])
      <4>0. PICK h \in {<<x>> : x \in Bytes \ {"quote", "escape"}}, v \in Characters[n - 1] : t = h \o v
        BY <3>3 DEF Concat
      <4>1. PICK x \in Bytes \ {"quote", "escape"} : h = <<x>>
        BY <4>0
      <4>2. Leads(b, c, s, <<x>>, s)
        <5>1. s = Scanned(s, x)
          BY ScanByte
        <5> QED
          BY <3>0, <5>1, LeadsOn
      <4>3. n - 1 \in Nat /\ n - 1 < n
        BY <3>3
      <4> QED
        BY <3>1, <4>0, <4>1, <4>2, <4>3, OneByte
    <3>4. CASE n # 0 /\ n # 1 /\ t \in Concat({<<"escape", x>> : x \in Bytes}, Characters[n - 2])
      <4>0. PICK h \in {<<"escape", x>> : x \in Bytes}, v \in Characters[n - 2] : t = h \o v
        BY <3>4 DEF Concat
      <4>1. PICK x \in Bytes : h = <<"escape", x>>
        BY <4>0
      <4>2. Leads(b, c, s, <<"escape", x>>, s)
        BY ScanEscape
      <4>3. n - 2 \in Nat /\ n - 2 < n
        BY <3>4
      <4> QED
        BY <3>1, <4>0, <4>1, <4>2, <4>3, OneByte
    <3> QED
      BY <3>0, <3>2, <3>3, <3>4 DEF CharactersOf
  <2> QED
    BY <2>1
<1> HIDE DEF S
<1>2. Nat \subseteq S
  BY <1>1, StrongInduction
<1> QED
  BY <1>2 DEF S

\* A first byte that leads from s to u, a middle that keeps u, a last byte that leads back.
LEMMA ScanWithin ==
  ASSUME NEW b \in Int, NEW c \in Int, NEW s \in AtLeast(b, c), NEW u \in AtLeast(b, c),
         NEW x \in Bytes, NEW y \in Bytes, NEW t \in Seq(Bytes),
         u = Scanned(s, x), Leads(b, c, u, t, u), s = Scanned(u, y)
  PROVE  Leads(b, c, s, <<x>> \o t \o <<y>>, s)
<1>1. <<x>> \in Seq(Bytes) /\ <<y>> \in Seq(Bytes) /\ <<x>> \o t \in Seq(Bytes)
  OBVIOUS
<1>2. Leads(b, c, s, <<x>>, u) /\ Leads(b, c, u, <<y>>, s)
  BY LeadsOn
<1>3. Leads(b, c, s, <<x>> \o t, u)
  BY <1>1, <1>2, LeadsFurther
<1> QED
  BY <1>1, <1>2, <1>3, LeadsFurther

\* An item, if the shorter texts do, leaves the scan as it was.
LEMMA ScanItem ==
  ASSUME NEW b \in Int, NEW c \in Int, NEW k \in Nat, k # 0, NEW t \in ItemOf(k, Texts),
         k # 1 => \A v \in Texts[k - 2] : \A b1, c1 \in Int :
                    Leads(b1, c1, Outside(b1, c1), v, Outside(b1, c1))
  PROVE  Leads(b, c, Outside(b, c), t, Outside(b, c))
<1> DEFINE s == Outside(b, c)
<1>0. s \in AtLeast(b, c)
  BY ScanStateHere
<1>1. CASE k = 1
  <2>1. t = <<"other">> /\ s = Scanned(s, "other")
    BY <1>1, ScanByte DEF ItemOf
  <2> QED
    BY <1>0, <2>1, LeadsOn
<1>2. CASE k # 1
  <2>0. /\ k - 2 \in Nat
        /\ Characters[k - 2] \subseteq Seq(Bytes) /\ Texts[k - 2] \subseteq Seq(Bytes)
    BY <1>2, CharactersDef, TextsDef DEF Sets
  <2>1. CASE \E v \in Characters[k - 2] : t = <<"quote">> \o v \o <<"quote">>
    <3> DEFINE u == Within(b, c)
    <3>1. PICK v \in Characters[k - 2] : t = <<"quote">> \o v \o <<"quote">>
      BY <2>1
    <3>2. u \in AtLeast(b, c) /\ u = Scanned(s, "quote") /\ s = Scanned(u, "quote")
      BY ScanStateHere, ScanStates, ScanByte
    <3>3. Leads(b, c, u, v, u) /\ v \in Seq(Bytes) /\ "quote" \in Bytes
      BY <2>0, ScanCharacters DEF Bytes
    <3> HIDE DEF s, u
    <3> QED
      BY <1>0, <3>1, <3>2, <3>3, ScanWithin DEF s
  <2>2. CASE \E v \in Texts[k - 2] : t = <<"{">> \o v \o <<"}">>
    <3> DEFINE u == Outside(b + 1, c)
    <3>1. PICK v \in Texts[k - 2] : t = <<"{">> \o v \o <<"}">>
      BY <2>2
    <3>2. b + 1 \in Int /\ c + 1 \in Int /\ b + 1 >= b /\ c + 1 >= c /\ b >= b /\ c >= c
      OBVIOUS
    <3>3. u \in AtLeast(b, c)
      BY <3>2, ScanStates
    <3>4. u = Scanned(s, "{")
      BY ScanByte
    <3>5. s = Scanned(u, "}")
      BY ScanByte
    <3>6. Leads(b + 1, c, u, v, u)
      BY <1>2, <3>2
    <3>7. v \in Seq(Bytes) /\ "{" \in Bytes /\ "}" \in Bytes
      BY <2>0 DEF Bytes
    <3>8. Leads(b, c, u, v, u)
      <4> HIDE DEF u
      <4> QED
        BY <3>2, <3>6, LeadsLower
    <3> HIDE DEF s, u
    <3> QED
      BY <1>0, <3>1, <3>3, <3>4, <3>5, <3>7, <3>8, ScanWithin DEF s
  <2>3. CASE \E v \in Texts[k - 2] : t = <<"[">> \o v \o <<"]">>
    <3> DEFINE u == Outside(b, c + 1)
    <3>1. PICK v \in Texts[k - 2] : t = <<"[">> \o v \o <<"]">>
      BY <2>3
    <3>2. b + 1 \in Int /\ c + 1 \in Int /\ b + 1 >= b /\ c + 1 >= c /\ b >= b /\ c >= c
      OBVIOUS
    <3>3. u \in AtLeast(b, c)
      BY <3>2, ScanStates
    <3>4. u = Scanned(s, "[")
      BY ScanByte
    <3>5. s = Scanned(u, "]")
      BY ScanByte
    <3>6. Leads(b, c + 1, u, v, u)
      BY <1>2, <3>2
    <3>7. v \in Seq(Bytes) /\ "[" \in Bytes /\ "]" \in Bytes
      BY <2>0 DEF Bytes
    <3>8. Leads(b, c, u, v, u)
      <4> HIDE DEF u
      <4> QED
        BY <3>2, <3>6, LeadsLower
    <3> HIDE DEF s, u
    <3> QED
      BY <1>0, <3>1, <3>3, <3>4, <3>5, <3>7, <3>8, ScanWithin DEF s
  <2> QED
    BY <1>2, <2>1, <2>2, <2>3 DEF ItemOf
<1> QED
  BY <1>1, <1>2

LEMMA ScanTexts ==
  \A n \in Nat : \A t \in Texts[n] : \A b, c \in Int :
    Leads(b, c, Outside(b, c), t, Outside(b, c))
<1> DEFINE Stays(t) == \A b, c \in Int :
             Leads(b, c, Outside(b, c), t, Outside(b, c))
           S == {n \in Nat : \A t \in Texts[n] : Stays(t)}
<1>1. ASSUME NEW n \in Nat, \A m \in Nat : m < n => m \in S
      PROVE  n \in S
  <2>1. ASSUME NEW t \in Texts[n], NEW b \in Int, NEW c \in Int
        PROVE  Leads(b, c, Outside(b, c), t, Outside(b, c))
    <3> DEFINE s == Outside(b, c)
    <3>1. t \in TextsOf(n, Texts) /\ s \in AtLeast(b, c)
      BY TextsDef, ScanStateHere
    <3>2. CASE n = 0
      <4>1. t = <<>>
        BY <3>1, <3>2 DEF TextsOf
      <4> QED
        BY <3>1, <4>1, LeadsNowhere
    <3>3. CASE n # 0
      <4>1. PICK k \in 1..n : t \in Concat(ItemOf(k, Texts), Texts[n - k])
        BY <3>1, <3>3 DEF TextsOf
      <4>2. PICK h \in ItemOf(k, Texts), v \in Texts[n - k] : t = h \o v
        BY <4>1 DEF Concat
      <4>3. /\ k \in Nat /\ k # 0 /\ n - k \in Nat /\ n - k < n
            /\ k # 1 => k - 2 \in Nat /\ k - 2 < n
        OBVIOUS
      <4>4. Stays(v) /\ (k # 1 => \A w \in Texts[k - 2] : Stays(w))
        BY <1>1, <4>3
      <4>5. h \in Seq(Bytes) /\ v \in Seq(Bytes)
        <5>1. k # 1 => Texts[k - 2] \in Sets
          BY <4>3, TextsDef
        <5> QED
          BY <4>3, <5>1, ItemType, TextsDef DEF Sets
      <4>6. Leads(b, c, s, h, s)
        BY <4>3, <4>4, ScanItem
      <4>7. Leads(b, c, s, v, s)
        BY <4>4
      <4> HIDE DEF s
      <4> QED
        BY <4>2, <4>5, <4>6, <4>7, LeadsFurther DEF s
    <3> QED
      BY <3>2, <3>3
  <2> QED
    BY <2>1
<1> HIDE DEF S
<1>2. Nat \subseteq S
  BY <1>1, StrongInduction
<1> QED
  BY <1>2 DEF S

\* The scan that is defined by recursion is the one that leads over the text.
LEMMA ScanIs ==
  ASSUME NEW t \in Seq(Bytes), Leads(0, 0, Outside(0, 0), t, Outside(0, 0))
  PROVE  isValidJSONStructure(t)
<1> DEFINE z == Outside(0, 0)
           Of(g) == [i \in 0..Len(t) |-> IF i = 0 THEN z ELSE Scanned(g[i - 1], t[i])]
           scan == CHOOSE g : g = Of(g)
<1>1. PICK f \in [0..Len(t) -> AtLeast(0, 0)] : f[0] = z /\ f[Len(t)] = z /\ Steps(f, t)
  BY DEF Leads
<1>2. f = Of(f)
  <2>1. ASSUME NEW i \in 0..Len(t) PROVE f[i] = Of(f)[i]
    <3>1. CASE i = 0
      BY <1>1, <3>1
    <3>2. CASE i # 0
      <4>1. i \in 1..Len(t)
        BY <3>2
      <4>2. f[i] = Scanned(f[i - 1], t[i])
        BY <1>1, <4>1 DEF Steps
      <4> QED
        BY <3>2, <4>2
    <3> QED
      BY <3>1, <3>2
  <2> QED
    BY <2>1
<1>3. scan = Of(scan)
  <2> HIDE DEF Of
  <2> QED
    BY <1>2
<1> HIDE DEF scan
<1>4. DOMAIN scan = 0..Len(t) /\ scan[0] = z
        /\ \A i \in 1..Len(t) : scan[i] = Scanned(scan[i - 1], t[i])
  <2>1. Len(t) \in Nat
    OBVIOUS
  <2>2. \A i \in 0..Len(t) : scan[i] = IF i = 0 THEN z ELSE Scanned(scan[i - 1], t[i])
    BY <1>3
  <2> HIDE DEF z
  <2> QED
    BY <1>3, <2>1, <2>2
<1>5. \A i \in 0..Len(t) : scan[i] = f[i]
  <2> DEFINE S == {i \in Nat : i <= Len(t) => scan[i] = f[i]}
  <2>1. ASSUME NEW i \in Nat, \A m \in Nat : m < i => m \in S
        PROVE  i \in S
    <3> SUFFICES ASSUME i <= Len(t) PROVE scan[i] = f[i]
      OBVIOUS
    <3>1. CASE i = 0
      BY <1>1, <1>4, <3>1
    <3>2. CASE i # 0
      <4>1. i \in 1..Len(t) /\ i - 1 \in Nat /\ i - 1 < i /\ i - 1 <= Len(t)
        BY <3>2
      <4>2. scan[i - 1] = f[i - 1]
        BY <2>1, <4>1
      <4> QED
        BY <1>1, <1>4, <4>1, <4>2 DEF Steps
    <3> QED
      BY <3>1, <3>2
  <2> HIDE DEF S
  <2>2. Nat \subseteq S
    BY <2>1, StrongInduction
  <2> QED
    BY <2>2 DEF S
<1>6. \A i \in DOMAIN scan : scan[i].braces >= 0 /\ scan[i].brackets >= 0
  <2>1. \A i \in 0..Len(t) : f[i] \in AtLeast(0, 0)
    OBVIOUS
  <2>2. \A i \in 0..Len(t) : f[i].braces >= 0 /\ f[i].brackets >= 0
    BY <2>1 DEF AtLeast
  <2> QED
    BY <1>4, <1>5, <2>2
<1>7. scan[Len(t)].braces = 0 /\ scan[Len(t)].brackets = 0
  <2>1. Len(t) \in 0..Len(t)
    OBVIOUS
  <2>2. scan[Len(t)] = z
    BY <1>1, <1>5, <2>1
  <2> QED
    BY <2>2 DEF Outside
<1>8. isValidJSONStructure(t)
        = (/\ \A i \in DOMAIN scan : scan[i].braces >= 0 /\ scan[i].brackets >= 0
           /\ scan[Len(t)].braces = 0 /\ scan[Len(t)].brackets = 0)
  BY DEF isValidJSONStructure, scan, Outside
<1> QED
  BY <1>6, <1>7, <1>8

LEMMA TextsAreValid == \A n \in Nat : \A t \in Texts[n] : isValidJSONStructure(t)
<1> SUFFICES ASSUME NEW n \in Nat, NEW t \in Texts[n] PROVE isValidJSONStructure(t)
  OBVIOUS
<1>1. t \in Seq(Bytes)
  BY TextsDef DEF Sets
<1>2. Leads(0, 0, Outside(0, 0), t, Outside(0, 0))
  BY ScanTexts
<1> QED
  BY <1>1, <1>2, ScanIs

-----------------------------------------------------------------------------
(* No text of JSON is refused for its structure *)

\* A refusal for the structure is the verdict on the request it is told of.
RefusalIsVerdict == status = "bad JSON" => ValidateRequestBody(request) = "bad JSON"

LEMMA RefusalIsVerdictStep ==
  RequestTypeOK /\ RefusalIsVerdict /\ [Next]_vars => RefusalIsVerdict'
<1> SUFFICES ASSUME RequestTypeOK, RefusalIsVerdict, [Next]_vars PROVE RefusalIsVerdict'
  OBVIOUS
<1> USE DEF RefusalIsVerdict
<1>1. CASE UNCHANGED requestVars
  BY <1>1 DEF requestVars
<1>2. CASE (\E r \in Incoming : RequestArrives(r)) \/ RequestOver
  BY <1>2 DEF RequestArrives, RequestOver
<1>3. CASE HeadChecked \/ HandlerStep \/ Served \/ TimesOut
  BY <1>3 DEF HeadChecked, HandlerStep, Served, TimesOut, Reply
<1>4. CASE BodyChecked
  BY <1>4 DEF BodyChecked, Reply
<1> QED
  BY <1>1, <1>2, <1>3, <1>4, RequestsOrNot DEF RequestNext

LEMMA LengthOfBody == ASSUME NEW t \in Seq(Bytes) PROVE Len(t) \in Nat
  OBVIOUS

LEMMA VerdictIsNotOnText ==
  ASSUME NEW r \in RequestType, ValidateRequestBody(r) = "bad JSON"
  PROVE  r.body \notin Texts[Len(r.body)]
<1>1. ~TooLarge(ReadAll(r.body)) /\ ~isValidJSONStructure(ReadAll(r.body))
  BY DEF ValidateRequestBody
<1>2. ReadAll(r.body) = r.body
  BY <1>1, ReadWhole
<1>3. Len(r.body) \in Nat
  BY LengthOfBody DEF RequestType
<1> QED
  BY <1>1, <1>2, <1>3, TextsAreValid

\* isValidJSONStructure, which counts braces and brackets apart and steps over
\* strings, refuses no body whose brackets nest and whose strings end, of any
\* length and whatever the limits.
THEOREM GoodTextsPass == Spec => []GoodJSONPasses
<1>1. Init => RefusalIsVerdict
  BY DEF Init, RequestInit, RefusalIsVerdict
<1>2. Types => RequestTypeOK
  BY DEF Types
<1>3. RequestTypeOK /\ RefusalIsVerdict => GoodJSONPasses
  BY VerdictIsNotOnText DEF RefusalIsVerdict, GoodJSONPasses, RequestTypeOK
<1> QED
  BY <1>1, <1>2, <1>3, RefusalIsVerdictStep, Typed, PTL DEF Spec
=============================================================================
