-------------------------------- MODULE Gate --------------------------------
(***************************************************************************)
(* internal/validation: a RateLimiter and who uses it.  A limiter either   *)
(* stands behind its own middlewares (HTTPMiddleware, WebSocketMiddleware, *)
(* ratelimit.go) or belongs to a WebSocketValidator                        *)
(* (websocket_middleware.go), which makes one for itself and keeps a map   *)
(* of connections and limits of its own beside it.                         *)
(*                                                                         *)
(* What an upgrade or a message must look like is a set of flaws it may    *)
(* not have.  The counters of messages and bytes, which nothing reads, are *)
(* left out.  A third behaviour is a request in a RequestValidator's own   *)
(* middlewares, which share no state with the rest.                        *)
(***************************************************************************)
EXTENDS RateLimiter, RequestValidator, FiniteSets

CONSTANTS Conns,               \* connections, or goroutines that serve one
          WsMaxConnections, WsMaxConnectionsPerIP,  \* the validator's own limits
          CollidesOnce,        \* bound: whether the clock gives a live ID twice only once
          PrefixOf,            \* the pairs of addresses whose second begins as the first
          Upgrades, Messages,  \* the flaws of the upgrades and messages that may come
          NoID, NoIP

ASSUME GateAssumption ==
  /\ IsFiniteSet(Conns)
  /\ WsMaxConnections \in Nat /\ WsMaxConnectionsPerIP \in Nat
  /\ CollidesOnce \in BOOLEAN
  /\ PrefixOf \subseteq IPs \X IPs
  /\ NoID \notin ClientIDs /\ NoIP \notin IPs

VARIABLES
  owner,        \* who uses the limiter: its "middleware", a "validator" or, for a
                \* behaviour of the RequestValidator alone, "nobody"
  place,        \* conn -> "idle", "upgrading" (ValidateUpgrade has passed),
                \* "entered" (in the map), "refused" (by the limiter), "open", and
                \* "gone" once a connection of the validator's has ended
  who,          \* conn -> its client ID
  from,         \* conn -> its client IP: a header, or the remote address
  remote,       \* conn -> its remote address
  connections,  \* wsv.connections: client ID -> conn
  quiet,        \* the conns in the map whose LastActivity is ConnectionTimeout ago
  collided,     \* history: the clock has given two connections one ID
  roamed        \* history: an ID has connected from an IP not its entry's

connVars == <<place, who, from, remote, connections, quiet, collided, roamed>>
vars == <<limiterVars, owner, connVars, requestVars>>

Init ==
  /\ LimiterInit
  /\ RequestInit
  /\ owner \in {"middleware", "validator", "nobody"}
  /\ owner # "nobody" => strict   \* DefaultRequestValidationConfig
  /\ place = [k \in Conns |-> "idle"]
  /\ who = [k \in Conns |-> NoID]
  /\ from = [k \in Conns |-> NoIP]
  /\ remote = [k \in Conns |-> NoIP]
  /\ connections = [id \in {} |-> NoID]
  /\ quiet = {}
  /\ collided = FALSE
  /\ roamed = FALSE

Move(k, a, b) == place[k] = a /\ place' = [place EXCEPT ![k] = b]

\* A connection under id, from an IP that is not the one id was first seen from.
Roams(id, ip) == Known(id) /\ clients[id].ip # ip

-----------------------------------------------------------------------------
(* The middlewares of the limiter *)

\* HTTPMiddleware: what the handler behind it does changes nothing here.
HTTPRequest(id, ip) ==
  /\ owner = "middleware"
  /\ RequestPasses(id, ip) \/ RequestBlocked(id, ip) \/ RequestOverRate(id, ip)
  /\ UNCHANGED <<owner, connVars>>

\* WebSocketMiddleware, up to the handler; a refusal changes nothing.
WebSocketBegins(k, id, ip) ==
  /\ owner = "middleware"
  /\ MayConnect(ip)
  /\ Move(k, "idle", "open")
  /\ AddConnection(id, ip)
  /\ who' = [who EXCEPT ![k] = id]
  /\ from' = [from EXCEPT ![k] = ip]
  /\ roamed' = (roamed \/ Roams(id, ip))
  /\ UNCHANGED <<owner, remote, connections, quiet, collided>>

\* The handler returns: the deferred removal.
WebSocketEnds(k) ==
  /\ owner = "middleware"
  /\ Move(k, "open", "idle")
  /\ RemoveConnection(who[k])
  /\ who' = [who EXCEPT ![k] = NoID]
  /\ from' = [from EXCEPT ![k] = NoIP]
  /\ UNCHANGED <<owner, remote, connections, quiet, collided, roamed>>

Administration ==
  /\ owner = "middleware"
  /\ \E id \in ClientIDs : BlockClient(id) \/ UnblockClient(id)
  /\ UNCHANGED <<owner, connVars>>

-----------------------------------------------------------------------------
(* WebSocketValidator *)

Tracked(k) == who[k] \in DOMAIN connections /\ connections[who[k]] = k

\* checkConnectionLimits: the connections whose remote address begins as the
\* client IP does, whatever IP they gave themselves.
WithinLimits(ip) ==
  /\ Cardinality(DOMAIN connections) < WsMaxConnections
  /\ Cardinality({id \in DOMAIN connections :
                    <<ip, remote[connections[id]]>> \in PrefixOf})
       < WsMaxConnectionsPerIP

\* The headers of a handshake, the origin and the subprotocols.
UpgradeFlaws == {"handshake", "origin", "subprotocol"}

\* The validator's own RequestValidator is strict, so a handshake as browsers
\* send it, with neither a length nor a type of content, is refused.
MayUpgrade(flaws) ==
  /\ ValidateHTTPRequest([flaws |-> flaws, json |-> FALSE, body |-> <<>>], TRUE)
  /\ flaws \cap UpgradeFlaws = {}

\* A refusal changes nothing.
ValidateUpgrade(k, ip, addr) ==
  /\ owner = "validator"
  /\ Move(k, "idle", "upgrading")
  /\ \E flaws \in Upgrades : MayUpgrade(flaws)
  /\ WithinLimits(ip)
  /\ from' = [from EXCEPT ![k] = ip]
  /\ remote' = [remote EXCEPT ![k] = addr]
  /\ UNCHANGED <<limiterVars, owner, who, connections, quiet, collided, roamed>>

\* ValidateConnection has three steps, for two locks: the connection is entered
\* under an ID read from the clock; the limiter is asked; if it refuses, the
\* connection is removed again.
Entered(k, id) ==
  /\ owner = "validator"
  /\ Move(k, "upgrading", "entered")
  /\ CollidesOnce /\ collided => \A j \in Conns : who[j] # id \/ place[j] = "gone"
  /\ who' = [who EXCEPT ![k] = id]
  /\ connections' = [i \in DOMAIN connections \cup {id} |->
                       IF i = id THEN k ELSE connections[i]]
  /\ collided' = (collided \/ \E j \in Conns : who[j] = id)
  /\ quiet' = quiet \ {k}
  /\ UNCHANGED <<limiterVars, owner, from, remote, roamed>>

Accepted(k) ==
  /\ owner = "validator"
  /\ MayConnect(from[k])
  /\ Move(k, "entered", "open")
  /\ AddConnection(who[k], from[k])
  /\ roamed' = (roamed \/ Roams(who[k], from[k]))
  /\ UNCHANGED <<owner, who, from, remote, connections, quiet, collided>>

Refused(k) ==
  /\ owner = "validator"
  /\ ~MayConnect(from[k])
  /\ Move(k, "entered", "refused")
  /\ UNCHANGED <<limiterVars, owner, who, from, remote, connections, quiet,
                 collided, roamed>>

\* Fault: the limiter is told first that there is one connection less, by the IP.
FaultyRemoved(k) ==
  /\ owner = "validator"
  /\ Move(k, "refused", "idle")
  /\ \/ \E id \in ClientIDs : Known(id) /\ clients[id].ip = from[k] /\ RemoveConnection(id)
     \/ (\A id \in ClientIDs : ~(Known(id) /\ clients[id].ip = from[k])) /\ UNCHANGED limiterVars
  /\ connections' = [i \in DOMAIN connections \ {who[k]} |-> connections[i]]
  /\ who' = [who EXCEPT ![k] = NoID]
  /\ from' = [from EXCEPT ![k] = NoIP]
  /\ remote' = [remote EXCEPT ![k] = NoIP]
  /\ UNCHANGED <<owner, quiet, collided, roamed>>

\* removeConnection: whatever the entry under the ID is, it goes, and the
\* limiter, which has not counted k, is told that a connection under the ID ends.
Removed(k) ==
  /\ owner = "validator"
  /\ Move(k, "refused", "idle")
  /\ IF who[k] \in DOMAIN connections
     THEN /\ RemoveConnection(who[k])
          /\ connections' = [i \in DOMAIN connections \ {who[k]} |-> connections[i]]
     ELSE UNCHANGED <<limiterVars, connections>>
  /\ who' = [who EXCEPT ![k] = NoID]
  /\ from' = [from EXCEPT ![k] = NoIP]
  /\ remote' = [remote EXCEPT ![k] = NoIP]
  /\ UNCHANGED <<owner, quiet, collided, roamed>>

\* ValidateMessage, of a message the limiter refuses.
MessageRefused(k) ==
  /\ owner = "validator" /\ place[k] = "open"
  /\ MessageOverRate(who[k])
  /\ UNCHANGED <<owner, connVars>>

\* What may be wrong with a message: its size and kind, which the RequestValidator
\* looks at, then its text, its required fields, its type and its payload.
ValidateWebSocketMessage(flaws) == flaws \cap {"size", "kind"} = {}
ValidateText(flaws) == flaws \cap {"not JSON", "fields", "type", "payload"} = {}

\* LastActivity is now.
Heard(k) ==
  /\ place[k] = "open" /\ k \in quiet
  /\ quiet' = quiet \ {k}
  /\ UNCHANGED <<limiterVars, owner, place, who, from, remote, connections,
                 collided, roamed>>

\* Any other message is refused and is no sign of life.
MessageAccepted(k) ==
  /\ owner = "validator"
  /\ Heard(k)
  /\ MayMessage(who[k])
  /\ \E flaws \in Messages : ValidateWebSocketMessage(flaws) /\ ValidateText(flaws)

\* The limiter is not asked.
PingPong(k) == owner = "validator" /\ Heard(k)

\* An accepted connection ends.  The validator has nothing to be called then, so
\* its map and the limiter stay as they are.
Ends(k) ==
  /\ owner = "validator"
  /\ Move(k, "open", "gone")
  /\ UNCHANGED <<limiterVars, owner, who, from, remote, connections, quiet,
                 collided, roamed>>

\* ConnectionTimeout passes without a message, for a connection that has ended or
\* one that has not.  Only of those in the map does anybody look at LastActivity.
FallsQuiet(k) ==
  /\ owner = "validator" /\ place[k] \in {"open", "gone"} /\ Tracked(k) /\ k \notin quiet
  /\ quiet' = quiet \cup {k}
  /\ UNCHANGED <<limiterVars, owner, place, who, from, remote, connections,
                 collided, roamed>>

\* cleanup: the quiet connections leave the map and are not closed; the limiter
\* is not told.
CleanupConnections ==
  /\ owner = "validator"
  /\ connections' = [id \in {i \in DOMAIN connections : connections[i] \notin quiet}
                       |-> connections[id]]
  /\ quiet' = {}
  /\ UNCHANGED <<limiterVars, owner, place, who, from, remote, collided, roamed>>

-----------------------------------------------------------------------------
\* The limiter's own loop and time.
LimiterStep ==
  /\ Cleanup \/ \E id \in ClientIDs : BlockEnds(id) \/ FallsSilent(id)
  /\ UNCHANGED <<owner, connVars>>

ConnectionStep ==
  \/ \E id \in ClientIDs, ip \in IPs : HTTPRequest(id, ip)
  \/ \E k \in Conns, id \in ClientIDs, ip \in IPs : WebSocketBegins(k, id, ip)
  \/ \E k \in Conns, ip, addr \in IPs : ValidateUpgrade(k, ip, addr)
  \/ \E k \in Conns, id \in ClientIDs : Entered(k, id)
  \/ \E k \in Conns : \/ WebSocketEnds(k) \/ Accepted(k) \/ Refused(k) \/ Removed(k)
                      \/ MessageRefused(k) \/ MessageAccepted(k) \/ PingPong(k)
                      \/ Ends(k) \/ FallsQuiet(k)
  \/ Administration \/ CleanupConnections \/ LimiterStep

RequestStep == owner = "nobody" /\ RequestNext

Next ==
  \/ ConnectionStep /\ UNCHANGED requestVars
  \/ RequestStep /\ UNCHANGED <<limiterVars, owner, connVars>>

Spec == Init /\ [][Next]_vars

-----------------------------------------------------------------------------
(* Properties *)

TypeOK ==
  /\ RequestTypeOK
  /\ DOMAIN clients \subseteq ClientIDs
  /\ \A id \in DOMAIN clients : clients[id] \in Entries
  /\ sentenced \subseteq ClientIDs
  /\ owner \in {"middleware", "validator", "nobody"}
  /\ place \in [Conns -> {"idle", "upgrading", "entered", "refused", "open", "gone"}]
  /\ who \in [Conns -> ClientIDs \cup {NoID}]
  /\ from \in [Conns -> IPs \cup {NoIP}]
  /\ remote \in [Conns -> IPs \cup {NoIP}]
  /\ DOMAIN connections \subseteq ClientIDs
  /\ \A id \in DOMAIN connections : connections[id] \in Conns
  /\ quiet \subseteq Conns
  /\ collided \in BOOLEAN /\ roamed \in BOOLEAN

OpenUnder(id) == {k \in Conns : place[k] = "open" /\ who[k] = id}
Charge(id) == IF Known(id) THEN clients[id].connections ELSE 0

\* No charge is lost: through begins, ends, refusals and cleanups the limiter
\* charges an ID for every connection that is open under it, unless the clock has
\* given two of them one ID.  Behind the limiter's own middleware it charges for no
\* other.  A validator's limiter does: for the connections that have ended, of
\* which it is never told (ratelimit.go:34 means "concurrent" ones).
ChargesMatch ==
  ~collided =>
    \A id \in ClientIDs :
       /\ Charge(id) >= Cardinality(OpenUnder(id))
       /\ owner = "middleware" => Charge(id) = Cardinality(OpenUnder(id))

\* The connections that are open stay within the limiter's limit, although the
\* validator checks its own limit in one region and enters the connection in
\* another, so that its map may be overfull meanwhile; and those of one IP stay
\* within the limit for an IP, unless an ID roams.
OpenWithinLimits ==
  /\ ~collided => Cardinality({k \in Conns : place[k] = "open"}) <= MaxConnections
  /\ ~collided /\ ~roamed =>
       \A ip \in IPs :
          Cardinality({k \in Conns : place[k] = "open" /\ from[k] = ip})
            <= MaxConnectionsPerIP

\* No message of an open connection fails for an unknown client: the limiter
\* forgets silent clients, and none that has a connection.
OpenIsKnown == ~collided => \A k \in Conns : place[k] = "open" => Known(who[k])

\* A block that is neither over nor lifted stays on record, whatever requests,
\* connections and cleanups do, but for a client that has been silent for
\* ClientExpiry and has no connection: the cleanup forgets its block with it.
OnRecord(id) == Known(id) /\ InForce(clients[id])
BlocksStay ==
  [][\A id \in ClientIDs :
       OnRecord(id) /\ id \in sentenced' =>
          OnRecord(id)' \/ (clients[id].silent /\ clients[id].connections = 0)]_vars
=============================================================================
