----------------------------- MODULE RateLimiter -----------------------------
(***************************************************************************)
(* internal/validation/ratelimit.go: the limiter's map of clients.  Every  *)
(* operation is one region of rl.mu and is one action here; Gate says who  *)
(* calls which.  Token buckets (golang.org/x/time/rate) are external: a    *)
(* bucket may be empty at any time, so each outcome is an action.          *)
(*                                                                         *)
(* Time is what the code asks of it: a block is in force or over, a client *)
(* has been silent for ClientExpiry or not.  Request and message totals    *)
(* are left out, so a request the limiter refuses for the connections of   *)
(* its IP leaves the state of one it lets through.                         *)
(***************************************************************************)
EXTENDS Naturals, Functions

CONSTANTS ClientIDs, IPs,
          MaxConnections, MaxConnectionsPerIP,
          AutoBlockThreshold

ASSUME LimiterAssumption ==
  /\ MaxConnections \in Nat
  /\ MaxConnectionsPerIP \in Nat
  /\ AutoBlockThreshold \in Nat \ {0}

VARIABLES
  clients,    \* rl.clients: a map from the IDs seen to entries
  sentenced   \* history: the IDs whose block is neither over nor lifted

limiterVars == <<clients, sentenced>>

\* block is "none", "auto" or "manual" (in force, by whom it was set), or
\* "over": IsBlocked is still set and BlockedUntil has passed.  violations stops
\* at the threshold, above which the code makes no difference.
Entries == [ip : IPs, connections : Nat, violations : 0..AutoBlockThreshold,
            block : {"none", "auto", "manual", "over"}, silent : BOOLEAN]

NewEntry(ip) ==
  [ip |-> ip, connections |-> 0, violations |-> 0, block |-> "none", silent |-> FALSE]

LimiterInit ==
  /\ clients = [id \in {} |-> NewEntry(id)]
  /\ sentenced = {}

-----------------------------------------------------------------------------
Known(id) == id \in DOMAIN clients

\* The entry of a client, made on first sight with the IP it is seen from.
EntryOf(id, ip) == IF Known(id) THEN clients[id] ELSE NewEntry(ip)

Put(id, e) ==
  clients' = [i \in DOMAIN clients \cup {id} |-> IF i = id THEN e ELSE clients[i]]

Keep(ids) == clients' = [i \in ids |-> clients[i]]

InForce(e) == e.block \in {"auto", "manual"}

Connections == [id \in DOMAIN clients |-> clients[id].connections]

getTotalConnections == SumFunction(Connections)

countConnectionsForIP(ip) ==
  SumFunctionOnSet(Connections, {id \in DOMAIN clients : clients[id].ip = ip})

OneMoreViolation(e) ==
  [e EXCEPT !.violations = IF @ < AutoBlockThreshold THEN @ + 1 ELSE @]

-----------------------------------------------------------------------------
(* AllowRequest, past the global bucket *)

Seen(id, ip) == [EntryOf(id, ip) EXCEPT !.silent = FALSE]

RequestBlocked(id, ip) ==
  /\ InForce(EntryOf(id, ip))
  /\ Put(id, Seen(id, ip))
  /\ UNCHANGED sentenced

\* A client whose block is over is unblocked before its bucket is asked.
Unblocked(e) == [e EXCEPT !.block = "none"]

RequestPasses(id, ip) ==
  /\ ~InForce(EntryOf(id, ip))
  /\ Put(id, Unblocked(Seen(id, ip)))
  /\ UNCHANGED sentenced

\* Violations are never forgotten: once over the threshold, each one blocks.
RequestOverRate(id, ip) ==
  LET e == OneMoreViolation(Unblocked(Seen(id, ip)))
      tooMany == e.violations >= AutoBlockThreshold
  IN  /\ ~InForce(EntryOf(id, ip))
      /\ Put(id, IF tooMany THEN [e EXCEPT !.block = "auto"] ELSE e)
      /\ sentenced' = IF tooMany THEN sentenced \cup {id} ELSE sentenced

-----------------------------------------------------------------------------
(* AllowMessage.  The one that lets a message through changes nothing. *)

MayMessage(id) == Known(id) /\ ~InForce(clients[id])

MessageOverRate(id) ==
  /\ MayMessage(id)
  /\ Put(id, OneMoreViolation(clients[id]))
  /\ UNCHANGED sentenced

-----------------------------------------------------------------------------
(* Connections *)

\* Fault: one too many from an IP.
FaultyIPOff(ip) ==
  /\ getTotalConnections < MaxConnections
  /\ countConnectionsForIP(ip) <= MaxConnectionsPerIP

MayConnect(ip) ==
  /\ getTotalConnections < MaxConnections
  /\ countConnectionsForIP(ip) < MaxConnectionsPerIP

\* The checks are about the IP of the request, the charge goes to the IP of the
\* entry: they differ when an ID has been seen from elsewhere before.
AddConnection(id, ip) ==
  /\ Put(id, [Seen(id, ip) EXCEPT !.connections = @ + 1])
  /\ UNCHANGED sentenced

\* Fault: an entry goes with its last connection.
FaultyRemoveEntry(id) ==
  /\ IF Known(id) /\ clients[id].connections <= 1
     THEN Keep(DOMAIN clients \ {id})
     ELSE IF Known(id)
          THEN Put(id, [clients[id] EXCEPT !.connections = @ - 1, !.silent = FALSE])
          ELSE UNCHANGED clients
  /\ UNCHANGED sentenced

\* Fault: no floor.
FaultyNoFloor(id) ==
  /\ IF Known(id)
     THEN Put(id, [clients[id] EXCEPT !.connections = @ - 1, !.silent = FALSE])
     ELSE UNCHANGED clients
  /\ UNCHANGED sentenced

RemoveConnection(id) ==
  /\ IF Known(id)
     THEN Put(id, [clients[id] EXCEPT !.connections = IF @ = 0 THEN 0 ELSE @ - 1,
                                      !.silent = FALSE])
     ELSE UNCHANGED clients
  /\ UNCHANGED sentenced

-----------------------------------------------------------------------------
BlockClient(id) ==
  /\ Known(id)
  /\ Put(id, [clients[id] EXCEPT !.block = "manual"])
  /\ sentenced' = sentenced \cup {id}

UnblockClient(id) ==
  /\ Known(id)
  /\ Put(id, [clients[id] EXCEPT !.block = "none"])
  /\ sentenced' = sentenced \ {id}

\* Fault: connections do not keep an entry.
FaultyCleanup ==
  /\ Keep({id \in DOMAIN clients : ~clients[id].silent})
  /\ UNCHANGED sentenced

\* Also what a block was written on.
Cleanup ==
  /\ Keep({id \in DOMAIN clients : ~clients[id].silent \/ clients[id].connections # 0})
  /\ UNCHANGED sentenced

-----------------------------------------------------------------------------
(* Time *)

BlockEnds(id) ==
  /\ id \in sentenced
  /\ sentenced' = sentenced \ {id}
  /\ IF Known(id) /\ InForce(clients[id])
     THEN Put(id, [clients[id] EXCEPT !.block = "over"])
     ELSE UNCHANGED clients

\* LastSeen is ClientExpiry ago.  AutoBlockDuration is shorter than that and
\* counts from a request, so an automatic block is over by then; one set by
\* BlockClient may last longer.
FallsSilent(id) ==
  /\ Known(id)
  /\ clients[id].block # "auto"
  /\ Put(id, [clients[id] EXCEPT !.silent = TRUE])
  /\ UNCHANGED sentenced
=============================================================================
