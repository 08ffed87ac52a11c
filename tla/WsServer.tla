------------------------------- MODULE WsServer -------------------------------
(***************************************************************************)
(* internal/wsserver: the WebSocket server.                                *)
(*                                                                         *)
(* HandleWebSocket runs once for each connection: it offers the client to  *)
(* the hub (run, a goroutine) without waiting, and starts the client's two *)
(* pumps.  The hub alone changes the clients map, under the lock, after it *)
(* has received from the unbuffered register or unregister channel, which  *)
(* it does at its select only.  Shutdown closes the shutdown channel and   *)
(* the registered connections and stops the HTTP server; it neither waits  *)
(* for the hub nor for the pumps.                                          *)
(*                                                                         *)
(* A client of this module is one connection.  The hub's broadcast case is *)
(* absent: its only sender is the hub itself (see HubTakesMessage), so the *)
(* hub never receives from it.                                             *)
(***************************************************************************)
EXTENDS Naturals, Sequences

CONSTANTS Clients,     \* connections
          ClientIDs,   \* what generateClientID can return
          Frames,      \* what the bridge sends to a client
          Requests,    \* what a client sends
          MessageCap,  \* capacity of messageCh, 100 in the code
          SendCap,     \* capacity of a client's send channel, 256 in the code
          NoClient, NoID

ASSUME WsAssumption ==
  /\ MessageCap \in Nat \ {0} /\ SendCap \in Nat \ {0}
  /\ NoClient \notin Clients /\ NoID \notin ClientIDs

VARIABLES
  handler,    \* where HandleWebSocket is, for each connection
  clientID,   \* Client.ID
  conn,       \* whether the connection works: "none", "up" or "down"
  reader,     \* where readPump is; "leaving" is its blocking unregister
  writer,     \* where writePump is
  send,       \* Client.send
  sendOpen,   \* whether Client.send is open
  clients,    \* Server.clients: ID -> connection
  hub,        \* where run is
  hubArg,     \* the client run has received
  messageCh,  \* Server.messageCh
  stopping    \* where Shutdown is; the shutdown channel is closed from "closing" on

clientVars == <<handler, clientID, conn, reader, writer, send, sendOpen>>
hubVars == <<clients, hub, hubArg>>
vars == <<clientVars, hubVars, messageCh, stopping>>

Messages == [client : Clients, request : Requests]

Init ==
  /\ handler = [cl \in Clients |-> "none"]
  /\ clientID = [cl \in Clients |-> NoID]
  /\ conn = [cl \in Clients |-> "none"]
  /\ reader = [cl \in Clients |-> "none"]
  /\ writer = [cl \in Clients |-> "none"]
  /\ send = [cl \in Clients |-> <<>>]
  /\ sendOpen = [cl \in Clients |-> TRUE]
  /\ clients = [id \in ClientIDs |-> NoClient]
  /\ hub = "select"
  /\ hubArg = NoClient
  /\ messageCh = <<>>
  /\ stopping = "no"

Close(cl) == conn' = [conn EXCEPT ![cl] = "down"]

-----------------------------------------------------------------------------
(* HandleWebSocket *)

\* The upgrade; the HTTP server accepts nobody once Shutdown has stopped it.
\* The ID is eight characters read off the clock, so two clients may share one.
Upgrade(cl, id) ==
  /\ handler[cl] = "none" /\ stopping # "done"
  /\ handler' = [handler EXCEPT ![cl] = "registering"]
  /\ clientID' = [clientID EXCEPT ![cl] = id]
  /\ conn' = [conn EXCEPT ![cl] = "up"]
  /\ UNCHANGED <<reader, writer, send, sendOpen, hubVars, messageCh, stopping>>

\* The select with a default case succeeds only if the hub waits at its select.
Register(cl) ==
  /\ handler[cl] = "registering" /\ hub = "select"
  /\ handler' = [handler EXCEPT ![cl] = "starting"]
  /\ hub' = "insert"
  /\ hubArg' = cl
  /\ UNCHANGED <<clientID, conn, reader, writer, send, sendOpen, clients, messageCh, stopping>>

Refuse(cl) ==
  /\ handler[cl] = "registering" /\ hub # "select"
  /\ handler' = [handler EXCEPT ![cl] = "refused"]
  /\ Close(cl)
  /\ UNCHANGED <<clientID, reader, writer, send, sendOpen, hubVars, messageCh, stopping>>

StartPumps(cl) ==
  /\ handler[cl] = "starting"
  /\ handler' = [handler EXCEPT ![cl] = "done"]
  /\ writer' = [writer EXCEPT ![cl] = "select"]
  /\ reader' = [reader EXCEPT ![cl] = "reading"]
  /\ UNCHANGED <<clientID, conn, send, sendOpen, hubVars, messageCh, stopping>>

-----------------------------------------------------------------------------
(* readPump *)

\* A message is forwarded, or dropped when messageCh is full.  What had arrived
\* before the connection died can still be read.
Forward(cl, r) ==
  /\ reader[cl] = "reading"
  /\ messageCh' = IF Len(messageCh) < MessageCap
                  THEN Append(messageCh, [client |-> cl, request |-> r])
                  ELSE messageCh
  /\ UNCHANGED <<clientVars, hubVars, stopping>>

\* ReadMessage fails: the connection is gone, or the peer sent a close frame, or
\* sixty seconds passed without a pong.
ReadFails(cl) ==
  /\ reader[cl] = "reading"
  /\ reader' = [reader EXCEPT ![cl] = "leaving"]
  /\ UNCHANGED <<handler, clientID, conn, writer, send, sendOpen, hubVars, messageCh, stopping>>

\* The deferred send to unregister waits for the hub's select ...
Unregister(cl) ==
  /\ reader[cl] = "leaving" /\ hub = "select"
  /\ reader' = [reader EXCEPT ![cl] = "closing"]
  /\ hub' = "remove"
  /\ hubArg' = cl
  /\ UNCHANGED <<handler, clientID, conn, writer, send, sendOpen, clients, messageCh, stopping>>

\* ... and the connection is closed after it.
ReaderCloses(cl) ==
  /\ reader[cl] = "closing"
  /\ reader' = [reader EXCEPT ![cl] = "done"]
  /\ Close(cl)
  /\ UNCHANGED <<handler, clientID, writer, send, sendOpen, hubVars, messageCh, stopping>>

-----------------------------------------------------------------------------
(* writePump *)

\* A frame reaches a working connection.  A closed channel gives up its frames
\* before it reports that it is closed.
WriteOut(cl) ==
  /\ writer[cl] = "select" /\ send[cl] # <<>> /\ conn[cl] = "up"
  /\ send' = [send EXCEPT ![cl] = Tail(@)]
  /\ UNCHANGED <<handler, clientID, conn, reader, writer, sendOpen, hubVars, messageCh, stopping>>

WriterLeaves(cl) ==
  /\ writer[cl] = "select"
  /\ writer' = [writer EXCEPT ![cl] = "done"]
  /\ Close(cl)
  /\ UNCHANGED <<handler, clientID, reader, sendOpen, hubVars, messageCh, stopping>>

WriteFails(cl) ==
  /\ conn[cl] = "down" /\ send[cl] # <<>>
  /\ send' = [send EXCEPT ![cl] = Tail(@)]
  /\ WriterLeaves(cl)

\* The hub has closed the channel.
SendClosed(cl) ==
  /\ send[cl] = <<>> /\ ~sendOpen[cl]
  /\ WriterLeaves(cl)
  /\ UNCHANGED send

\* The ticker's ping; one that succeeds changes nothing.
PingFails(cl) ==
  /\ conn[cl] = "down"
  /\ WriterLeaves(cl)
  /\ UNCHANGED send

-----------------------------------------------------------------------------
(* run *)

\* Fault: a duplicate ID is noticed, and the lock is kept on the way out.
FaultyNoUnlock ==
  /\ hub = "insert"
  /\ clients[clientID[hubArg]] = NoClient
  /\ clients' = [clients EXCEPT ![clientID[hubArg]] = hubArg]
  /\ hub' = "select"
  /\ hubArg' = NoClient
  /\ UNCHANGED <<clientVars, messageCh, stopping>>

HubInserts ==
  /\ hub = "insert"
  /\ clients' = [clients EXCEPT ![clientID[hubArg]] = hubArg]
  /\ hub' = "select"
  /\ hubArg' = NoClient
  /\ UNCHANGED <<clientVars, messageCh, stopping>>

\* Fault: the channel of the client in the map is closed, not the leaver's.
FaultyClosesMapped ==
  /\ hub = "remove"
  /\ LET id == clientID[hubArg]
         cl == clients[id]
     IN  IF cl = NoClient
         THEN UNCHANGED <<clients, sendOpen>>
         ELSE /\ clients' = [clients EXCEPT ![id] = NoClient]
              /\ sendOpen' = [sendOpen EXCEPT ![cl] = FALSE]
  /\ hub' = "select"
  /\ hubArg' = NoClient
  /\ UNCHANGED <<handler, clientID, conn, reader, writer, send, messageCh, stopping>>

\* Fault: the leaver's channel stays open.
FaultyLeavesOpen ==
  /\ hub = "remove"
  /\ clients' = [clients EXCEPT ![clientID[hubArg]] = NoClient]
  /\ hub' = "select"
  /\ hubArg' = NoClient
  /\ UNCHANGED <<clientVars, messageCh, stopping>>

\* Fault: the entry stays.
FaultyKeepsEntry ==
  /\ hub = "remove"
  /\ sendOpen' = [sendOpen EXCEPT ![hubArg] = FALSE]
  /\ hub' = "select"
  /\ hubArg' = NoClient
  /\ UNCHANGED <<handler, clientID, conn, reader, writer, send, clients, messageCh, stopping>>

\* Deletes by ID, whoever the entry leads to, and closes the leaver's channel;
\* with no entry under the ID it does nothing.
HubRemoves ==
  /\ hub = "remove"
  /\ LET id == clientID[hubArg]
     IN  IF clients[id] = NoClient
         THEN UNCHANGED <<clients, sendOpen>>
         ELSE /\ clients' = [clients EXCEPT ![id] = NoClient]
              /\ sendOpen' = [sendOpen EXCEPT ![hubArg] = FALSE]
  /\ hub' = "select"
  /\ hubArg' = NoClient
  /\ UNCHANGED <<handler, clientID, conn, reader, writer, send, messageCh, stopping>>

\* The hub competes with the bridge for messageCh.  A message it gets it sends
\* to broadcast, which has no buffer and no receiver but the hub: it stays there.
HubTakesMessage ==
  /\ hub = "select" /\ messageCh # <<>>
  /\ messageCh' = Tail(messageCh)
  /\ hub' = "broadcast"
  /\ UNCHANGED <<clientVars, clients, hubArg, stopping>>

HubStops ==
  /\ hub = "select" /\ stopping # "no"
  /\ hub' = "stopped"
  /\ UNCHANGED <<clientVars, clients, hubArg, messageCh, stopping>>

-----------------------------------------------------------------------------
(* Shutdown *)

CloseShutdown ==
  /\ stopping = "no"
  /\ stopping' = "closing"
  /\ UNCHANGED <<clientVars, hubVars, messageCh>>

\* Under the lock, so in one step; the map itself is left as it is.
CloseConnections ==
  /\ stopping = "closing"
  /\ conn' = [cl \in Clients |-> IF \E id \in ClientIDs : clients[id] = cl
                                 THEN "down" ELSE conn[cl]]
  /\ stopping' = "http"
  /\ UNCHANGED <<handler, clientID, reader, writer, send, sendOpen, hubVars, messageCh>>

\* An http.Server's Shutdown leaves upgraded connections alone.
StopHTTP ==
  /\ stopping = "http"
  /\ stopping' = "done"
  /\ UNCHANGED <<clientVars, hubVars, messageCh>>

-----------------------------------------------------------------------------
(* The world outside *)

PeerGone(cl) ==
  /\ conn[cl] = "up"
  /\ Close(cl)
  /\ UNCHANGED <<handler, clientID, reader, writer, send, sendOpen, hubVars, messageCh, stopping>>

BridgeTakes ==
  /\ messageCh # <<>>
  /\ messageCh' = Tail(messageCh)
  /\ UNCHANGED <<clientVars, hubVars, stopping>>

\* Client.SendResponse, by a bridge that has had a message from the client.  It
\* never waits.  On a closed channel it panics: module Router has that.
SendResponse(cl, f) ==
  /\ reader[cl] # "none" /\ sendOpen[cl]
  /\ send' = IF Len(send[cl]) < SendCap THEN [send EXCEPT ![cl] = Append(@, f)]
                                        ELSE send
  /\ UNCHANGED <<handler, clientID, conn, reader, writer, sendOpen, hubVars, messageCh, stopping>>

-----------------------------------------------------------------------------
ConnectionStep(cl) == Register(cl) \/ Refuse(cl) \/ StartPumps(cl)

ReaderStep(cl) ==
  (conn[cl] = "down" /\ ReadFails(cl)) \/ Unregister(cl) \/ ReaderCloses(cl)

WriterStep(cl) ==
  WriteOut(cl) \/ WriteFails(cl) \/ SendClosed(cl) \/ PingFails(cl)

HubStep == HubInserts \/ HubRemoves \/ HubTakesMessage \/ HubStops

ShutdownStep == CloseConnections \/ StopHTTP

Next ==
  \/ \E cl \in Clients, id \in ClientIDs : Upgrade(cl, id)
  \/ \E cl \in Clients : ConnectionStep(cl) \/ WriterStep(cl)
  \/ \E cl \in Clients : ReadFails(cl) \/ Unregister(cl) \/ ReaderCloses(cl)
  \/ \E cl \in Clients, r \in Requests : Forward(cl, r)
  \/ HubStep
  \/ CloseShutdown \/ ShutdownStep
  \/ \E cl \in Clients : PeerGone(cl)
  \/ BridgeTakes
  \/ \E cl \in Clients, f \in Frames : SendResponse(cl, f)

\* Goroutines are scheduled fairly, a dead connection fails its reads, tickers
\* fire.  Peers, the bridge and the decision to shut down are free.
Fairness ==
  /\ \A cl \in Clients : /\ WF_vars(ConnectionStep(cl))
                         /\ WF_vars(ReaderStep(cl))
                         /\ WF_vars(WriterStep(cl))
  /\ WF_vars(HubStep)
  /\ WF_vars(ShutdownStep)

Spec == Init /\ [][Next]_vars

FairSpec == Spec /\ Fairness

-----------------------------------------------------------------------------
(* Properties *)

TypeOK ==
  /\ handler \in [Clients -> {"none", "registering", "refused", "starting", "done"}]
  /\ clientID \in [Clients -> ClientIDs \cup {NoID}]
  /\ conn \in [Clients -> {"none", "up", "down"}]
  /\ reader \in [Clients -> {"none", "reading", "leaving", "closing", "done"}]
  /\ writer \in [Clients -> {"none", "select", "done"}]
  /\ send \in [Clients -> Seq(Frames)]
  /\ \A cl \in Clients : Len(send[cl]) <= SendCap
  /\ sendOpen \in [Clients -> BOOLEAN]
  /\ clients \in [ClientIDs -> Clients \cup {NoClient}]
  /\ hub \in {"select", "insert", "remove", "broadcast", "stopped"}
  /\ hubArg \in Clients \cup {NoClient}
  /\ hub \in {"insert", "remove"} <=> hubArg # NoClient
  /\ messageCh \in Seq(Messages) /\ Len(messageCh) <= MessageCap
  /\ stopping \in {"no", "closing", "http", "done"}

\* The hub has served the client's unregister.
Served(cl) == reader[cl] \in {"closing", "done"} /\ hubArg # cl

\* The map leads to clients the hub has not let go of: of the entry's own ID,
\* with an open send channel.  It holds even if two clients share an ID.
MapLeadsToLiveClients ==
  \A id \in ClientIDs, cl \in Clients :
     clients[id] = cl => /\ clientID[cl] = id
                         /\ sendOpen[cl]
                         /\ ~Served(cl)

\* A client that has left has had its send channel closed, and is out of the
\* map, unless another client drew the same ID.
LeaversAreClosed ==
  \A cl \in Clients :
     Served(cl) => \/ ~sendOpen[cl]
                   \/ \E other \in Clients \ {cl} : clientID[other] = clientID[cl]

\* The server implements Sockets.  A link is broken there once the connection
\* is down or the read pump has given up.
Link(cl) ==
  IF handler[cl] \in {"starting", "done"}
  THEN IF ~sendOpen[cl] THEN "closed"
       ELSE IF conn[cl] = "up" /\ reader[cl] \in {"none", "reading"} THEN "open"
       ELSE "broken"
  ELSE "new"
AbsHub == CASE hub = "broadcast" -> "wedged"
            [] hub = "stopped" -> "stopped"
            [] OTHER -> "running"
Abstract == INSTANCE Sockets WITH link <- [cl \in Clients |-> Link(cl)],
                                  hub <- AbsHub, shutdown <- stopping # "no"
ImplementsSockets == Abstract!Spec

\* A read pump that gives up gets through its unregister and ends, whatever else
\* the hub is asked to do, as long as the hub is neither wedged nor stopped.
ReadersEnd ==
  \A cl \in Clients :
     (reader[cl] = "leaving") ~> (reader[cl] = "done" \/ hub \in {"broadcast", "stopped"})

\* The write pump of a dead connection ends, even if the hub never closes its
\* channel: it is wedged, stopped, or closed another channel under the same ID.
WritersEnd ==
  \A cl \in Clients :
     (writer[cl] = "select" /\ conn[cl] = "down") ~> (writer[cl] = "done")

\* Neither pump of a connection stays behind.
PumpsEnd == ReadersEnd /\ WritersEnd

\* server_test.go:351 "Verify client received the message", of a message put
\* into messageCh: the hub delivers it and is back at its select.
ForwardedMessageDelivered == (hub = "broadcast") ~> (hub = "select")
=============================================================================
