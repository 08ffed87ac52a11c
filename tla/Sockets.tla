------------------------------- MODULE Sockets -------------------------------
(***************************************************************************)
(* The WebSocket side as the bridge of cmd/server sees it: connections     *)
(* that come and go, the message channel they all feed, and the send       *)
(* channel behind each response sender.  Module WsServer, which has the    *)
(* hub, the two pumps of a connection and the server's shutdown, is shown  *)
(* to implement it; module Router composes it with the tool.               *)
(*                                                                         *)
(* A client here is one connection.                                        *)
(***************************************************************************)
EXTENDS Naturals, Sequences

CONSTANTS Clients,     \* connections
          Frames,      \* what the server sends to a client
          Requests,    \* what a client sends to the server
          MessageCap,  \* capacity of messageCh, 100 in the code
          SendCap      \* capacity of a client's send channel, 256 in the code

VARIABLES
  link,       \* "new" (not or never registered), "open", "broken" (dead, still
              \* registered) or "closed" (unregistered, its send channel closed)
  send,       \* frames queued for each client
  messageCh,  \* messages for the bridge
  hub,        \* the server's run goroutine: "running", "wedged" or "stopped"
  shutdown    \* Server.Shutdown has begun

vars == <<link, send, messageCh, hub, shutdown>>

Messages == [client : Clients, request : Requests]

Init ==
  /\ link = [cl \in Clients |-> "new"]
  /\ send = [cl \in Clients |-> <<>>]
  /\ messageCh = <<>>
  /\ hub = "running"
  /\ shutdown = FALSE

-----------------------------------------------------------------------------
(* Connections *)

\* The hub receives the registration: it has to be at its select, where it
\* may still be once shutdown has begun.  The connection may have died already.
Connect(cl) ==
  /\ link[cl] = "new" /\ hub = "running"
  /\ \E s \in {"open", "broken"} : link' = [link EXCEPT ![cl] = s]
  /\ UNCHANGED <<send, messageCh, hub, shutdown>>

\* The read pump forwards a message, or drops it when messageCh is full.  It
\* may have read the message before the connection died.
Forward(cl, r) ==
  /\ link[cl] \in {"open", "broken"}
  /\ messageCh' = IF Len(messageCh) < MessageCap
                  THEN Append(messageCh, [client |-> cl, request |-> r])
                  ELSE messageCh
  /\ UNCHANGED <<link, send, hub, shutdown>>

\* The write pump takes a frame, which reaches the peer if the link works.
WriteOut(cl) ==
  /\ link[cl] \in {"open", "broken", "closed"} /\ send[cl] # <<>>
  /\ send' = [send EXCEPT ![cl] = Tail(@)]
  /\ UNCHANGED <<link, messageCh, hub, shutdown>>

\* The connection dies: the peer is gone, a deadline passed, a pump failed.
Break(cl) ==
  /\ link[cl] = "open"
  /\ link' = [link EXCEPT ![cl] = "broken"]
  /\ UNCHANGED <<send, messageCh, hub, shutdown>>

\* The hub serves the read pump's unregister: out of the map, channel closed.
Unregister(cl) ==
  /\ link[cl] = "broken" /\ hub = "running"
  /\ link' = [link EXCEPT ![cl] = "closed"]
  /\ UNCHANGED <<send, messageCh, hub, shutdown>>

-----------------------------------------------------------------------------
(* The hub *)

\* run also receives from messageCh and sends what it got to its own
\* unbuffered broadcast channel: it never returns to its select.
HubTakesMessage ==
  /\ hub = "running" /\ messageCh # <<>>
  /\ messageCh' = Tail(messageCh)
  /\ hub' = "wedged"
  /\ UNCHANGED <<link, send, shutdown>>

\* Shutdown closes the shutdown channel, then the registered connections; one
\* that is being registered meanwhile may escape.
BeginShutdown ==
  /\ ~shutdown
  /\ shutdown' = TRUE
  /\ UNCHANGED <<link, send, messageCh, hub>>

CloseConnections(S) ==
  /\ shutdown
  /\ link' = [cl \in Clients |-> IF cl \in S /\ link[cl] = "open" THEN "broken"
                                                                 ELSE link[cl]]
  /\ UNCHANGED <<send, messageCh, hub, shutdown>>

HubStops ==
  /\ shutdown /\ hub = "running"
  /\ hub' = "stopped"
  /\ UNCHANGED <<link, send, messageCh, shutdown>>

-----------------------------------------------------------------------------
(* What the bridge does to the sockets *)

TakeMessage ==
  /\ messageCh # <<>>
  /\ messageCh' = Tail(messageCh)
  /\ UNCHANGED <<link, send, hub, shutdown>>

\* Client.SendResponse on an open channel: queued, or dropped when full.
Enqueue(cl, f) ==
  /\ link[cl] \in {"open", "broken"}
  /\ send' = IF Len(send[cl]) < SendCap THEN [send EXCEPT ![cl] = Append(@, f)]
                                        ELSE send

SendResponse(cl, f) ==
  /\ Enqueue(cl, f)
  /\ UNCHANGED <<link, messageCh, hub, shutdown>>

\* A message answered to its sender at once.
TakeAndRespond(f) ==
  /\ messageCh # <<>>
  /\ messageCh' = Tail(messageCh)
  /\ Enqueue(Head(messageCh).client, f)
  /\ UNCHANGED <<link, hub, shutdown>>

-----------------------------------------------------------------------------
SocketStep ==
  \/ \E cl \in Clients : \/ Connect(cl) \/ WriteOut(cl)
                         \/ Break(cl) \/ Unregister(cl)
  \/ HubTakesMessage \/ BeginShutdown \/ HubStops
  \/ \E S \in SUBSET Clients : CloseConnections(S)

Next ==
  \/ SocketStep
  \/ \E cl \in Clients, r \in Requests : Forward(cl, r)
  \/ TakeMessage
  \/ \E cl \in Clients, f \in Frames : SendResponse(cl, f)
  \/ \E f \in Frames : TakeAndRespond(f)

Spec == Init /\ [][Next]_vars
=============================================================================
