---------------------------- MODULE WsServerProof ----------------------------
(***************************************************************************)
(* The invariants of WsServer, proved for every set of connections and     *)
(* every set of client IDs, shared IDs included.                           *)
(***************************************************************************)
EXTENDS WsServer, SequenceTheorems, TLAPS

USE WsAssumption DEF WsAssumption

-----------------------------------------------------------------------------
(* Types *)

LEMMA TypeInit == Init => TypeOK
<1> SUFFICES ASSUME Init PROVE TypeOK
  OBVIOUS
<1>1. send \in [Clients -> Seq(Frames)] /\ messageCh \in Seq(Messages)
  BY DEF Init
<1>2. sendOpen \in [Clients -> BOOLEAN]
  BY DEF Init
<1>3. (\A cl \in Clients : Len(send[cl]) <= SendCap) /\ Len(messageCh) <= MessageCap
  BY DEF Init
<1>4. clients \in [ClientIDs -> Clients \cup {NoClient}]
  BY DEF Init
<1> QED
  BY <1>1, <1>2, <1>3, <1>4 DEF Init, TypeOK

\* The two channels of values stay within their capacities.
Queues ==
  /\ send \in [Clients -> Seq(Frames)]
  /\ \A cl \in Clients : Len(send[cl]) <= SendCap
  /\ messageCh \in Seq(Messages) /\ Len(messageCh) <= MessageCap

LEMMA QueuesStep == Queues /\ [Next]_vars => Queues'
<1> SUFFICES ASSUME Queues, [Next]_vars PROVE Queues'
  OBVIOUS
<1> USE DEF Queues, Messages, clientVars, hubVars
<1>1. ASSUME NEW cl \in Clients, NEW r \in Requests, Forward(cl, r) PROVE Queues'
  <2>1. [client |-> cl, request |-> r] \in Messages
    OBVIOUS
  <2>2. CASE Len(messageCh) < MessageCap
    <3>1. messageCh' = Append(messageCh, [client |-> cl, request |-> r]) /\ send' = send
      BY <1>1, <2>2 DEF Forward
    <3>2. messageCh' \in Seq(Messages) /\ Len(messageCh') = Len(messageCh) + 1
      BY <2>1, <3>1
    <3> QED
      BY <2>2, <3>1, <3>2
  <2>3. CASE ~(Len(messageCh) < MessageCap)
    BY <1>1, <2>3 DEF Forward
  <2> QED
    BY <2>2, <2>3
<1>2. ASSUME NEW cl \in Clients, NEW f \in Frames, SendResponse(cl, f) PROVE Queues'
  <2>1. CASE Len(send[cl]) < SendCap
    <3>1. send' = [send EXCEPT ![cl] = Append(send[cl], f)] /\ messageCh' = messageCh
      BY <1>2, <2>1 DEF SendResponse
    <3>2. Append(send[cl], f) \in Seq(Frames) /\ Len(Append(send[cl], f)) = Len(send[cl]) + 1
      OBVIOUS
    <3> QED
      BY <2>1, <3>1, <3>2
  <2>2. CASE ~(Len(send[cl]) < SendCap)
    BY <1>2, <2>2 DEF SendResponse
  <2> QED
    BY <2>1, <2>2
<1>3. ASSUME NEW cl \in Clients, WriteOut(cl) \/ WriteFails(cl) PROVE Queues'
  <2>1. /\ send[cl] # <<>>
        /\ send' = [send EXCEPT ![cl] = Tail(send[cl])]
        /\ messageCh' = messageCh
    BY <1>3 DEF WriteOut, WriteFails, WriterLeaves
  <2>2. Tail(send[cl]) \in Seq(Frames) /\ Len(Tail(send[cl])) = Len(send[cl]) - 1
    BY <2>1, HeadTailProperties
  <2> QED
    BY <2>1, <2>2
<1>4. ASSUME HubTakesMessage \/ BridgeTakes PROVE Queues'
  <2>1. messageCh # <<>> /\ messageCh' = Tail(messageCh) /\ send' = send
    BY <1>4 DEF HubTakesMessage, BridgeTakes
  <2>2. Tail(messageCh) \in Seq(Messages) /\ Len(Tail(messageCh)) = Len(messageCh) - 1
    BY <2>1, HeadTailProperties
  <2> QED
    BY <2>1, <2>2
<1>5. ASSUME UNCHANGED <<send, messageCh>> PROVE Queues'
  BY <1>5
<1>6. ASSUME NEW cl \in Clients, NEW id \in ClientIDs, Upgrade(cl, id) PROVE Queues'
  BY <1>5, <1>6 DEF Upgrade
<1>7. ASSUME NEW cl \in Clients, ConnectionStep(cl) PROVE Queues'
  BY <1>5, <1>7 DEF ConnectionStep, Register, Refuse, StartPumps
<1>8. ASSUME NEW cl \in Clients, ReadFails(cl) \/ Unregister(cl) \/ ReaderCloses(cl)
      PROVE Queues'
  BY <1>5, <1>8 DEF ReadFails, Unregister, ReaderCloses
<1>9. ASSUME NEW cl \in Clients, SendClosed(cl) \/ PingFails(cl) \/ PeerGone(cl) PROVE Queues'
  BY <1>5, <1>9 DEF SendClosed, PingFails, WriterLeaves, PeerGone
<1>10. ASSUME HubInserts \/ HubRemoves \/ HubStops PROVE Queues'
  BY <1>5, <1>10 DEF HubInserts, HubRemoves, HubStops
<1>11. ASSUME CloseShutdown \/ ShutdownStep PROVE Queues'
  BY <1>5, <1>11 DEF CloseShutdown, ShutdownStep, CloseConnections, StopHTTP
<1>12. CASE UNCHANGED vars
  BY <1>5, <1>12 DEF vars
<1> QED
  BY <1>1, <1>2, <1>3, <1>4, <1>6, <1>7, <1>8, <1>9, <1>10, <1>11, <1>12
  DEF Next, WriterStep, HubStep

\* The rest: where everybody is, and the hub's map.
Places ==
  /\ handler \in [Clients -> {"none", "registering", "refused", "starting", "done"}]
  /\ clientID \in [Clients -> ClientIDs \cup {NoID}]
  /\ conn \in [Clients -> {"none", "up", "down"}]
  /\ reader \in [Clients -> {"none", "reading", "leaving", "closing", "done"}]
  /\ writer \in [Clients -> {"none", "select", "done"}]
  /\ sendOpen \in [Clients -> BOOLEAN]
  /\ clients \in [ClientIDs -> Clients \cup {NoClient}]
  /\ hub \in {"select", "insert", "remove", "broadcast", "stopped"}
  /\ hubArg \in Clients \cup {NoClient}
  /\ hub \in {"insert", "remove"} <=> hubArg # NoClient
  /\ stopping \in {"no", "closing", "http", "done"}

\* A connection that has been upgraded has an ID, and only such a connection is
\* registered; only a registered one has pumps; the hub closes the channel of
\* one whose read pump has left, and holds only connections of the right kind.
Roles ==
  /\ \A cl \in Clients : IF handler[cl] = "none" THEN clientID[cl] = NoID
                                                  ELSE clientID[cl] \in ClientIDs
  /\ \A cl \in Clients : reader[cl] # "none" \/ writer[cl] # "none" => handler[cl] = "done"
  /\ \A cl \in Clients : ~sendOpen[cl] => reader[cl] \in {"closing", "done"} /\ hubArg # cl
  /\ \A id \in ClientIDs, cl \in Clients :
        clients[id] = cl => handler[cl] \in {"starting", "done"}
  /\ hub = "insert" => /\ handler[hubArg] \in {"starting", "done"}
                       /\ reader[hubArg] \in {"none", "reading", "leaving"}
  /\ hub = "remove" => reader[hubArg] \in {"closing", "done"}

\* A registered connection that the hub has not let go of is under its ID, or
\* somebody else drew the same one.
Entered ==
  \A cl \in Clients :
     /\ handler[cl] \in {"starting", "done"} /\ ~Served(cl)
     /\ ~(hub = "insert" /\ hubArg = cl)
     => \/ clients[clientID[cl]] = cl
        \/ \E other \in Clients \ {cl} : clientID[other] = clientID[cl]

ServerInv == Places /\ Roles /\ MapLeadsToLiveClients /\ Entered /\ LeaversAreClosed

LEMMA ServerInit == Init => ServerInv
<1> SUFFICES ASSUME Init PROVE ServerInv
  OBVIOUS
<1>1. Places
  BY TypeInit DEF TypeOK, Places
<1>2. Roles
  BY DEF Init, Roles
<1>3. MapLeadsToLiveClients
  BY DEF Init, MapLeadsToLiveClients
<1>4. Entered /\ LeaversAreClosed
  BY DEF Init, Entered, LeaversAreClosed, Served
<1> QED
  BY <1>1, <1>2, <1>3, <1>4 DEF ServerInv

LEMMA ServerStep == ServerInv /\ [Next]_vars => ServerInv'
<1> SUFFICES ASSUME ServerInv, [Next]_vars PROVE ServerInv'
  OBVIOUS
<1> USE DEF clientVars, hubVars
<1>1. ASSUME NEW cl \in Clients, NEW id \in ClientIDs, Upgrade(cl, id) PROVE ServerInv'
  <2>1. Places'
    BY <1>1 DEF ServerInv, Places, Upgrade
  <2>2. Roles'
    BY <1>1 DEF ServerInv, Places, Roles, Upgrade
  <2>3. MapLeadsToLiveClients'
    BY <1>1 DEF ServerInv, Places, Roles, MapLeadsToLiveClients, Served, Upgrade
  <2>4. Entered'
    BY <1>1 DEF ServerInv, Places, Roles, MapLeadsToLiveClients, Entered, Served, Upgrade
  <2>5. LeaversAreClosed'
    BY <1>1 DEF ServerInv, Places, Roles, LeaversAreClosed, Entered, Served, Upgrade
  <2> QED
    BY <2>1, <2>2, <2>3, <2>4, <2>5 DEF ServerInv
<1>2. ASSUME NEW cl \in Clients, Register(cl) PROVE ServerInv'
  <2>1. Places'
    BY <1>2 DEF ServerInv, Places, Register
  <2>2. Roles'
    BY <1>2 DEF ServerInv, Places, Roles, Register
  <2>3. MapLeadsToLiveClients'
    BY <1>2 DEF ServerInv, Places, Roles, MapLeadsToLiveClients, Served, Register
  <2>4. Entered'
    BY <1>2 DEF ServerInv, Places, Roles, MapLeadsToLiveClients, Entered, Served, Register
  <2>5. LeaversAreClosed'
    BY <1>2 DEF ServerInv, Places, Roles, LeaversAreClosed, Entered, Served, Register
  <2> QED
    BY <2>1, <2>2, <2>3, <2>4, <2>5 DEF ServerInv
<1>3. ASSUME NEW cl \in Clients, Refuse(cl) PROVE ServerInv'
  <2>1. Places'
    BY <1>3 DEF ServerInv, Places, Refuse, Close
  <2>2. Roles'
    BY <1>3 DEF ServerInv, Places, Roles, Refuse, Close
  <2>3. MapLeadsToLiveClients'
    BY <1>3 DEF ServerInv, Places, Roles, MapLeadsToLiveClients, Served, Refuse, Close
  <2>4. Entered'
    BY <1>3 DEF ServerInv, Places, Roles, MapLeadsToLiveClients, Entered, Served, Refuse, Close
  <2>5. LeaversAreClosed'
    BY <1>3 DEF ServerInv, Places, Roles, LeaversAreClosed, Entered, Served, Refuse, Close
  <2> QED
    BY <2>1, <2>2, <2>3, <2>4, <2>5 DEF ServerInv
<1>4. ASSUME NEW cl \in Clients, StartPumps(cl) PROVE ServerInv'
  <2>1. Places'
    BY <1>4 DEF ServerInv, Places, StartPumps
  <2>2. Roles'
    BY <1>4 DEF ServerInv, Places, Roles, StartPumps
  <2>3. MapLeadsToLiveClients'
    BY <1>4 DEF ServerInv, Places, Roles, MapLeadsToLiveClients, Served, StartPumps
  <2>4. Entered'
    BY <1>4 DEF ServerInv, Places, Roles, MapLeadsToLiveClients, Entered, Served, StartPumps
  <2>5. LeaversAreClosed'
    BY <1>4 DEF ServerInv, Places, Roles, LeaversAreClosed, Entered, Served, StartPumps
  <2> QED
    BY <2>1, <2>2, <2>3, <2>4, <2>5 DEF ServerInv
<1>5. ASSUME NEW cl \in Clients, ReadFails(cl) PROVE ServerInv'
  <2>1. Places'
    BY <1>5 DEF ServerInv, Places, ReadFails
  <2>2. Roles'
    BY <1>5 DEF ServerInv, Places, Roles, ReadFails
  <2>3. MapLeadsToLiveClients'
    BY <1>5 DEF ServerInv, Places, Roles, MapLeadsToLiveClients, Served, ReadFails
  <2>4. Entered'
    BY <1>5 DEF ServerInv, Places, Roles, MapLeadsToLiveClients, Entered, Served, ReadFails
  <2>5. LeaversAreClosed'
    BY <1>5 DEF ServerInv, Places, Roles, LeaversAreClosed, Entered, Served, ReadFails
  <2> QED
    BY <2>1, <2>2, <2>3, <2>4, <2>5 DEF ServerInv
<1>6. ASSUME NEW cl \in Clients, Unregister(cl) PROVE ServerInv'
  <2>1. Places'
    BY <1>6 DEF ServerInv, Places, Unregister
  <2>2. Roles'
    BY <1>6 DEF ServerInv, Places, Roles, Unregister
  <2>3. MapLeadsToLiveClients'
    BY <1>6 DEF ServerInv, Places, Roles, MapLeadsToLiveClients, Served, Unregister
  <2>4. Entered'
    BY <1>6 DEF ServerInv, Places, Roles, MapLeadsToLiveClients, Entered, Served, Unregister
  <2>5. LeaversAreClosed'
    BY <1>6 DEF ServerInv, Places, Roles, LeaversAreClosed, Entered, Served, Unregister
  <2> QED
    BY <2>1, <2>2, <2>3, <2>4, <2>5 DEF ServerInv
<1>7. ASSUME NEW cl \in Clients, ReaderCloses(cl) PROVE ServerInv'
  <2>1. Places'
    BY <1>7 DEF ServerInv, Places, ReaderCloses, Close
  <2>2. Roles'
    BY <1>7 DEF ServerInv, Places, Roles, ReaderCloses, Close
  <2>3. MapLeadsToLiveClients'
    BY <1>7 DEF ServerInv, Places, Roles, MapLeadsToLiveClients, Served, ReaderCloses, Close
  <2>4. Entered'
    BY <1>7 DEF ServerInv, Places, Roles, MapLeadsToLiveClients, Entered, Served, ReaderCloses, Close
  <2>5. LeaversAreClosed'
    BY <1>7 DEF ServerInv, Places, Roles, LeaversAreClosed, Entered, Served, ReaderCloses, Close
  <2> QED
    BY <2>1, <2>2, <2>3, <2>4, <2>5 DEF ServerInv
<1>8. ASSUME NEW cl \in Clients, WriterLeaves(cl) PROVE ServerInv'
  <2>1. Places'
    BY <1>8 DEF ServerInv, Places, WriterLeaves, Close
  <2>2. Roles'
    BY <1>8 DEF ServerInv, Places, Roles, WriterLeaves, Close
  <2>3. MapLeadsToLiveClients'
    BY <1>8 DEF ServerInv, Places, Roles, MapLeadsToLiveClients, Served, WriterLeaves, Close
  <2>4. Entered'
    BY <1>8 DEF ServerInv, Places, Roles, MapLeadsToLiveClients, Entered, Served, WriterLeaves, Close
  <2>5. LeaversAreClosed'
    BY <1>8 DEF ServerInv, Places, Roles, LeaversAreClosed, Entered, Served, WriterLeaves, Close
  <2> QED
    BY <2>1, <2>2, <2>3, <2>4, <2>5 DEF ServerInv
<1>9. ASSUME NEW cl \in Clients, PeerGone(cl) PROVE ServerInv'
  <2>1. Places'
    BY <1>9 DEF ServerInv, Places, PeerGone, Close
  <2>2. Roles'
    BY <1>9 DEF ServerInv, Places, Roles, PeerGone, Close
  <2>3. MapLeadsToLiveClients'
    BY <1>9 DEF ServerInv, Places, Roles, MapLeadsToLiveClients, Served, PeerGone, Close
  <2>4. Entered'
    BY <1>9 DEF ServerInv, Places, Roles, MapLeadsToLiveClients, Entered, Served, PeerGone, Close
  <2>5. LeaversAreClosed'
    BY <1>9 DEF ServerInv, Places, Roles, LeaversAreClosed, Entered, Served, PeerGone, Close
  <2> QED
    BY <2>1, <2>2, <2>3, <2>4, <2>5 DEF ServerInv
<1>10. ASSUME HubInserts PROVE ServerInv'
  <2>1. Places'
    BY <1>10 DEF ServerInv, Places, HubInserts
  <2>2. Roles'
    BY <1>10 DEF ServerInv, Places, Roles, HubInserts
  <2>3. MapLeadsToLiveClients'
    BY <1>10 DEF ServerInv, Places, Roles, MapLeadsToLiveClients, Served, HubInserts
  <2>4. Entered'
    BY <1>10 DEF ServerInv, Places, Roles, MapLeadsToLiveClients, Entered, Served, HubInserts
  <2>5. LeaversAreClosed'
    BY <1>10 DEF ServerInv, Places, Roles, LeaversAreClosed, Entered, Served, HubInserts
  <2> QED
    BY <2>1, <2>2, <2>3, <2>4, <2>5 DEF ServerInv
<1>11. ASSUME HubRemoves PROVE ServerInv'
  <2>1. Places'
    BY <1>11 DEF ServerInv, Places, HubRemoves
  <2>2. Roles'
    BY <1>11 DEF ServerInv, Places, Roles, HubRemoves
  <2>3. MapLeadsToLiveClients'
    BY <1>11 DEF ServerInv, Places, Roles, MapLeadsToLiveClients, Served, HubRemoves
  <2>4. Entered'
    BY <1>11 DEF ServerInv, Places, Roles, MapLeadsToLiveClients, Entered, Served, HubRemoves
  <2>5. LeaversAreClosed'
    BY <1>11 DEF ServerInv, Places, Roles, LeaversAreClosed, Entered, Served, HubRemoves
  <2> QED
    BY <2>1, <2>2, <2>3, <2>4, <2>5 DEF ServerInv
<1>12. ASSUME HubTakesMessage PROVE ServerInv'
  <2>1. Places'
    BY <1>12 DEF ServerInv, Places, HubTakesMessage
  <2>2. Roles'
    BY <1>12 DEF ServerInv, Places, Roles, HubTakesMessage
  <2>3. MapLeadsToLiveClients'
    BY <1>12 DEF ServerInv, Places, Roles, MapLeadsToLiveClients, Served, HubTakesMessage
  <2>4. Entered'
    BY <1>12 DEF ServerInv, Places, Roles, MapLeadsToLiveClients, Entered, Served, HubTakesMessage
  <2>5. LeaversAreClosed'
    BY <1>12 DEF ServerInv, Places, Roles, LeaversAreClosed, Entered, Served, HubTakesMessage
  <2> QED
    BY <2>1, <2>2, <2>3, <2>4, <2>5 DEF ServerInv
<1>13. ASSUME HubStops PROVE ServerInv'
  <2>1. Places'
    BY <1>13 DEF ServerInv, Places, HubStops
  <2>2. Roles'
    BY <1>13 DEF ServerInv, Places, Roles, HubStops
  <2>3. MapLeadsToLiveClients'
    BY <1>13 DEF ServerInv, Places, Roles, MapLeadsToLiveClients, Served, HubStops
  <2>4. Entered'
    BY <1>13 DEF ServerInv, Places, Roles, MapLeadsToLiveClients, Entered, Served, HubStops
  <2>5. LeaversAreClosed'
    BY <1>13 DEF ServerInv, Places, Roles, LeaversAreClosed, Entered, Served, HubStops
  <2> QED
    BY <2>1, <2>2, <2>3, <2>4, <2>5 DEF ServerInv
<1>14. ASSUME CloseShutdown PROVE ServerInv'
  <2>1. Places'
    BY <1>14 DEF ServerInv, Places, CloseShutdown
  <2>2. Roles'
    BY <1>14 DEF ServerInv, Places, Roles, CloseShutdown
  <2>3. MapLeadsToLiveClients'
    BY <1>14 DEF ServerInv, Places, Roles, MapLeadsToLiveClients, Served, CloseShutdown
  <2>4. Entered'
    BY <1>14 DEF ServerInv, Places, Roles, MapLeadsToLiveClients, Entered, Served, CloseShutdown
  <2>5. LeaversAreClosed'
    BY <1>14 DEF ServerInv, Places, Roles, LeaversAreClosed, Entered, Served, CloseShutdown
  <2> QED
    BY <2>1, <2>2, <2>3, <2>4, <2>5 DEF ServerInv
<1>15. ASSUME CloseConnections PROVE ServerInv'
  <2>1. Places'
    BY <1>15 DEF ServerInv, Places, CloseConnections
  <2>2. Roles'
    BY <1>15 DEF ServerInv, Places, Roles, CloseConnections
  <2>3. MapLeadsToLiveClients'
    BY <1>15 DEF ServerInv, Places, Roles, MapLeadsToLiveClients, Served, CloseConnections
  <2>4. Entered'
    BY <1>15 DEF ServerInv, Places, Roles, MapLeadsToLiveClients, Entered, Served, CloseConnections
  <2>5. LeaversAreClosed'
    BY <1>15 DEF ServerInv, Places, Roles, LeaversAreClosed, Entered, Served, CloseConnections
  <2> QED
    BY <2>1, <2>2, <2>3, <2>4, <2>5 DEF ServerInv
<1>16. ASSUME StopHTTP PROVE ServerInv'
  <2>1. Places'
    BY <1>16 DEF ServerInv, Places, StopHTTP
  <2>2. Roles'
    BY <1>16 DEF ServerInv, Places, Roles, StopHTTP
  <2>3. MapLeadsToLiveClients'
    BY <1>16 DEF ServerInv, Places, Roles, MapLeadsToLiveClients, Served, StopHTTP
  <2>4. Entered'
    BY <1>16 DEF ServerInv, Places, Roles, MapLeadsToLiveClients, Entered, Served, StopHTTP
  <2>5. LeaversAreClosed'
    BY <1>16 DEF ServerInv, Places, Roles, LeaversAreClosed, Entered, Served, StopHTTP
  <2> QED
    BY <2>1, <2>2, <2>3, <2>4, <2>5 DEF ServerInv
<1>17. ASSUME UNCHANGED <<handler, clientID, conn, reader, writer, sendOpen, clients, hub, hubArg, stopping>>
      PROVE ServerInv'
  BY <1>17 DEF ServerInv, Places, Roles, MapLeadsToLiveClients, Entered, LeaversAreClosed, Served
<1>18. ASSUME NEW cl \in Clients, NEW r \in Requests, Forward(cl, r) PROVE ServerInv'
  BY <1>17, <1>18 DEF Forward
<1>19. ASSUME NEW cl \in Clients, NEW f \in Frames, SendResponse(cl, f) PROVE ServerInv'
  BY <1>17, <1>19 DEF SendResponse
<1>20. ASSUME NEW cl \in Clients, WriteOut(cl) PROVE ServerInv'
  BY <1>17, <1>20 DEF WriteOut
<1>21. CASE BridgeTakes
  BY <1>17, <1>21 DEF BridgeTakes
<1>22. CASE UNCHANGED vars
  BY <1>17, <1>22 DEF vars
<1> QED
  BY <1>1, <1>2, <1>3, <1>4, <1>5, <1>6, <1>7, <1>8, <1>9, <1>10, <1>11, <1>12, <1>13, <1>14, <1>15, <1>16, <1>18, <1>19, <1>20, <1>21, <1>22
  DEF Next, ConnectionStep, WriterStep, HubStep, ShutdownStep, WriteFails, SendClosed, PingFails

Inv == Queues /\ ServerInv

LEMMA Invariance == Spec => []Inv
<1>1. Init => Inv
  BY TypeInit, ServerInit DEF TypeOK, Queues, Inv
<1>2. Inv /\ [Next]_vars => Inv'
  BY QueuesStep, ServerStep DEF Inv
<1> QED
  BY <1>1, <1>2, PTL DEF Spec

\* The type invariant of the server.
THEOREM Typing == Spec => []TypeOK
<1>1. Inv => TypeOK
  BY DEF Inv, Queues, ServerInv, Places, TypeOK
<1> QED
  BY Invariance, <1>1, PTL

\* The map leads to clients the hub has not let go of, even if IDs are shared.
THEOREM MapIsLive == Spec => []MapLeadsToLiveClients
<1>1. Inv => MapLeadsToLiveClients
  BY DEF Inv, ServerInv
<1> QED
  BY Invariance, <1>1, PTL

\* Who leaves has its send channel closed, unless its ID was shared.
THEOREM LeaversCleanedUp == Spec => []LeaversAreClosed
<1>1. Inv => LeaversAreClosed
  BY DEF Inv, ServerInv
<1> QED
  BY Invariance, <1>1, PTL

-----------------------------------------------------------------------------
(* The server implements Sockets *)

AbsLink == [cl \in Clients |-> Link(cl)]

LEMMA RefinesInit == Init => Abstract!Init
<1> SUFFICES ASSUME Init PROVE Abstract!Init
  OBVIOUS
<1>1. AbsLink = [cl \in Clients |-> "new"]
  BY DEF Init, AbsLink, Link
<1> QED
  BY <1>1 DEF Init, Abstract!Init, AbsLink, AbsHub

\* A step that leaves what Sockets sees alone.
LEMMA Invisible ==
  ASSUME \A cl \in Clients : Link(cl)' = Link(cl),
         AbsHub' = AbsHub, send' = send, messageCh' = messageCh,
         (stopping # "no")' <=> (stopping # "no")
  PROVE  UNCHANGED Abstract!vars
  BY DEF Abstract!vars

\* A connection that breaks, or that was not open, or never registered.
LEMMA RefinesBreak ==
  ASSUME NEW cl \in Clients,
         Link(cl)' = IF Link(cl) = "open" THEN "broken" ELSE Link(cl),
         \A other \in Clients \ {cl} : Link(other)' = Link(other),
         AbsHub' = AbsHub, send' = send, messageCh' = messageCh,
         stopping' = stopping
  PROVE  [Abstract!Next]_(Abstract!vars)
<1>1. CASE Link(cl) = "open"
  <2>1. AbsLink' = [AbsLink EXCEPT ![cl] = "broken"] /\ AbsLink[cl] = "open"
    BY <1>1 DEF AbsLink
  <2>2. Abstract!Break(cl)
    BY <2>1 DEF Abstract!Break, AbsLink
  <2> QED
    BY <2>2 DEF Abstract!Next, Abstract!SocketStep
<1>2. CASE Link(cl) # "open"
  BY <1>2, Invisible
<1> QED
  BY <1>1, <1>2

LEMMA RefinesRegister ==
  ASSUME Inv, NEW cl \in Clients, Register(cl)
  PROVE  Abstract!Connect(cl)
<1> USE DEF Inv, ServerInv, Places, Roles
<1>1. Link(cl) = "new" /\ Link(cl)' \in {"open", "broken"}
  BY DEF Register, Link
<1>2. \A other \in Clients \ {cl} : Link(other)' = Link(other)
  BY DEF Register, Link
<1>3. AbsLink' = [AbsLink EXCEPT ![cl] = Link(cl)'] /\ AbsLink[cl] = "new"
  BY <1>1, <1>2 DEF AbsLink
<1>4. AbsHub = "running" /\ AbsHub' = "running"
  BY DEF Register, AbsHub
<1> QED
  BY <1>1, <1>3, <1>4 DEF Abstract!Connect, AbsLink, Register

LEMMA RefinesRemoves ==
  ASSUME Inv, HubRemoves
  PROVE  [Abstract!Next]_(Abstract!vars)
<1>1. PICK cl \in Clients : cl = hubArg
  BY DEF HubRemoves, Inv, ServerInv, Places
<1>2. /\ handler[cl] = "done" /\ reader[cl] \in {"closing", "done"} /\ sendOpen[cl]
      /\ hub = "remove" /\ hub' = "select"
  BY <1>1 DEF HubRemoves, Inv, ServerInv, Places, Roles
<1>3. AbsHub = "running" /\ AbsHub' = "running"
  BY <1>2 DEF AbsHub
<1>4. CASE clients[clientID[cl]] = NoClient
  <2>1. sendOpen' = sendOpen
    BY <1>1, <1>4 DEF HubRemoves
  <2>2. \A other \in Clients : Link(other)' = Link(other)
    BY <2>1 DEF HubRemoves, Link, Inv, ServerInv, Places
  <2> QED
    BY <1>3, <2>2, Invisible DEF HubRemoves
<1>5. CASE clients[clientID[cl]] # NoClient
  <2>1. sendOpen' = [sendOpen EXCEPT ![cl] = FALSE]
    BY <1>1, <1>5 DEF HubRemoves
  <2>2. Link(cl) = "broken" /\ Link(cl)' = "closed"
    BY <1>2, <2>1 DEF HubRemoves, Link, Inv, ServerInv, Places
  <2>3. \A other \in Clients \ {cl} : Link(other)' = Link(other)
    BY <2>1 DEF HubRemoves, Link, Inv, ServerInv, Places
  <2>4. AbsLink' = [AbsLink EXCEPT ![cl] = "closed"] /\ AbsLink[cl] = "broken"
    BY <2>2, <2>3 DEF AbsLink
  <2>5. Abstract!Unregister(cl)
    BY <1>3, <2>4 DEF Abstract!Unregister, AbsLink, HubRemoves
  <2> QED
    BY <2>5 DEF Abstract!Next, Abstract!SocketStep
<1> QED
  BY <1>4, <1>5

LEMMA RefinesCloseConnections ==
  ASSUME Inv, CloseConnections
  PROVE  [Abstract!Next]_(Abstract!vars)
<1> USE DEF Inv, ServerInv, Places, Roles
<1> DEFINE S == {cl \in Clients : \E id \in ClientIDs : clients[id] = cl}
<1>1. ASSUME NEW cl \in Clients
      PROVE  Link(cl)' = IF cl \in S /\ Link(cl) = "open" THEN "broken" ELSE Link(cl)
  <2>1. conn'[cl] = IF cl \in S THEN "down" ELSE conn[cl]
    BY DEF CloseConnections
  <2> HIDE DEF S
  <2>2. CASE cl \in S
    BY <2>1, <2>2 DEF CloseConnections, Link
  <2>3. CASE cl \notin S
    BY <2>1, <2>3 DEF CloseConnections, Link
  <2> QED
    BY <2>2, <2>3
<1>2. S \in SUBSET Clients
  OBVIOUS
<1>3. AbsHub' = AbsHub
  BY DEF CloseConnections, AbsHub, hubVars
<1> HIDE DEF S
<1>4. AbsLink' = [cl \in Clients |-> IF cl \in S /\ AbsLink[cl] = "open" THEN "broken"
                                                                       ELSE AbsLink[cl]]
  BY <1>1 DEF AbsLink
<1>5. Abstract!CloseConnections(S)
  BY <1>3, <1>4 DEF Abstract!CloseConnections, AbsLink, CloseConnections
<1> QED
  BY <1>2, <1>5 DEF Abstract!Next, Abstract!SocketStep

LEMMA RefinesStep == Inv /\ [Next]_vars => [Abstract!Next]_(Abstract!vars)
<1> SUFFICES ASSUME Inv, [Next]_vars PROVE [Abstract!Next]_(Abstract!vars)
  OBVIOUS
<1> USE DEF clientVars, hubVars
<1>1. ASSUME NEW cl \in Clients, NEW id \in ClientIDs, Upgrade(cl, id)
      PROVE  UNCHANGED Abstract!vars
  BY <1>1, Invisible DEF Upgrade, Link, AbsHub, Inv, ServerInv, Places, Roles
<1>2. ASSUME NEW cl \in Clients, Register(cl) PROVE Abstract!Next
  BY <1>2, RefinesRegister DEF Abstract!Next, Abstract!SocketStep
<1>3. ASSUME NEW cl \in Clients, Refuse(cl) \/ StartPumps(cl) PROVE UNCHANGED Abstract!vars
  BY <1>3, Invisible
  DEF Refuse, StartPumps, Close, Link, AbsHub, Inv, ServerInv, Places, Roles
<1>4. ASSUME NEW cl \in Clients, Unregister(cl) \/ ReaderCloses(cl)
      PROVE  UNCHANGED Abstract!vars
  BY <1>4, Invisible
  DEF Unregister, ReaderCloses, Close, Link, AbsHub, Inv, ServerInv, Places, Roles
<1>5. ASSUME NEW cl \in Clients, SendClosed(cl) \/ PingFails(cl) PROVE UNCHANGED Abstract!vars
  BY <1>5, Invisible
  DEF SendClosed, PingFails, WriterLeaves, Close, Link, AbsHub, Inv, ServerInv, Places, Roles
<1>6. ASSUME NEW cl \in Clients, ReadFails(cl) \/ PeerGone(cl)
      PROVE  [Abstract!Next]_(Abstract!vars)
  BY <1>6, RefinesBreak
  DEF ReadFails, PeerGone, Close, Link, AbsHub, Inv, ServerInv, Places, Roles
<1>7. ASSUME NEW cl \in Clients, WriteOut(cl) \/ WriteFails(cl) PROVE Abstract!Next
  <2>1. \A other \in Clients : Link(other)' = Link(other)
    BY <1>7 DEF WriteOut, WriteFails, WriterLeaves, Close, Link, Inv, ServerInv, Places
  <2>2. AbsLink' = AbsLink /\ AbsLink[cl] \in {"open", "broken", "closed"}
    BY <1>7, <2>1
    DEF AbsLink, Link, WriteOut, WriteFails, WriterLeaves, Inv, ServerInv, Places, Roles
  <2>3. Abstract!WriteOut(cl)
    BY <1>7, <2>2
    DEF Abstract!WriteOut, AbsLink, AbsHub, WriteOut, WriteFails, WriterLeaves
  <2> QED
    BY <2>3 DEF Abstract!Next, Abstract!SocketStep
<1>8. ASSUME NEW cl \in Clients, NEW r \in Requests, Forward(cl, r) PROVE Abstract!Next
  <2>1. AbsLink' = AbsLink /\ AbsLink[cl] \in {"open", "broken"}
    BY <1>8 DEF AbsLink, Link, Forward, Inv, ServerInv, Places, Roles
  <2>2. Abstract!Forward(cl, r)
    BY <1>8, <2>1 DEF Abstract!Forward, AbsLink, AbsHub, Forward
  <2> QED
    BY <2>2 DEF Abstract!Next
<1>9. ASSUME NEW cl \in Clients, NEW f \in Frames, SendResponse(cl, f) PROVE Abstract!Next
  <2>1. AbsLink' = AbsLink /\ AbsLink[cl] \in {"open", "broken"}
    BY <1>9 DEF AbsLink, Link, SendResponse, Inv, ServerInv, Places, Roles
  <2>2. Abstract!SendResponse(cl, f)
    BY <1>9, <2>1
    DEF Abstract!SendResponse, Abstract!Enqueue, AbsLink, AbsHub, SendResponse
  <2> QED
    BY <2>2 DEF Abstract!Next
<1>10. CASE HubInserts
  BY <1>10, Invisible DEF HubInserts, Link, AbsHub, Inv, ServerInv, Places, Roles
<1>11. CASE HubRemoves
  BY <1>11, RefinesRemoves
<1>12. CASE HubTakesMessage
  <2>1. AbsLink' = AbsLink /\ AbsHub = "running" /\ AbsHub' = "wedged"
    BY <1>12 DEF HubTakesMessage, AbsLink, Link, AbsHub
  <2>2. Abstract!HubTakesMessage
    BY <1>12, <2>1 DEF HubTakesMessage, Abstract!HubTakesMessage, AbsLink
  <2> QED
    BY <2>2 DEF Abstract!Next, Abstract!SocketStep
<1>13. CASE HubStops
  <2>1. AbsLink' = AbsLink /\ AbsHub = "running" /\ AbsHub' = "stopped"
    BY <1>13 DEF HubStops, AbsLink, Link, AbsHub
  <2>2. Abstract!HubStops
    BY <1>13, <2>1 DEF HubStops, Abstract!HubStops, AbsLink
  <2> QED
    BY <2>2 DEF Abstract!Next, Abstract!SocketStep
<1>14. CASE CloseShutdown
  <2>1. AbsLink' = AbsLink /\ AbsHub' = AbsHub
    BY <1>14 DEF CloseShutdown, AbsLink, Link, AbsHub
  <2>2. Abstract!BeginShutdown
    BY <1>14, <2>1 DEF CloseShutdown, Abstract!BeginShutdown, AbsLink
  <2> QED
    BY <2>2 DEF Abstract!Next, Abstract!SocketStep
<1>15. CASE CloseConnections
  BY <1>15, RefinesCloseConnections
<1>16. CASE StopHTTP
  BY <1>16, Invisible DEF StopHTTP, Link, AbsHub
<1>17. CASE BridgeTakes
  <2>1. AbsLink' = AbsLink /\ AbsHub' = AbsHub
    BY <1>17 DEF BridgeTakes, AbsLink, Link, AbsHub
  <2>2. Abstract!TakeMessage
    BY <1>17, <2>1 DEF BridgeTakes, Abstract!TakeMessage, AbsLink
  <2> QED
    BY <2>2 DEF Abstract!Next
<1>18. CASE UNCHANGED vars
  BY <1>18, Invisible DEF vars, Link, AbsHub
<1> QED
  BY <1>1, <1>2, <1>3, <1>4, <1>5, <1>6, <1>7, <1>8, <1>9, <1>10, <1>11, <1>12, <1>13,
     <1>14, <1>15, <1>16, <1>17, <1>18
  DEF Next, ConnectionStep, WriterStep, HubStep, ShutdownStep

\* The WebSocket server implements the sockets the bridge is composed with.
THEOREM Refinement == Spec => ImplementsSockets
<1>1. Inv /\ [Next]_vars => [Abstract!Next]_(Abstract!vars)
  BY RefinesStep
<1> QED
  BY RefinesInit, Invariance, <1>1, PTL DEF Spec, ImplementsSockets, Abstract!Spec
=============================================================================
