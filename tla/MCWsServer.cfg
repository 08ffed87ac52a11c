SPECIFICATION FairSpec
CONSTANTS
  Clients = {u1, u2}
  ClientIDs = {i1, i2}
  Frames = {frame}
  Requests = {request}
  MessageCap = 1
  SendCap = 1
  NoClient = NoClient
  NoID = NoID
INVARIANTS MapLeadsToLiveClients LeaversAreClosed
PROPERTIES ImplementsSockets PumpsEnd
CHECK_DEADLOCK FALSE
