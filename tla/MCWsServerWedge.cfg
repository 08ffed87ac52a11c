SPECIFICATION FairSpec
CONSTANTS
  Clients = {u1}
  ClientIDs = {i1}
  Frames = {frame}
  Requests = {request}
  MessageCap = 1
  SendCap = 1
  NoClient = NoClient
  NoID = NoID
PROPERTY ForwardedMessageDelivered
CHECK_DEADLOCK FALSE
