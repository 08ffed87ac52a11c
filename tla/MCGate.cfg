SPECIFICATION Spec
CONSTANTS
  ClientIDs = {a, b, c}
  IPs = {ip1, ip2}
  Conns = {k1, k2, k3}
  MaxConnections = 2
  MaxConnectionsPerIP = 1
  AutoBlockThreshold = 1
  WsMaxConnections = 2
  WsMaxConnectionsPerIP = 1
  CollidesOnce = TRUE
  MaxBodySize = 7
  MaxJSONSize = 5
  PrefixOf <- Same
  Upgrades <- AnyUpgrade
  Messages <- AnyMessage
  Incoming <- AnyRequest
  NoID = NoID
  NoIP = NoIP
INVARIANTS TypeOK ChargesMatch OpenWithinLimits OpenIsKnown JudgedWhole RefusedIsNotHandled GoodJSONPasses
PROPERTY BlocksStay
SYMMETRY Symmetry
