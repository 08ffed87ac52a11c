SPECIFICATION Spec
CONSTANTS
  c1 = c1
  c2 = c2
  u1 = u1
  u2 = u2
  Calls = {c1, c2}
  Clients = {u1, u2}
  NoClientsAnswer = NoClientsAnswer
  NoCall = NoCall
  NoID = NoID
  NoAnswer = NoAnswer
  NoClient = NoClient
  TheHandler = TheHandler
  QuestionCap = 1
  ResponseCap = 1
  MessageCap = 1
  SendCap = 1
  Casts <- Dialogue
PROPERTY DroppedClientsRemoved
