SPECIFICATION Spec
CONSTANTS
  Calls = {c1, c2}
  Handlers = {h1}
  RequestIDs = {r1, r2}
  Answers = {a1, a2}
  NoCall = NoCall
  NoID = NoID
  NoAnswer = NoAnswer
INVARIANTS PendingChannelsOpen PendingUnlessCollision AcceptedInOrder
PROPERTY ImplementsAskOnce
