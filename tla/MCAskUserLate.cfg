SPECIFICATION Spec
CONSTANTS
  Calls = {c1}
  Handlers = {h1}
  RequestIDs = {r1}
  Answers = {a1}
  NoCall = NoCall
  NoID = NoID
  NoAnswer = NoAnswer
INVARIANT LateResponseIsAnError
