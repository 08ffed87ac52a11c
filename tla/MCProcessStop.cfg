SPECIFICATION Spec
CONSTANTS
  Reports = {}
  Scrapes = {r1}
  Calls = {c1}
  NoCall = NoCall
  QuestionCap = 1
  ResponseCap = 1
INVARIANT StopsCleanly
CHECK_DEADLOCK FALSE
