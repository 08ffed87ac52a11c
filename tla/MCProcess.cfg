SPECIFICATION FairSpec
CONSTANTS
  Reports = {r1}
  Scrapes = {r2}
  Calls = {c1, c2}
  NoCall = NoCall
  QuestionCap = 1
  ResponseCap = 1
INVARIANTS TypeOK EndpointsAgree
PROPERTIES SignalEndsProcess CallsEnd NotHealthyWhileClosing RequestsEnd
CHECK_DEADLOCK FALSE
