SPECIFICATION FairSpec
CONSTANTS
  Requests = {r1, r2}
  Clients = {a, b}
  Tools = {t, u}
  NoTool = NoTool
  Cap = 1
INVARIANTS TypeOK OnceForTheAsker ResultsAreReal
PROPERTY RepliesGetThrough
CHECK_DEADLOCK FALSE
