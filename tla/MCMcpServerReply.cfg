SPECIFICATION Spec
CONSTANTS
  Requests = {r1}
  Clients = {a}
  Tools = {t}
  NoTool = NoTool
  Cap = 1
INVARIANT ResultComesBack
CHECK_DEADLOCK FALSE
