SPECIFICATION Spec
CONSTANTS
  c1 = c1
  c2 = c2
  Clients = {c1, c2}
  Server = server
  HdrLen = 1
  QCap = 5
  Setups <- MCSetups
INVARIANTS NoStrayWake Framed OwnResponse
PROPERTY EveryRequestAnswered
CHECK_DEADLOCK FALSE
