SPECIFICATION Spec
CONSTANTS
  c1 = c1
  c2 = c2
  Clients = {c1, c2}
  MaxRecent = 1
  Setups <- MCSetups
INVARIANT HeardAsDelivered
PROPERTY DeliveredIsHeard
CHECK_DEADLOCK FALSE
