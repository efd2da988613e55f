SPECIFICATION Spec
CONSTANTS
  c1 = c1
  c2 = c2
  c3 = c3
  c4 = c4
  Co = {c1, c2, c3, c4}
  Slots = 3
  Interval = 2
  PoolSize = 2
  Drops = 1
  Contexts = 1
  QCap = 2
  NoFrame = NoFrame
  Setups <- MCSetups
INVARIANTS TimeoutIsDue NoMissedMessage
PROPERTY TimedWaitsEnd
CHECK_DEADLOCK FALSE
