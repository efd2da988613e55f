CONSTANTS
  p1 = p1
  p2 = p2
  c1 = c1
  c2 = c2
  Producers <- MCProducers
  Consumers <- MCConsumers
  Nil = Nil
  Size = 2
  Line = 64
  M = 16
  Start = 15
  Blocking <- MCBlocking
  Ops = 2
SPECIFICATION FairSpec
INVARIANTS TypeOK NoDataRace Conserved
PROPERTIES TicketsFit TryReturns
\* Threads stop after Ops operations, and a blocking call may wait for ever.
CHECK_DEADLOCK FALSE
