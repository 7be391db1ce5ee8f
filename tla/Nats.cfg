\* Two messages sent and received under one name, a connection lost once.
SPECIFICATION FairSpec
CONSTANTS
  q1 = q1
  m1 = m1
  m2 = m2
  Names <- OneName
  In = q1
  Outgoing <- TwoSent
  ChanCap = 1
  ErrCap = 1
  PendingCap = 1
  MaxDrops = 1
  Nil = Nil
INVARIANTS
  TriedInOrder
  ConnectionOutlivesPublishers
  ReceivedInOrder
PROPERTIES
  ImplementsOutbox
  StopReturns
\* The system may come to a stop: after Stop, or in the circle StopReturns names.
CHECK_DEADLOCK FALSE
