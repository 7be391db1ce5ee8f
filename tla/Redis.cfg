\* Three messages through one list, a server that goes away once.
SPECIFICATION FairSpec
CONSTANTS
  m1 = m1
  m2 = m2
  m3 = m3
  Outgoing <- ThreeSent
  ChanCap = 1
  ErrCap = 1
  MaxDrops = 1
  Nil = Nil
INVARIANTS
  PoppedOnce
PROPERTIES
  ImplementsOutbox
  SubscriberExits
\* After Stop the system rests.
CHECK_DEADLOCK FALSE
