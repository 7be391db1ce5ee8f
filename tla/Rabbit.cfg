\* Three messages through one queue, and a connection that may be lost.
SPECIFICATION FairSpec
CONSTANTS
  m1 = m1
  m2 = m2
  m3 = m3
  Outgoing <- ThreeSent
  ChanCap = 2
  ErrCap = 1
  Empty = Empty
  Nil = Nil
INVARIANTS
  TypeOK
  NothingVanishes
  RepeatedOnce
  NothingAfterEmpty
PROPERTIES
  StopReturns
  SubscriberExits
\* After Stop the system rests.
CHECK_DEADLOCK FALSE
