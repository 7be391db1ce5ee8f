\* Two messages through one list, as Redis.cfg; the order in which they are received.
SPECIFICATION Spec
CONSTANTS
  m1 = m1
  m2 = m2
  m3 = m3
  Outgoing <- TwoSent
  ChanCap = 1
  ErrCap = 1
  MaxDrops = 0
  Nil = Nil
INVARIANT
  ReceivedInOrder
CHECK_DEADLOCK FALSE
