\* The three programs, with two names to greet and two to send.
SPECIFICATION FairSpec
CONSTANTS
  a = a
  b = b
  m1 = m1
  m2 = m2
  Incoming <- TwoNames
  Lossy <- OneName
  Typed <- TwoTyped
  Outgoing <- MCOutgoing
  Programs <- AllPrograms
  ErrCap = 1
  Attempts = 2
  Nil = Nil
INVARIANTS
  TypeOK
  GreetedInOrder
  NothingVanishes
  PublishedInOrder
  ConsumersStopped
PROPERTIES
  ShutsDown
\* The system may come to a stop: after Stop, or when the producer is stuck.
CHECK_DEADLOCK FALSE
