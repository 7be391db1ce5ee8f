\* A healthy service, batches of two: Stop alone puts an error on ErrChan.
CONSTANTS
  q1 = q1
  m1 = m1
  m2 = m2
  Nil = Nil
  Messages <- MCMessages
  Names <- OneName
  ReceiveFrom <- NoNames
  Backlog <- NoMessages
  Outgoing <- MCMessages
  ChanCap = 2
  ErrCap = 1
  ReceiptHandles = {TRUE}
  ServiceFails = FALSE
  MaxShares <- NoShares
  BatchArg = 3
  MaxBatch = 2

SPECIFICATION Spec

INVARIANTS
  HealthyIsSilent

\* clients stop sending, Stop returns and the goroutines exit
CHECK_DEADLOCK FALSE
