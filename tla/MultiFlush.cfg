\* One writer, one batch, a service that never fails: is it sent in
\* the end?
CONSTANTS
  q1 = q1
  m1 = m1
  m2 = m2
  m3 = m3
  w1 = w1
  w2 = w2
  Nil = Nil
  Messages <- MCMessages
  Names <- OneName
  ReceiveFrom <- NoNames
  Backlog <- NoMessages
  Outgoing <- TwoSent
  Writers <- OneWriter
  ChanCap = 2
  ErrCap = 1
  ReceiptHandles = {TRUE}
  ServiceFails = FALSE
  MaxShares <- NoShares
  BatchArg = 3
  MaxBatch = 2

SPECIFICATION FairSpec

PROPERTIES
  FlushesOnReturn

\* clients stop sending, Stop returns and the goroutines exit or block
CHECK_DEADLOCK FALSE
