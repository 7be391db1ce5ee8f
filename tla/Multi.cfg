\* Two writers of one queue, batches of at most two, calls that fail, sends
\* before and after Stop.
CONSTANTS
  q1 = q1
  m1 = m1
  m2 = m2
  m3 = m3
  w1 = w1
  w2 = w2
  Nil = Nil
  Messages <- MCMessages
  Names <- OneName
  ReceiveFrom <- NoNames
  Backlog <- NoMessages
  Outgoing <- ThreeSent
  Writers <- TwoWriters
  ChanCap = 1
  ErrCap = 1
  ReceiptHandles = {TRUE}
  ServiceFails = TRUE
  MaxShares <- NoShares
  BatchArg = 3
  MaxBatch = 2

SPECIFICATION FairSpec


INVARIANTS
  DispatchedInOrder
  WrittenOnce
  FreeWriters
  AtMostOneBatchLeft

PROPERTIES
  StopReturns
  EventuallyHanded

\* clients stop sending, Stop returns and the goroutines exit or block
CHECK_DEADLOCK FALSE
