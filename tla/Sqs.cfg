\* Two messages are sent to a queue and received from it, by this transport or by
\* another process, with and without receipt handles; calls fail, batches of two
\* (New is asked for three and the limit is two), sends before and after Stop.
CONSTANTS
  q1 = q1
  m1 = m1
  m2 = m2
  Nil = Nil
  Messages <- MCMessages
  Names <- OneName
  ReceiveFrom <- OneName
  Backlog <- NoMessages
  Outgoing <- MCMessages
  ChanCap = 1
  ErrCap = 1
  ReceiptHandles = {TRUE, FALSE}
  ServiceFails = TRUE
  MaxShares <- FirstShared
  BatchArg = 3
  MaxBatch = 2

SPECIFICATION FairSpec

INVARIANTS
  InOrderOnce
  SilenceMeansStored
  NothingVanishes
  RepeatsNeedOthers

PROPERTIES
  ImplementsOutbox
  EventuallyReceived
  SubscribersExit
  StopReturns
  EventuallyHanded

\* clients stop sending, Stop returns and the goroutines exit
CHECK_DEADLOCK FALSE
