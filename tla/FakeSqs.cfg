\* Two calls by two goroutines, which also set results and ask for Invocations.
SPECIFICATION FakeFairSpec
CONSTANTS
  t1 = t1
  t2 = t2
  a = a
  b = b
  Order <- FiveMethods
  Threads <- TwoThreads
  Args <- TwoArgs
  MaxSettings = 1
  None = None
INVARIANTS
  BooksAgree
PROPERTY
  EverybodyReturns
\* Invocations and a call can wait for each other.
CHECK_DEADLOCK FALSE
