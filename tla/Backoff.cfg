CONSTANTS
  InitialBackoffs <- MCDurations
  MaxBackoffs <- MCDurations
  CallLimits <- MCCallLimits
  IntMax = 255
  CallBound = 12

SPECIFICATION DoSpec

INVARIANTS
  GivesUpExactly
  SleepBounded

PROPERTIES
  Returns

\* Do returns
CHECK_DEADLOCK FALSE
