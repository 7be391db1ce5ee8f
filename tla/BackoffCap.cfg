\* The same arguments: a sleep of the cap is doubled once more.
CONSTANTS
  InitialBackoffs <- MCDurations
  MaxBackoffs <- MCDurations
  CallLimits <- MCCallLimits
  IntMax = 255
  CallBound = 12

SPECIFICATION DoSpec

INVARIANTS
  NeverAboveMax

\* Do returns
CHECK_DEADLOCK FALSE
