CONSTANTS
  Worker = {p, q}
  Ext = {x}
  SpinRounds = 0
  MaxPush = 1
  Policy = "Go"
  None = None
SPECIFICATION SearchFairSpec
INVARIANTS SearchInv NotAllAsleep
PROPERTY WorkIsTakenInTheEnd
CHECK_DEADLOCK FALSE
