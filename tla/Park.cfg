CONSTANTS
  Worker = {p, q}
  Ext = {}
  SpinRounds = 1
  MaxPush = 3
  None = None
  Runner = {h1, h2}
  Outside = x
  Item = {i1, i2, i3}
  Service = svc
  First = h1
SPECIFICATION IdleSpec
INVARIANTS WorkHasSeeker ParkInv QueueInv
PROPERTIES IdleStops WorkIsTaken ItemsRun
CHECK_DEADLOCK FALSE
