CONSTANTS
  UltTask = {u1}
  Async = {a}
  Os = {o}
  WaitNode = {m1, m2, m3}
  Stray = 0
  NoNode = NoNode
  Worker = {p, q}
  Ult = {t, u, v}
  Node = {n1, n2, n3, n4}
  MaxCalls = 4
  Waits = TRUE
  SpinOut = {"task"}
  None = None
SPECIFICATION LocksSpec
INVARIANTS LiveInv ParkedInv
PROPERTIES ImplementsFifoLock LocksGranted
CHECK_DEADLOCK FALSE
