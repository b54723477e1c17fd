CONSTANTS
  Worker = {p, q}
  Ult = {t, u}
  Node = {n1, n2, n3}
  MaxCalls = 2
  Waits = TRUE
  SpinOut = {"task", "cv"}
  None = None
SPECIFICATION Spec
INVARIANT SomewhereToGo
CHECK_DEADLOCK FALSE
