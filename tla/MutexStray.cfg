CONSTANTS
  UltTask = {u}
  Async = {a}
  Os = {}
  WaitNode = {n1, n2}
  Stray = 1
  NoNode = NoNode
SPECIFICATION DualSpec
INVARIANT CompletesOnceNotified
