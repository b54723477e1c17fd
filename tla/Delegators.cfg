SPECIFICATION MCSpec
CONSTANTS
  Caller = {a, b}
  MaxCalls = 3
  RingSize = 2
  None = None
  User = {u, v, w}
  Uses = 3
  Nil = Nil
  Holder = {h1, h2}
  Block = {b1, b2, b3}
  Thresholds = {1, 2}
  Cap = 1
  Pages = 1
  NoBox = NoBox
INVARIANTS ConsumerInv FrameInv PoolInv
PROPERTIES ImplementsDelegation CallsReturn CombiningImplements UsesReturn
CHECK_DEADLOCK FALSE
