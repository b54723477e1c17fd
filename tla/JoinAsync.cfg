CONSTANTS
  Main = m
  Ult = {m}
  Async = {a, b}
  None = None
  Member = {w0, w1, w2}
  Zero = w0
  Chore = {h1}
  Caller = Caller
  Service = Service
  Loop0 = Loop0
SPECIFICATION JoinLifeSpec
INVARIANTS IInv LifeInv
PROPERTIES ImplementsTaskSpec JoinReturns PolledAgain PoolEnds
