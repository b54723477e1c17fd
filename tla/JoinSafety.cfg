CONSTANTS
  Main = m
  Ult = {m, u, v}
  Async = {a}
  None = None
  Duty = {d, k}
  KeeperOnly = {k}
  Idler = {w1, w2}
  FirstIdler = w1
  FirstDuty = d
  MinPeriod = 1
  MaxPeriod = 2
  WaitPeriod = 1
  Never = 99
  Slack = 1
  IdlePolls = 1
  Horizon = 2
  MaxOps = 1
  Nobody = Nobody
SPECIFICATION JoinDutySpec
SYMMETRY Symmetry
INVARIANTS TypeOK FreeIsQuiet FinishedIsOver JoinerInWord JoinedIsFinished NoLostWake DutiesInv
PROPERTY ResultMovedOnce
CHECK_DEADLOCK FALSE
