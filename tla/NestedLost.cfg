CONSTANTS
  Sleeper = {s1, s2}
  LastTime = 2
  MaxPolls = 2
  NoTime = 9
  Producer = {p1, p2}
  MaxPosts = 0
  Poll = poll
  NoSlot = NoSlot
  Getter = {}
  Putter = {}
  Party = {b1}
  AsyncParty = {}
  Puts = 0
  Rounds = 0
  Free = Free
  Thread = {h1, h2}
  Caller = h1
  MaxForks = 0
  Source = {c1, c2}
  MaxSessions = 2
  MaxLives = 1
  Nesting = {"desc"}
  Core = {cr1}
  Stackful = {u1}
  Pollable = {}
  External = {}
  Slot = {ws1}
  Empty = Empty
  Lane = {ln1}
  MaxCalls = 0
  OsThread = {os1}
  OsConsumer = osc
  Anchor = {an1}
  MaxIndex = 6
  MaxWaits = 0
  Unset = Unset
SPECIFICATION ServicesSpec
INVARIANT WakeKept
CHECK_DEADLOCK FALSE
