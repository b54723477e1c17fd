CONSTANTS
  Sleeper = {s1, s2}
  LastTime = 2
  MaxPolls = 2
  NoTime = 9
  Producer = {p1, p2}
  MaxPosts = 2
  Poll = poll
  NoSlot = NoSlot
  Getter = {g1, g2}
  Putter = {q1, q2}
  Party = {b1, b2, b3}
  AsyncParty = {b3}
  Puts = 2
  Rounds = 2
  Free = Free
  Thread = {h1, h2}
  Caller = h1
  MaxForks = 3
  Source = {c1, c2}
  MaxSessions = 2
  MaxLives = 2
  Nesting = {"slot"}
  Core = {cr1, cr2}
  Stackful = {u1, u2}
  Pollable = {a1}
  External = {o1}
  Slot = {ws1, ws2}
  Empty = Empty
  Lane = {ln1, ln2}
  MaxCalls = 2
  OsThread = {os1, os2, os3}
  OsConsumer = osc
  Anchor = {an1, an2}
  MaxIndex = 6
  MaxWaits = 2
  Unset = Unset
SPECIFICATION ServicesSpec
INVARIANTS SleepersWoken PostsFound SyncInv BranchesInv WakersInv WaitersInv
CHECK_DEADLOCK FALSE
