SPECIFICATION FairSpec
CONSTANTS
  p1 = p1
  p2 = p2
  r1 = r1
  r2 = r2
  Direct = Direct
  grok = grok
  DefaultHost = grok
  Host = {grok}
  Scheduler = Scheduler
  NoOne = NoOne
  Proxy = {p1, p2}
  Config <- MCConfig
  Request = {r1, r2}
  MaxReloads = 2
  MaxRounds = 1
INVARIANTS
  NobodyWaitsInVain
PROPERTIES
  EveryAcquireReturns
CHECK_DEADLOCK FALSE
