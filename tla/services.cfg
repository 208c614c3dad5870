SPECIFICATION MCSpec
CONSTANTS
  p1 = p1
  p2 = p2
  f1 = f1
  f2 = f2
  f3 = f3
  a1 = a1
  a2 = a2
  NoAccount = NoAccount
  NoAddress = NoAddress
  Account = {a1, a2}
  Slot = {f1, f2}
  Count = 2
  Quota = 4
  MaxAttempts = 2
  MaxRuns = 3
  Event = {f1, f2, f3}
  Flusher = {p1}
  Capacity = 2
  BatchSize = 2
  Worker = {p1, p2}
  Address = {f1, f2, f3}
  BaseOf <- MCBaseOf
  MaxAliases = 1
  WebWorker = {p1, p2}
  OldAccount = {a1, a2}
  PageOf <- MCPageOf
  Pages = 2
  Gone = {a2}
  MaxUpdates = 1
  MaxStarts = 3
  Source = {a1, a2}
  Backoff = 1
  MaxBackoff = 3
  FreeRecovery = 2
  RetryAfter = {0, 1}
  MaxTime = 3
  MaxRetries = 1
  MaxEvents = 4
  Process = {p1, p2}
  NoProcess = NoAccount
  File = {f1, f2, f3}
  Size = {2}
  Limits = {0, 5}
  MaxClock = 3
  MaxFaults = 1
  MaxRounds = 3
  MaxCodes = 2
INVARIANTS
  NothingUncounted
  
  CopiesAreHonest
  
  
  AddressUsedOnce
  
  
  BlocksInTurn
  StopBlamesNobody
PROPERTIES
  
  BackOnlyWhenDue
CHECK_DEADLOCK FALSE
