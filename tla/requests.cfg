SPECIFICATION MCSpec
CONSTANTS
  t1 = t1
  t2 = t2
  r1 = r1
  r2 = r2
  s1 = s1
  s2 = s2
  p1 = p1
  p2 = p2
  h1 = h1
  NoSource = NoSource
  NoToken = NoToken
  Token = {t1, t2}
  Request = {r1, r2}
  QuotaTotal = 1
  MaxInflight = 1
  RandomMaxFails = 1
  MaxSwitches = 0
  MaxSyncs = 1
  MaxRetries = 1
  TransportMax = 1
  BuildRequest = {r1, r2}
  Source = {s1, s2}
  Process = {p1, p2}
  Thread = {h1}
  Answers = {"new"}
  MaxTokens = 2
  MaxJobs = 1
  MaxChanges = 1
  MaxCrashes = 1
  RetryCodes = {"rate_limited", "unauthorized", "server"}
INVARIANTS
  LeasesAccounted
  OneVerdictPerAttempt
  StoredTokenLive
  
PROPERTIES
  DeletedStaysDeleted
CHECK_DEADLOCK FALSE
