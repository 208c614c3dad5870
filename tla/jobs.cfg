SPECIFICATION MCSpec
CONSTANTS
  a1 = a1
  a2 = a2
  a3 = a3
  r1 = r1
  i1 = i1
  i2 = i2
  i3 = i3
  v1 = v1
  w1 = w1
  w2 = w2
  NoToken = NoToken
  Token = {a1, a2}
  Request = {r1}
  QuotaTotal = 1
  MaxInflight = 1
  RandomMaxFails = 1
  MaxSwitches = 1
  MaxSyncs = 1
  MaxRetries = 2
  TransportMax = 1
  Account = {a1, a2, a3}
  Nobody = NoToken
  MediaRequest = {r1}
  Index = {1, 2}
  Kinds = {"stream", "whole", "lite", "lite_stream", "edit", "edit_stream", "video", "video_stream", "video_job"}
  MaxAttempts = 2
  Segments = 2
  MaxImages = 2
  MaxReturns = 1
  Item = {i1, i2, i3}
  Viewer = {v1}
  Concurrency = 2
  QueueSize = 1
  Worker = {w1, w2}
  Count = 1
  EnvRetries = 1
  Attempts = 2
  IdleTimeout = 1
  PipeCapacity = 4
  MaxJobs = 1
  MaxCommands = 2
  MaxCrashes = 1
  RetryCodes = {"rate_limited", "unauthorized", "server"}
INVARIANTS
  LeasesHeld
  NoStrayRun
  ReportsAreTrue
  
  TransportCapped
PROPERTIES
  RequestsEnd
  EveryViewerIsTold
  
  NoSecondChance
  EveryChatEnds
CHECK_DEADLOCK FALSE
