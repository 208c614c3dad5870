SPECIFICATION HistorySpec
CONSTANTS
  t1 = t1
  t2 = t2
  r1 = r1
  basic = basic
  super = super
  auto = auto
  NoToken = NoToken
  Backend = "sqlite"
  Token = {t1, t2}
  Pool = {basic}
  Mode = {auto}
  Request = {r1}
  DefaultWindows <- MCDefaultWindows
  MaxRevision = 3
  BatchLimit = 2
  MaxCrashes = 1
PROPERTIES
  ImplementsReplica
  EventuallyMirrored
