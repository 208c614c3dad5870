SPECIFICATION Spec
CONSTANTS
  t1 = t1
  t2 = t2
  r1 = r1
  r2 = r2
  basic = basic
  super = super
  auto = auto
  NoToken = NoToken
  Backend = "postgresql"
  Token = {t1, t2}
  Pool = {basic, super}
  Mode = {auto}
  Request = {r1, r2}
  DefaultWindows <- MCDefaultWindows
  MaxRevision = 3
  BatchLimit = 2
  MaxCrashes = 1
INVARIANTS
  MirrorsUpToRevision
  IndexExact
  InflightCountsLeases
PROPERTIES
  GrantsFollowRepository
SYMMETRY Symmetric
