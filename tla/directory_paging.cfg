\* A batch smaller than one bulk write: the code's 5000 against 1, and a write
\* of two accounts.
SPECIFICATION FairSpec
CONSTANTS
  t1 = t1
  t2 = t2
  r1 = r1
  r2 = r2
  basic = basic
  super = super
  auto = auto
  NoToken = NoToken
  Backend = "postgresql"
  Token = {t1, t2}
  Pool = {basic}
  Mode = {auto}
  Request = {r1}
  DefaultWindows <- MCDefaultWindows
  MaxRevision = 1
  BatchLimit = 1
  MaxCrashes = 0
PROPERTIES
  EventuallyMirrored
