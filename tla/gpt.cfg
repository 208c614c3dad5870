SPECIFICATION MCSpec
CONSTANTS
  a1 = a1
  a2 = a2
  t1 = t1
  t2 = t2
  r1 = r1
  k1 = k1
  GptAccount = {a1,a2}
  WithLogin = {a1}
  Token = {t1,t2}
  NoToken = NoToken
  Request = {r1}
  Task = {k1}
  Wanted = 2
  MaxPerImage = 2
  MaxFaults = 1
  MaxTasks = 1
INVARIANTS
  ActiveOnlyWhileAdded
PROPERTIES
  GoodTokenReturns
CHECK_DEADLOCK FALSE
