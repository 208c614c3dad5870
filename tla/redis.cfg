SPECIFICATION RedisSpec
CONSTANTS
  Token = {t1, t2}
  Pool = {basic}
  Writer = {w1}
  Limit = 3
  MaxWrites = 2
INVARIANT
  CaughtUpMirrors
CHECK_DEADLOCK FALSE
