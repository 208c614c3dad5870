SPECIFICATION FairSpec
CONSTANTS
  a1 = a1
  t1 = t1
  t2 = t2
  Account = {a1}
  Task = {t1, t2}
  Total = 1
  Low = 0
  Threshold = 2
  Forget = 1
  Window = 1
  RecoverAfter = 1
  MinUses = 0
  MaxTime = 5
  LastCall = 3
  MaxTasks = 3
  MaxChanges = 1
INVARIANTS
  ExpiredByRepeated429
PROPERTIES
  ExhaustedWindowResets
  ConsoleExpiryIsForgiven
CHECK_DEADLOCK FALSE
