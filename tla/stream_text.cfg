SPECIFICATION StreamSpec
CONSTANTS
  MaxRetries = 0
  MaxEvents = 3
INVARIANT
  SafeTextIsSent
CHECK_DEADLOCK FALSE
