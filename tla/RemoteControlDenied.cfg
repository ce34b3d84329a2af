SPECIFICATION Spec
CONSTANTS
  t1 = t1
  t2 = t2
  Null = Null
  MaxRetries = 2
  RetryTimers <- MCRetryTimers
CHECK_DEADLOCK FALSE
PROPERTY NeverRetriesDenied
