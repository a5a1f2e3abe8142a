CONSTANTS
  Caller = {c1, c2, c3}
  LockTimeout = 6
  MinTimeout = 4
  Margin = 2
  MaxRetries = 3
  MaxDelay = 1
  MaxLost = 2
  Free = Free
SPECIFICATION LockFairSpec
INVARIANTS Exclusive
PROPERTIES EveryoneIsAnswered
CHECK_DEADLOCK FALSE
