SPECIFICATION FairSpec
CONSTANTS
  N = 4
  Parent <- TwoChildren
  Cap = 1
  MaxAttempts = 2
  MaxIssues = 1
  MaxRounds = 1
  MaxStarts = 2
  MaxCrashes = 1
INVARIANTS AttemptsHold
PROPERTIES WaiterServed PoolImplemented
CHECK_DEADLOCK FALSE
