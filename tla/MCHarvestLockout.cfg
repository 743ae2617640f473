SPECIFICATION FairSpec
CONSTANTS
  Rows = {r1, r2}
  MaxFails = 2
  MaxCount = 2
  DueAfter = 0
  FailBackoff = 1
  BlockedRetry = 1
  PausedRetry = 2
  MaxFaults = 1
  MaxChanges = 2
INVARIANTS
  TypeOK
  RowBudget
PROPERTIES
  NeverGivesUp
  PausedIsLoud
CHECK_DEADLOCK FALSE
