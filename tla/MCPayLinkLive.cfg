SPECIFICATION FairSpec
CONSTANTS
  aug = aug
  trueup = trueup
  Invoices = {aug}
  PeriodKey <- MCPeriodKey
  Amount <- MCAmount
  MaxRows = 1
  MaxGen = 1
  Workers = {w1, w2}
  None = None
PROPERTIES
  PaidIsBooked
CHECK_DEADLOCK FALSE
