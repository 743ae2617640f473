SPECIFICATION Spec
CONSTANTS
  aug = aug
  trueup = trueup
  Invoices = {aug, trueup}
  PeriodKey <- MCPeriodKey
  Amount <- MCAmount
  MaxRows = 2
  MaxGen = 1
  Workers = {w1, w2}
  None = None
INVARIANTS
  LinkKeepsWorking
CHECK_DEADLOCK FALSE
