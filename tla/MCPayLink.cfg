SPECIFICATION Spec
CONSTANTS
  aug = aug
  trueup = trueup
  Invoices = {aug, trueup}
  PeriodKey <- MCPeriodKey
  Amount <- MCAmount
  MaxRows = 2
  MaxGen = 1
  Workers = {w1, w2}
  None = None
SYMMETRY Symmetry
INVARIANTS
  TypeOK
  OneCollectible
  MoneyIsTracked
  NoParallelCollection
PROPERTIES
  SettledForever
  PaidOnceSpec
CHECK_DEADLOCK FALSE
