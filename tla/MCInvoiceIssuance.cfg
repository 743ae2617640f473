SPECIFICATION IssuanceSpec
CONSTANTS
  jan = jan
  feb = feb
  q1 = q1
  settlement = settlement
  Keys = {jan, feb, q1}
  Trueups = {}
  Workers = {w1, w2}
  MaxAttempts = 1
  NoKey = NoKey
  Months <- MCMonths
  Covers <- MCCovers
  PeriodEnd <- MCPeriodEnd
  Gross <- MCGross
  Grant <- MCGrant
  InitialCredit = 3
SYMMETRY Symmetry
INVARIANTS
  IssuanceTypeOK
  MonthsMailedOnce
  AcceptedWasMailed
PROPERTIES
  OutboxSpec
  ObligationImmutable
  NeverRolledBack
