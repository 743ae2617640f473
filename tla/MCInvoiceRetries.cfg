SPECIFICATION IssuanceSpec
CONSTANTS
  jan = jan
  feb = feb
  q1 = q1
  settlement = settlement
  Keys = {jan, settlement}
  Trueups = {settlement}
  Workers = {w1, w2}
  MaxAttempts = 2
  NoKey = NoKey
  Months <- MCMonths
  Covers <- MCCovers
  PeriodEnd <- MCPeriodEnd
  Gross <- MCGross
  Grant <- MCGrant
  InitialCredit = 1
SYMMETRY Symmetry
INVARIANTS
  CreditConserved
  LatestSendIsReal
PROPERTIES
  LedgerSpec
