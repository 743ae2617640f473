SPECIFICATION RunsSpec
CONSTANTS
  jan = jan
  feb = feb
  Keys = {jan, feb}
  Trueups = {}
  Workers = {w1, w2}
  MaxAttempts = 1
  NoKey = NoKey
  Months <- MCMonths
  Covers <- MCCovers
  PeriodEnd <- MCPeriodEnd
  Gross <- MCGross
  Grant <- MCGrant
  InitialCredit = 1
  Drafts = {d1}
  Period <- MCPeriod
  NoDraft = NoDraft
INVARIANTS
  ApprovedFigureSends
