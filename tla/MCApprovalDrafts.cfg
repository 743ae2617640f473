SPECIFICATION FairRunsSpec
CONSTANTS
  jan = jan
  feb = feb
  Keys = {jan}
  Trueups = {}
  Workers = {w1, w2}
  MaxAttempts = 1
  NoKey = NoKey
  Months <- MCMonths
  Covers <- MCCovers
  PeriodEnd <- MCPeriodEnd
  Gross <- MCGross
  Grant <- MCGrant
  InitialCredit = 0
  Drafts = {d1, d2}
  Period <- MCPeriod
  NoDraft = NoDraft
INVARIANTS
  ApprovalIsExclusive
  SentIsOnTheBooks
PROPERTIES
  AcceptanceApplied
