SPECIFICATION Spec
CONSTANTS
  Cards = {c1, c2}
  Subs = {s1, s2}
  Workers = {w1, w2}
  None = None
  Ordered = TRUE
  MaxFeed = 1
  MaxFaults = 1
SYMMETRY Alike
VIEW View
CONSTRAINT BeforeMishap
INVARIANTS
  TypeOK
  OneSubscription
  AccessIsBacked
  PaidHasAccess
CHECK_DEADLOCK FALSE
