SPECIFICATION Spec
CONSTANTS
  Cards = {c1}
  Subs = {s1}
  Workers = {w1, w2}
  None = None
  Ordered = TRUE
  MaxFeed = 1
  MaxFaults = 0
INVARIANTS
  CancelledIsFree
CHECK_DEADLOCK FALSE
