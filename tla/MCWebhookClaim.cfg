SPECIFICATION FairSpec
CONSTANTS
  checkout = checkout
  refund = refund
  w1 = w1
  w2 = w2
  PaidEvents = {checkout}
  RefundEvents = {refund}
  PartialEvents = {}
  OtherEvents = {}
  Workers = {w1, w2}
  Audiences = {offtaker}
  Transmissions = {t1}
  None = None
  MaxFaults = 1
INVARIANTS
  TypeOK
  AckedIsSettled
  NoOverlap
PROPERTIES
  DoneForever
  EveryEventSettles
CHECK_DEADLOCK FALSE
