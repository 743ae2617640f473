SPECIFICATION FairSpec
CONSTANTS
  Keys = {k1, k2}
  Workers = {w1, w2}
  MaxAttempts = 2
  NoKey = NoKey
INVARIANTS
  TypeOK
  AtMostOneDelivery
  RetryableIsUnsent
  AcceptedHasReceipt
  OneHolder
PROPERTIES
  OnceEmailSpec
  UnknownNeverRetried
  EventuallyAtRest
