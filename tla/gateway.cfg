SPECIFICATION Spec
CONSTANTS
  r1 = r1
  r2 = r2
  r3 = r3
  w1 = w1
  w2 = w2
  a = a
  b = b
  Requests <- ThreeRequests
  Workers <- TwoWorkers
  Fields <- TwoFields
  Limit = 2
  Window = 3
  Traffics <- SmallTraffics
  MaxTime = 3
  MaxKeys = 3
  None = None
SYMMETRY Interchangeable
INVARIANTS
  TypeOK
  AtMostLimit
  RevokedIsForgotten
  RedeemedOnce
  UpdateKept
CHECK_DEADLOCK FALSE
