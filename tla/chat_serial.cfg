SPECIFICATION Spec
CONSTANTS
  a1 = a1
  a2 = a2
  a3 = a3
  a4 = a4
  k1 = k1
  k2 = k2
  k3 = k3
  alice = alice
  guest = guest
  Attempts <- ThreeAttempts
  Turns <- ThreeTurns
  Visitors <- TwoVisitors
  VisitorOf <- Askers
  CustomerOf <- Customer1
  Triggers <- CouponTriggered
  RuleTable <- CouponRules
  FirstWindow = 10
  Hour = 1
  Serial = TRUE
  MayCrash = TRUE
  Failing = {"limits", "answer"}
  MaxTime = 1
  None = None
SYMMETRY AttemptSymmetry3
INVARIANTS
  CouponLimits
  UsageMatchesEvents
PROPERTIES
  AnsweredOnce
CHECK_DEADLOCK FALSE
