SPECIFICATION FairSpec
CONSTANTS
  a1 = a1
  a2 = a2
  a3 = a3
  a4 = a4
  k1 = k1
  k2 = k2
  k3 = k3
  alice = alice
  guest = guest
  Attempts <- TwoAttempts
  Turns <- TwoTurns
  Visitors <- OneVisitor
  VisitorOf <- AllByAlice
  CustomerOf <- Loyal
  Triggers <- AllTriggered
  RuleTable <- AllRules
  FirstWindow = 10
  Hour = 1
  Serial = FALSE
  MayCrash = TRUE
  Failing <- Transactions
  MaxTime = 0
  None = None
INVARIANTS
  TypeOK
  CouponShown
PROPERTIES
  ImplementsTurnLog
  Answered
CHECK_DEADLOCK FALSE
