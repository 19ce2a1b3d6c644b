SPECIFICATION Spec
CONSTANTS
  a1 = a1
  a2 = a2
  a3 = a3
  a4 = a4
  k1 = k1
  k2 = k2
  k3 = k3
  alice = alice
  guest = guest
  Attempts <- ThreeAttempts
  Turns <- TwoTurns
  Visitors <- OneVisitor
  VisitorOf <- AllByAlice
  CustomerOf <- Loyal
  Triggers <- NothingTriggered
  RuleTable <- NoRules
  FirstWindow = 10
  Hour = 1
  Serial = TRUE
  MayCrash = TRUE
  Failing = {}
  MaxTime = 0
  None = None
SYMMETRY AttemptSymmetry3
INVARIANTS
  CachedAnswerIsOwn
CHECK_DEADLOCK FALSE
