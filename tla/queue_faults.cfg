SPECIFICATION Spec
CONSTANTS
  j1 = j1
  j2 = j2
  w1 = w1
  w2 = w2
  op = op
  e1 = e1
  Jobs <- OneJob
  Workers <- TwoWorkers
  Operators <- OneOperator
  Errors <- OneError
  MaxRetries = 1
  BatchSize = 2
  MaxLength = 1
  Incidents <- AnyIncident
  MaxIncidents = 1
  MayRevive = TRUE
  MaxLog = 3
  None = None
SYMMETRY WorkerSymmetry
INVARIANTS
  TypeOK
  Accounted
  DeadAfterAllAttempts
