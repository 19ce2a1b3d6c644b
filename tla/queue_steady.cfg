SPECIFICATION FairSpec
CONSTANTS
  j1 = j1
  j2 = j2
  w1 = w1
  w2 = w2
  op = op
  e1 = e1
  Jobs <- TwoJobs
  Workers <- OneWorker
  Operators <- OneOperator
  Errors <- OneError
  MaxRetries = 1
  BatchSize = 2
  MaxLength = 1
  Incidents = {"stop"}
  MaxIncidents = 1
  MayRevive = FALSE
  MaxLog = 4
  None = None
INVARIANTS
  StopsClean
  OneOutcome
PROPERTIES
  JobEnds
