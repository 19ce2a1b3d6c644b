SPECIFICATION FairSpec
CONSTANTS
  j1 = j1
  j2 = j2
  w1 = w1
  w2 = w2
  op = op
  e1 = e1
  Jobs <- OneJob
  Workers <- TwoWorkers
  Operators <- OneOperator
  Errors <- OneError
  MaxRetries = 1
  BatchSize = 1
  MaxLength = 4
  Incidents = {"crash"}
  MaxIncidents = 1
  MayRevive = FALSE
  MaxLog = 4
  None = None
PROPERTIES
  AbandonedIsHandled
