SPECIFICATION FairSpec
CONSTANTS
  q1 = q1
  q2 = q2
  Products <- ThreeProducts
  FirstProducts <- ThreeProducts
  Edited <- OneOfEachPage
  NameOf <- Names
  Requests <- TwoRequests
  Asks <- EndpointAndMirror
  BatchSize = 2
  MaxErrors = 2
  RefuseAbove = 2
  RefusePercent = 60
  Failing <- AnyTrouble
  MaxTroubles = 1
  MaxEdits = 1
  None = None
INVARIANTS
  TypeOK
  CompletedStoredAll
PROPERTIES
  CompletedMirrors
  CompletedIsSearchable
  RequestEnds
CHECK_DEADLOCK FALSE
