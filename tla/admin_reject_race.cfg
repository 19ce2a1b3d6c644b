SPECIFICATION Spec
CONSTANTS
  alice = alice
  bob = bob
  carol = carol
  r1 = r1
  r2 = r2
  r3 = r3
  ActionNames <- ConfirmedNames
  Definitions <- ConfirmedDefinitions
  ActionIds = {a1}
  Requests <- MCRequests
  Admins <- OneAdmin
  TenantOf <- TenantOfOne
  DryRunWindow = 1
  ConfirmWindow = 1
  Ops <- EndpointOps
  Serial = FALSE
  MayCrash = FALSE
  MaxTime = 1
  None = None
PROPERTIES
  RejectedNeverRuns
CHECK_DEADLOCK FALSE
