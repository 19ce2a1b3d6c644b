SPECIFICATION FairSpec
CONSTANTS
  alice = alice
  bob = bob
  carol = carol
  r1 = r1
  r2 = r2
  r3 = r3
  ActionNames <- MCActionNames
  Definitions <- MCDefinitions
  ActionIds = {a1}
  Requests <- MCRequests
  Admins <- TwoAdmins
  TenantOf <- OneTenant
  DryRunWindow = 1
  ConfirmWindow = 1
  Ops <- AllOps
  Serial = TRUE
  MayCrash = TRUE
  MaxTime = 2
  None = None
INVARIANTS
  OneEffect
PROPERTIES
  RejectedNeverRuns
  ImplementsLifecycle
  ExecutionEnds
CHECK_DEADLOCK FALSE
