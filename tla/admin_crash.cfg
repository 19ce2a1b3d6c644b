SPECIFICATION Spec
CONSTANTS
  alice = alice
  bob = bob
  carol = carol
  r1 = r1
  r2 = r2
  r3 = r3
  ActionNames <- MCActionNames
  Definitions <- MCDefinitions
  ActionIds = {a1}
  Requests <- MCRequests
  Admins <- MCAdmins
  TenantOf <- TwoTenants
  DryRunWindow = 1
  ConfirmWindow = 1
  Ops <- AllOps
  Serial = FALSE
  MayCrash = TRUE
  MaxTime = 2
  None = None
SYMMETRY RequestSymmetry
INVARIANTS
  TypeOK
  AuthorisedEffects
  DelayRespected
  ConfirmedInTime
  QueueCoversPending
CHECK_DEADLOCK FALSE
