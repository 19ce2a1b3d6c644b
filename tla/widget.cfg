SPECIFICATION Spec
CONSTANTS
  t1 = t1
  t2 = t2
  c1 = c1
  c2 = c2
  Tabs <- TwoTabs
  CallsOf <- CallsOfOne
  Issues <- Second
  Finds <- First
  HistoryLimit = 3
  Failing <- AllTroubles
  MaxMessages = 2
  MaxLoads = 1
  MaxShown = 5
  MaxTroubles = 1
  None = None
INVARIANTS
  TypeOK
  ButtonRedeemable
  AppliedTookEffect
  BusyWhileWaiting
  GreetsFirst
  OneThreadPerPage
  AnsweredInPlace
PROPERTIES WaitsEnd
