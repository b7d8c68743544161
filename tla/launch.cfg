CONSTANTS
  c1 = c1
  c2 = c2
  c3 = c3
  Calls = {c1, c2, c3}
  Nobody = Nobody
SPECIFICATION FairLaunch
INVARIANTS OneReachableHub StaleOnlyWhenKilled
PROPERTY WaitsOnlyForHub
CHECK_DEADLOCK FALSE
