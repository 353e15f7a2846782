SPECIFICATION Spec
CONSTANTS
  t1 = t1
  t2 = t2
  o1 = o1
  o2 = o2
  o3 = o3
  Keys <- SharedId
  Own = {}
  MaxOrders = 2
  MaxUpdates = 2
  MaxFaults = 0
  NoUpdate = NoUpdate
  NoSnapshot = NoSnapshot
INVARIANTS
  ViewMatchesRetained
CHECK_DEADLOCK FALSE
