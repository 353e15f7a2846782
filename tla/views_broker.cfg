SPECIFICATION Spec
CONSTANTS
  t1 = t1
  t2 = t2
  o1 = o1
  o2 = o2
  o3 = o3
  Keys <- DistinctIds
  Own = {}
  MaxOrders = 1
  MaxUpdates = 2
  MaxFaults = 1
  NoUpdate = NoUpdate
  NoSnapshot = NoSnapshot
INVARIANTS
  RefreshRestores
CHECK_DEADLOCK FALSE
