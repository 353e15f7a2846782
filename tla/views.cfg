SPECIFICATION Spec
CONSTANTS
  t1 = t1
  t2 = t2
  o1 = o1
  o2 = o2
  o3 = o3
  Keys <- OneTable
  Own <- OneTable
  MaxOrders = 1
  MaxUpdates = 4
  MaxFaults = 1
  NoUpdate = NoUpdate
  NoSnapshot = NoSnapshot
SYMMETRY Symmetry
INVARIANTS
  TypeOK
  ShownOnce
  RetainedWhileBrokerLives
  ViewMatchesRetained
PROPERTIES
  PlacedOrderIsKept
CHECK_DEADLOCK FALSE
