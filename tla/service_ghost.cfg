SPECIFICATION Spec
CONSTANTS
  Tables = {t1}
  OrderIds = {a, b, c}
  Foods = {pasta}
  Workers = {w1}
  QueueCapacity = 1
  RegistryCapacity = 2
  MaxDeliveries = 2
  MaxDrops = 0
  MaxRestarts = 0
  NoKey = NoKey
  NoFood = NoFood
SYMMETRY Symmetry
INVARIANTS
  RejectedNeverExecutes
CHECK_DEADLOCK FALSE
