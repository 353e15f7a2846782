SPECIFICATION Spec
CONSTANTS
  Tables = {t1}
  OrderIds = {a, b}
  Foods = {pasta}
  Workers = {w1}
  QueueCapacity = 1
  RegistryCapacity = 2
  MaxDeliveries = 3
  MaxDrops = 0
  MaxRestarts = 0
  NoKey = NoKey
  NoFood = NoFood
INVARIANTS
  NeverOverflows
CHECK_DEADLOCK FALSE
