SPECIFICATION LiveSpec
CONSTANTS
  Tables = {t1}
  OrderIds = {a, b}
  Foods = {pasta}
  Workers = {w1,w2}
  QueueCapacity = 1
  RegistryCapacity = 3
  MaxDeliveries = 2
  MaxDrops = 1
  MaxRestarts = 0
  NoKey = NoKey
  NoFood = NoFood
INVARIANTS
  PublisherPosition
  QueueHoldsQueued
  OneWorkerPerOrder
PROPERTIES
  AnnouncedInOrder
  KitchenPromise
  OrderSettles
  DeferredIsReplayed
CHECK_DEADLOCK FALSE
