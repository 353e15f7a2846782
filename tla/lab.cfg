SPECIFICATION LiveSpec
CONSTANTS
  MaxOrders = 2
  MaxBatch = 2
  MaxTicks = 1
INVARIANTS
  TypeOK
  GhostIsReported
  TerminalCountedOnce
  BurstCompletes
  OverloadKeepsRate
PROPERTIES
  OnlyTheActiveTestPublishes
  ActiveTestEnds
CHECK_DEADLOCK FALSE
