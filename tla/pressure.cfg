SPECIFICATION LiveSpec
CONSTANTS
  t1 = t1
  t2 = t2
  x = x
  y = y
  Keys <- SharedId
  Workers = {w1}
  QueueCapacity = 1
  MaxAdmissions = 2
  MaxDrops = 1
  MaxOutages = 1
  MaxRestarts = 1
  NoKey = NoKey
  NoSnapshot = NoSnapshot
INVARIANTS
  TypeOK
  NoLostChange
  RevisionIdentifiesSnapshot
PROPERTIES
  ConsoleCatchesUp
CHECK_DEADLOCK FALSE
