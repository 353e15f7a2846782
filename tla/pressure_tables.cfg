SPECIFICATION Spec
CONSTANTS
  t1 = t1
  t2 = t2
  x = x
  y = y
  Keys <- SharedId
  Workers = {w1}
  QueueCapacity = 1
  MaxAdmissions = 3
  MaxDrops = 0
  MaxOutages = 0
  MaxRestarts = 0
  NoKey = NoKey
  NoSnapshot = NoSnapshot
INVARIANTS
  RetainedIsActual
CHECK_DEADLOCK FALSE
