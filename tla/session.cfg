SPECIFICATION LiveSpec
CONSTANTS
  Drafts <- SomeDrafts
  DefaultUrl <- Home
  PageProtocol = "https:"
  MaxClients = 3
  MaxFaults <- FewFaults
  None = None
INVARIANTS
  TypeOK
  OneConnection
  ShownIsReal
  StoredIsActive
PROPERTIES
  SavingEnds
  ComesOnline
  PressureFollows
CHECK_DEADLOCK FALSE
