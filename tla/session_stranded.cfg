SPECIFICATION LiveSpec
CONSTANTS
  Drafts <- SomeDrafts
  DefaultUrl <- Home
  PageProtocol = "https:"
  MaxClients = 3
  MaxFaults <- FewFaults
  None = None

PROPERTIES
  SaveReconnects
CHECK_DEADLOCK FALSE
