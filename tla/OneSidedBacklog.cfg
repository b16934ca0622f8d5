CONSTANTS
  Client = {c1, c2}
  Server = srv
  MayFail = FALSE
  MayRemove = FALSE
  SendQueue = 2
SPECIFICATION FairSpec
PROPERTIES
  SessionCompletes
CHECK_DEADLOCK FALSE
