CONSTANTS
  Client = {c1, c2}
  Server = srv
  MayFail = TRUE
  MayRemove = TRUE
  SendQueue = 1
SPECIFICATION Spec
INVARIANTS
  OsIInv
  OsTypeOK
  RemoteWriteSafe
  CleanLeavesNothing
PROPERTIES
  ImplementsLease
CHECK_DEADLOCK FALSE
