CONSTANTS
  Client = {c1, c2}
  None = None
  MaxWrites = 2
SPECIFICATION FairSpec
INVARIANTS
  LlTypeOK
  LlIInv
  NothingLeaks
  ServerSurvives
PROPERTIES
  ClientServed
  EveryMessageRead
CHECK_DEADLOCK FALSE
