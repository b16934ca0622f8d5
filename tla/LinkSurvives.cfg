CONSTANTS
  Client = {c1}
  None = None
  MaxWrites = 1
SPECIFICATION Spec
INVARIANTS
  SurvivesDisconnect
CHECK_DEADLOCK FALSE
