CONSTANTS
  Worker = {w1}
  Link <- MCLink
  MaxIter = 2
  OperatorWaits = FALSE
  PollerPrompt = TRUE
SPECIFICATION Spec
INVARIANTS
  NoCrash
CHECK_DEADLOCK FALSE
