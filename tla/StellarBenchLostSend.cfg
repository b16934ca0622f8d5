CONSTANTS
  Worker = {w1}
  Link <- MCLink
  MaxIter = 3
  OperatorWaits = TRUE
  PollerPrompt = FALSE
SPECIFICATION FairSpec
PROPERTIES
  ShouldHaveSent
CHECK_DEADLOCK FALSE
