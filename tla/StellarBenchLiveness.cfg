CONSTANTS
  Worker = {w1, w2}
  Link <- MCLink
  MaxIter = 3
  OperatorWaits = TRUE
  PollerPrompt = TRUE
SPECIFICATION FairSpec
INVARIANTS
  TypeOK
  OneTurn
  BlockRaceFree
  ExactlyOneUpdate
  NoCrash
PROPERTIES
  ImplementsBSP
  TrainingCompletes
CHECK_DEADLOCK FALSE
