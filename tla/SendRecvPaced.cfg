CONSTANTS
  Link = {l1}
  MaxSends = 4
SPECIFICATION FairSpec
INVARIANTS
  TestTypeOK
  TestIInv
  OneTurn
  OneWritePerFill
PROPERTIES
  ImplementsRelay
  EveryFillDelivered
CHECK_DEADLOCK FALSE
