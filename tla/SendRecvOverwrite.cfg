CONSTANTS
  Link = {l1}
  MaxSends = 3
SPECIFICATION Spec
INVARIANTS
  ReadBeforeOverwrite
CHECK_DEADLOCK FALSE
