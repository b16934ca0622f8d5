CONSTANTS
  Worker = {w1}
  Link <- MCLink
  MaxIter = 4
  OperatorWaits = FALSE
  PollerPrompt = FALSE
SPECIFICATION Spec
INVARIANTS
  IInv
  NoUnreadOverwrite
  NoTornSend
  OneWritePerRound
  ContentInv
  ExactlyOneUpdate
  SendNeverSkipped
  CrashHoldsBarrier
  ExitLosesOnlyLastRound
CHECK_DEADLOCK FALSE
