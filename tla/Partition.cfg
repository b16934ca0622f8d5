CONSTANTS
  RowCounts <- MCRowCounts
  WorkerNums <- MCWorkerNums
  K = 100
  BUFFER_SIZE <- MCBufferSize
SPECIFICATION FairSpec
INVARIANTS
  PtTypeOK
  Tiling
  NoEmptyBlock
  PayloadFits
PROPERTIES
  EveryWorkerTrains
CHECK_DEADLOCK FALSE
