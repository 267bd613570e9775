SPECIFICATION FairSpec
CONSTANTS
  NUM_SSTABLE_WORKER_THREADS = 1
  WORKER_SSTABLE_BATCH_SIZE = 3
INVARIANT OneChainPerTable
INVARIANT ServedTablesHaveRings
INVARIANT StallsOnlyInKernel
INVARIANT CountsStopShort
PROPERTY EveryFileAskedFor
CHECK_DEADLOCK FALSE
