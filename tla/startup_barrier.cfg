SPECIFICATION Spec
CONSTANTS
  NUM_SSTABLE_WORKER_THREADS = 1
  WORKER_SSTABLE_BATCH_SIZE = 2
INVARIANT NeverPremature
CHECK_DEADLOCK FALSE
