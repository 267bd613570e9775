SPECIFICATION NetworkFairSpec
CONSTANTS
  MAX_SIMULTANEOUS_CONNECTIONS = 4
  BATCH_NUM_REQUESTS = 2
  NUM_SSTABLE_WORKER_THREADS = 1
  MaxTurns = 4
INVARIANT NoCompletionLost
PROPERTY BatchTaken
CHECK_DEADLOCK FALSE
