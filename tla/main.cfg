SPECIFICATION FairSpec
CONSTANTS
  MaxKey = 2
  Slots = 2
  BATCH_NUM_REQUESTS = 3
  MaxBatches = 2
INVARIANT RepliesAccountForAll
 
PROPERTY EveryBatchReplied
CHECK_DEADLOCK FALSE
