SPECIFICATION MCFairSpec
CONSTANTS
  max_sstable_height = 3
  LEVEL_FACTOR = 2
  UINT = 16
  MaxPushes = 6
  MaxNulls = 2
  BatchLength = 3
  SqEntries = 3
  MaxBatches = 4
INVARIANTS
  BuffersInOrder
  OneChain
  AnswersInOrder
PROPERTIES
  EveryBatchDealtWith
CHECK_DEADLOCK FALSE
