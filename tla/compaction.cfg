SPECIFICATION MCFairSpec
CONSTANTS
  LEVEL_FACTOR = 2
  NUM_SSTABLE_LEVELS = 2
  ENTRIES = 3
  MaxCompactions = 2
  MaxUnfinished = 1
INVARIANT SchedulerRingSuffices
INVARIANT NoDataBehindEmptyFilter
INVARIANT OnlyOneTableWritten
PROPERTY SSTableImmutable
PROPERTY NoFlushAfterFailure
PROPERTY FlushRecorded
CHECK_DEADLOCK FALSE
