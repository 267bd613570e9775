SPECIFICATION SharingFairSpec
CONSTANTS
  Spinners = {0, 1, 2, 3}
  Tryers = {0, 1, 2, 3}
  LevelFactors = {2, 3}
  TableCounts = {1, 2, 3, 4, 5, 6, 7, 8, 9, 10, 11, 12, 13, 14, 15, 16, 17, 18, 19, 20, 21, 22, 23, 24, 25, 26, 27}
  WorkerCounts = {1, 2, 3, 4}
INVARIANT WqFlagsExact
INVARIANT BqFlagsExact
INVARIANT TryLockNeverSucceeds
INVARIANT GiftsStayWithWorker
PROPERTY SpinConverges
CHECK_DEADLOCK FALSE
