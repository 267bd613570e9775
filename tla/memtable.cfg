SPECIFICATION FairSpec
CONSTANTS
  CAPACITY = 15
  VALUE_LENGTH = 2
  Bytes = {0, 1}
PROPERTY InsertionKeepsBytes
INVARIANT SearchStaysInside
PROPERTY EveryCallReturns
CHECK_DEADLOCK FALSE
