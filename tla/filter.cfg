SPECIFICATION Spec
CONSTANTS
  Thread = {t1, t2}
  String = {k1, k2}
  number_hashes = 2
  Bit = {0, 1, 8}
  MaxCalls = 3
INVARIANT InsertedBitsSet
INVARIANT InsertedVerdict
CHECK_DEADLOCK FALSE
