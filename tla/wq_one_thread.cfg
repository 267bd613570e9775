SPECIFICATION FairSpec
CONSTANTS
  Producer = worker
  Consumer = worker
  is_single_thread = TRUE
  MaxNodes = 8
  UintMod = 8
INVARIANT NoFault
PROPERTY ImplementsFifo
PROPERTY EveryBatchDelivered
