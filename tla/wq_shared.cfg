SPECIFICATION Spec
CONSTANTS
  Producer = upper
  Consumer = lower
  is_single_thread = FALSE
  MaxNodes = 4
  UintMod = 8
PROPERTY DeliveredInOrder
CHECK_DEADLOCK FALSE
