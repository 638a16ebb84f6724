SPECIFICATION LiveSpec
CONSTANTS
  MaxInterrupts = 1
CHECK_DEADLOCK FALSE
PROPERTIES
  FirstInterruptSuffices
