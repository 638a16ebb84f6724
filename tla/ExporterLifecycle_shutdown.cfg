SPECIFICATION LiveSpec
CONSTANTS
  MaxInterrupts = 4
CHECK_DEADLOCK FALSE
INVARIANTS
  TypeOK
  
  SessionsOutliveEngine
PROPERTIES
  StopEventEndsProcess
  SecondInterruptEndsProcess
