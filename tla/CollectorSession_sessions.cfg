SPECIFICATION LiveSpec
CONSTANTS
  QMs = {"qm1", "qm2"}
  StreamQMs = {"qm1"}
  Workers = {"w1", "w2"}
  Owner <- MCOwner
  Locals <- MCLocals
  Main = Main
  MaxFaults = 1
  None = None
INVARIANTS
  TypeOK
  HandlesAreHeld
  FailureDropsSession
  CloseIsComplete
  RetriesOnce
PROPERTIES
  OnlyCloseDisconnectsInUse
  RecoversFromFaults
