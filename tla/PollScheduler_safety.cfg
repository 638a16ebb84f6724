SPECIFICATION Spec
CONSTANTS
  NumJobs = 2
  Workers = {w1, w2}
  Interval <- MCInterval
  MaxTime = 1
  PollOutcomes = {"stored", "rejected", "failed"}
  None = None
SYMMETRY MCSymmetry
INVARIANTS
  TypeOK
  OnePollPerJob
  ClaimIsHeld
  StatusIsTruthful
  NoPollAheadOfStatus
PROPERTIES
  ImplementsPollCycle
CHECK_DEADLOCK FALSE
