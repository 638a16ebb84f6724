SPECIFICATION FairSpec
CONSTANTS
  NumJobs = 3
  Workers = {w1, w2}
  Interval <- MCNoPause
  MaxTime = 0
  PollOutcomes = {"failed"}
  None = None
PROPERTIES
  DueJobIsPolled
  PollFinishes
  StopEndsThreads
CHECK_DEADLOCK FALSE
