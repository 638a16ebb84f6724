SPECIFICATION FairSpec
CONSTANTS
  NumJobs = 2
  Workers = {w1, w2}
  Interval <- MCInterval
  MaxTime = 0
  PollOutcomes = {"stored", "rejected", "failed"}
  None = None
PROPERTIES
  DueJobIsPolled
CHECK_DEADLOCK FALSE
