SPECIFICATION Spec
CONSTANTS
  NumJobs = 2
  Workers = {w1}
  Interval <- MCInterval
  MaxTime = 1
  PollOutcomes = {"stored"}
  None = None
PROPERTIES
  PollsAreSpaced
CHECK_DEADLOCK FALSE
