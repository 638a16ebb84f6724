SPECIFICATION LiveSpec
CONSTANTS
  NumQueues = 2
  NumStrict = 1
  NamingQueues = {1}
  NumTopics = 2
  QueueClasses = {1}
  AppClasses = {2}
  Values <- MCValues
  None = None
  Budget = 2
  MaxPuts = 1
  MaxDepth = 1
  MaxFaults = 1
  Modes = {"fallback", "always"}
INVARIANTS
  TypeOK
  MessagesAreDivided
  NewestIsReturned
  EveryClassIsCovered
PROPERTIES
  LossDropsSession
  AmqsruacIsLastResort
  PollsRecover
