SPECIFICATION FairSpec
CONSTANTS
  Commands <- MCCommands
  TypesOf <- MCTypesOf
  ElemsOf <- MCElemsOf
  TypesTopic <- MCTypesTopic
  ElementsTopic <- MCElementsTopic
  DataTopic <- MCDataTopic
  Content <- MCContent
  Metadata <- MCMetadata
  RootTopic <- MCRootTopic
  LangTopic <- MCLangTopic
  InitialTopics <- MCInitialTopics
  Objects = {"q", "r"}
  None = "none"
  FailReasons = {2009}
  MaxClassCount = 2
  MaxTypeCount = 2
  MaxPublish = 2
  MaxFaults = 1
  MaxDepth = 2
INVARIANTS
  TypeOK
  TreeIsSound
  FailuresAreReported
  SubscribesAsAsked
  ZeroMeansData
PROPERTIES
  Terminates
CHECK_DEADLOCK FALSE
