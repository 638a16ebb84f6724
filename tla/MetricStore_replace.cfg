SPECIFICATION Spec
CONSTANTS
  Scopes = {qm1, qm2}
  Metrics = {"depth", "puts"}
  LabelSets = {plain, extended}
  Objects = {1, 2}
  Batches <- MCBatches
  None = None
SYMMETRY MCSymmetry
INVARIANTS
  TypeOK
  CacheHoldsLastSuccess
  ScrapesSeeNoGap
  TargetUpTellsOutcome
  BookkeepingIsSound
PROPERTIES
  OtherScopesUntouched
