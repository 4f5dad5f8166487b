SPECIFICATION Spec
CONSTANTS
  NotGiven = NotGiven
  DefaultTasks = 3
  Totals = {0, 1, 3, 6}
  Counts = {0, 2, 4, 9}
  Sizes <- MCSizes
  Lengths = {1, 2}
  TaskTables <- MCTaskTables
  Splits <- MCSplits
  Targets = {"v2.1", "v3.0"}
  Merges <- MCMerges
  ChunksSize = 2
  DataLimit = 3
  VideoLimit = 4
INVARIANTS
  PlanIsExact
  PlanIsEven
  ConversionIsFaithful
  GapsNeverMerge
  MergeConcatenates
  DistributedMatchesLocal
  ShardsStayBelowLimit
PROPERTY
  NoFileIsOverwritten
