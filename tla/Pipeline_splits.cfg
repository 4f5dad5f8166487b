SPECIFICATION Spec
CONSTANTS
  NotGiven = NotGiven
  DefaultTasks = 3
  Totals = {0, 1, 3, 5}
  Counts = {0, 2, 9}
  Sizes <- MCSizes
  Lengths = {1, 2}
  TaskTables <- MCTaskTables
  Splits <- MCMoreSplits
  Targets = {"v2.1", "v3.0"}
  Merges <- MCNoMerges
  ChunksSize = 2
  DataLimit = 3
  VideoLimit = 4
INVARIANT NeverDivergesSilently
CHECK_DEADLOCK FALSE
