CONSTANTS
  Task = {t1, t2}
  Attempt = {a1, a2, a3}
  NoTask = NoTask
  NoOne = NoOne
  Overwrite = FALSE
  Validate = TRUE
  Target = "v3.0"
  Leftover = TRUE
  Duplicates = FALSE
  Outsider = FALSE
  MaxKills = 1
  MaxFaults = 1
SPECIFICATION FairSpec
PROPERTY StuckOnlyByTornStatistics
