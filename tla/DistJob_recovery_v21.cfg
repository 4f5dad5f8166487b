CONSTANTS
  Task = {t1, t2}
  Attempt = {a1, a2, a3}
  NoTask = NoTask
  NoOne = NoOne
  Overwrite = TRUE
  Validate = FALSE
  Target = "v2.1"
  Leftover = TRUE
  Duplicates = FALSE
  Outsider = FALSE
  MaxKills = 1
  MaxFaults = 1
SPECIFICATION FairSpec
PROPERTIES EventuallyPublished OutputIsNeverWithdrawn
