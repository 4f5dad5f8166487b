CONSTANTS
  Task = {t1}
  Attempt = {a1, a2}
  NoTask = NoTask
  NoOne = NoOne
  Overwrite = FALSE
  Validate = FALSE
  Target = "v3.0"
  Leftover = FALSE
  Duplicates = TRUE
  Outsider = FALSE
  MaxKills = 1
  MaxFaults = 0
SPECIFICATION Spec
INVARIANT PublishedIsComplete
