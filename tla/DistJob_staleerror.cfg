CONSTANTS
  Task = {t1, t2}
  Attempt = {a1}
  NoTask = NoTask
  NoOne = NoOne
  Overwrite = FALSE
  Validate = TRUE
  Target = "v3.0"
  Leftover = FALSE
  Duplicates = FALSE
  Outsider = FALSE
  MaxKills = 0
  MaxFaults = 1
SPECIFICATION Spec
PROPERTY SuccessClearsError
