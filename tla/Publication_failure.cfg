CONSTANTS
  Converter = {c1, c2}
  Editor = {}
  Overwrite = {c1}
  User = User
  NoOne = NoOne
  Occupied = TRUE
  MaxKills = 0
  MaxFaults = 1
SPECIFICATION Spec
INVARIANT FailureKeepsDestination
CHECK_DEADLOCK FALSE
