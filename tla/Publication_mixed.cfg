CONSTANTS
  Converter = {c1, c2, c3}
  Editor = {e1, e2}
  Overwrite = {c1, c2, e1}
  User = User
  NoOne = NoOne
  Occupied = TRUE
  MaxKills = 1
  MaxFaults = 1
SPECIFICATION Spec
SYMMETRY ConverterSymmetry
INVARIANTS EditsLoseNothing QuietOutputIsWhole
PROPERTY EditRespectsOverwrite
CHECK_DEADLOCK FALSE
