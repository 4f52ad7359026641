SPECIFICATION Spec
CONSTANTS
  Sessions = {s1, s2}
  Hooks = {h1, h2}
  Batch = 1
  Changes = {"replace", "remove", "truncate"}
  MaxSize = 4
  MaxWritten = 2
  MaxStops = 3
  MaxChanges = 1
CHECK_DEADLOCK FALSE
SYMMETRY Symmetry
INVARIANTS
  NothingSkipped
  OnlyReuseForgets
