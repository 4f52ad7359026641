SPECIFICATION Spec
CONSTANTS
  Candidates = {1, 2, 3, 4}
  Text <- Different
  Parent <- SplitTail
  Position <- ChainAndTail
  MaxDistance = 1
  Exact = FALSE
  BatchSize = 4
  MaxSteps = 3
  SliceSize = 2
  Passes = {p1, p2}
  Routers = {j1, j2}
  Verdicts = {"promoted", "rejected"}
  Actions = {"thought", "rule_event", "none"}
  MaxWork = 3
CHECK_DEADLOCK FALSE
SYMMETRY ExecutionSymmetry
INVARIANTS
  ReviewMirrorsGrade
  RoutedOnce

  
  
