SPECIFICATION Spec
CONSTANTS
  k1 = k1
  k2 = k2
  s1 = s1
  s2 = s2
  r1 = r1
  r2 = r2
  MaxRows = 2
  Keys = {k1}
  HandledKeys = {k1}
  Specs = {s1, s2}
  MaxAttempts <- AttemptsOf
  Callers = {c1, c2}
  Runners = {r1}
  StableRunners = {r1}
  Workers = {1}
  RunnerOf <- OneSlot
  Skew <- NoSkew
  LeaseMs = 1
  RenewMs = 1
  BackoffBase = 1
  BackoffMax = 2
  RunDelays = {0}
  MaxFaults = 0
  MaxRenews = 0
  MaxCalls = 2
  MaxNow = 1
  Punctual = TRUE
CHECK_DEADLOCK FALSE
SYMMETRY CallerSymmetry
INVARIANTS
  LiveKeyUnique
  EnqueueAnswersLiveJob
