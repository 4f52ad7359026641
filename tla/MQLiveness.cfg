SPECIFICATION FairSpec
CONSTANTS
  k1 = k1
  k2 = k2
  s1 = s1
  s2 = s2
  r1 = r1
  r2 = r2
  MaxRows = 1
  Keys = {k1}
  HandledKeys = {k1}
  Specs = {s1}
  MaxAttempts <- AttemptsOf
  Callers = {c1}
  Runners = {r1, r2}
  StableRunners = {r1}
  Workers = {1, 2}
  RunnerOf <- OneSlotEach
  Skew <- NoSkew
  LeaseMs = 1
  RenewMs = 1
  BackoffBase = 1
  BackoffMax = 1
  RunDelays = {0}
  MaxFaults = 1
  MaxRenews = 1
  MaxCalls = 1
  MaxNow = 7
  Punctual = FALSE
CHECK_DEADLOCK FALSE

PROPERTIES
  EveryJobSettles
