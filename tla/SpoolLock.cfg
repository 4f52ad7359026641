SPECIFICATION LockFairSpec
CONSTANTS
    p1 = p1
    p2 = p2
    Contenders <- TwoProcs
    MaxExits = 2
    MaxAges = 2
INVARIANTS
    Exclusive
PROPERTIES
    DeadLockGoes
