SPECIFICATION Spec
CONSTANTS
    k1 = k1
    k2 = k2
    k3 = k3
    Scopes <- ThreeScopes
    Ttl = 2
    MaxContent = 1
    MaxSessions = 1
    MaxPerSession = 2
    MaxGlobal = 3
    Statuses = {"active", "discarded"}
    NewStatuses = {"active"}
    Sizes = {0, 1}
    Faults <- DeathOrDisk
    MaxStarts = 3
    MaxAppends = 3
    MaxMarks = 1
    MaxNow = 2
INVARIANTS
    TypeOK
    DecidedStaysDecided
    ReplayAgrees
    
    
SYMMETRY Symmetry
CHECK_DEADLOCK FALSE
