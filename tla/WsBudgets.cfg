SPECIFICATION WsSpec
CONSTANTS
    k1 = k1
    k2 = k2
    k3 = k3
    Scopes <- ThreeScopes
    Ttl = 5
    MaxContent = 1
    MaxSessions = 2
    MaxPerSession = 2
    MaxGlobal = 3
    Sizes = {0, 1}
    MaxAppends = 7
    MaxNow = 8
INVARIANTS
    WsTypeOK
    AcceptedIsKept
PROPERTIES
    ShedsLeastRecent
SYMMETRY Symmetry
CHECK_DEADLOCK FALSE
