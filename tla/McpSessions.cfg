SPECIFICATION FairSpec
CONSTANTS
    c1 = c1
    c2 = c2
    c3 = c3
    q1 = q1
    q2 = q2
    Inits <- ThreeInits
    Requests <- TwoRequests
    MaxSessions = 2
    Ttl = 1
INVARIANTS
    CapHolds
    CountsAreExact
    LiveIsOpen
PROPERTIES
    NeverRetiredBusy
    AbandonedGoes
CHECK_DEADLOCK FALSE
