SPECIFICATION FairSpec
CONSTANTS
    p1 = p1
    p2 = p2
    ns1 = ns1
    ns2 = ns2
    Procs <- TwoProcs
    SteadyProcs <- Steady1
    Namespaces <- TwoNamespaces
    NamespaceOf <- Shared
    Leftover <- Foreign
    Threshold = 3
    MaxLines = 3
    MaxUnits = 1
    MaxFaults = 2
INVARIANTS
    
    QuarantineForCause
    PairInOrder
PROPERTIES
    DeliversAtLeastOnce
    EveryUnitSettles
