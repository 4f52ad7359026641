SPECIFICATION Spec
CONSTANTS
    h1 = h1
    d1 = d1
    NoHash = NoHash
    NoVector = NoVector
    MaxRows = 3
    Summaries <- ThreeSummaries
    Projects = {"p"}
    Rests = {"r"}
    Folded <- Spelling
    Handlers <- OneHandler
    Drains <- OneDrain
    Batch = 1
    MaxWrites = 2
INVARIANTS
    EmbeddingFitsText
    DrainReachesAll
