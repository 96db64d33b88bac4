CONSTANTS
    Paths <- MCPaths
    Kind <- MCKind
    Base <- MCBase
    Protected = {}
    Resolved <- MCResolved
    Answers = {a1, a2}
    Proposals <- Pairs
    InitialDisks <- MCDisks
    Edited = {1, 2}
    MayCrash = TRUE
SPECIFICATION Spec
INVARIANTS
    
    AppliedShows
PROPERTIES
    OriginalsAreKept
    
CHECK_DEADLOCK FALSE
