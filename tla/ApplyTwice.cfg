CONSTANTS
    Paths <- MCPaths
    Kind <- MCKind
    Base <- MCBase
    Protected = {}
    Resolved <- MCResolved
    Answers = {a1, a2}
    Proposals <- Modifications
    InitialDisks <- MCDisks
    Edited = {}
    MayCrash = FALSE
SPECIFICATION Spec
INVARIANTS
    AppliedOnce
CHECK_DEADLOCK FALSE
