CONSTANTS
    Menu <- Tools
    Modes = {"default", "accept_edits"}
    MaxTurns = 5
    MaxSteps = 2
SPECIFICATION FairSpec
INVARIANTS
    
    DeniedRunsNothing
PROPERTIES
    GrantIsUsed
    CommitFollowsGoodApply
    GraphSettles
CHECK_DEADLOCK FALSE
