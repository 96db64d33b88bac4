CONSTANTS
    Requests = {r1, r2, r3}
    Branches <- MCBranches
    Plans <- MCPlans
    Origin <- MCOrigin
    Moving = {"dev"}
    MaxCommits = 3
SPECIFICATION Spec
SYMMETRY Symmetry
INVARIANTS
    
    AnswersTell
PROPERTIES
    KeepsCommits
CHECK_DEADLOCK FALSE
