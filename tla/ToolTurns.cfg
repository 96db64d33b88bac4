CONSTANTS
    Commands <- MCCommands
    Malformed = {}
    ReadOnly = {"git status"}
    Dangerous = {"rm"}
    Outside = {"cat /etc"}
    Pushes = {"git push"}
    PatternOf <- MCPatternOf
    Rules <- MCRules
    Proposed <- MCProposed
    SubagentTools <- MCSubagentTools
    Rewrites <- MCRewrites
    MaxCalls = 3
    MaxMeanwhile = 2
    Servers = {s, t}
    Called = s
    Enabled = {s}
    MaxNoise = 1
SPECIFICATION McpSpec
INVARIANTS
    
    CommandIsAuthorised
    
    
    ExecutedHasRun
CHECK_DEADLOCK FALSE
