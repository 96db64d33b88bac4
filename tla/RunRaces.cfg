CONSTANTS
    Worker = worker
    Stream = stream
    Nobody = nobody
    Resumers = {r1}
    Cancellers = {c1}
    Steerers = {s1}
    Pollers = {p1}
    ClientMayLeave = TRUE
SPECIFICATION Spec
INVARIANTS
    OwnThreadsEndTheRun
    
    StatusHasPayload
PROPERTIES
    PromiseSpec
