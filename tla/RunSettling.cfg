CONSTANTS
    Worker = worker
    Stream = stream
    Nobody = nobody
    Resumers = {r1}
    Cancellers = {c1}
    Steerers = {}
    Pollers = {p1}
    ClientMayLeave = FALSE
SPECIFICATION FairSpec
PROPERTIES
    RunSettles
    StreamEnds
