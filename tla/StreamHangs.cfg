CONSTANTS
    Worker = worker
    Stream = stream
    Nobody = nobody
    Resumers = {}
    Cancellers = {c1}
    Steerers = {}
    Pollers = {}
    ClientMayLeave = FALSE
SPECIFICATION FairSpec
PROPERTIES
    SettledStreamCloses
