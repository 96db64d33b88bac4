CONSTANTS
    d1 = d1
    d2 = d2
    m1 = m1
    m2 = m2
    m3 = m3
    Messages = {m1, m2, m3}
    Drivers = {d1, d2}
    Steerers = {s1}
    Accepts <- TwoBranches
    NoMessage = none
    MaxWaiting = 1
SPECIFICATION FairQueueSpec
INVARIANTS
    RunsAtMostOnce
    WithdrawnNeverRuns
    StartedInOrder
PROPERTIES
    StartedSettles
