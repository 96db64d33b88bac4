CONSTANTS
    Files <- MCFiles
    Opaque <- MCOpaque
    About <- MCAbout
    Requests <- MCRequests
    Finds <- MCFinds
    Class <- MCClass
    Menu <- MCMenu
    MaxModel = 1
    MaxFaults = 1
SPECIFICATION Spec
INVARIANTS
    LooksBeforeAsking
    TriesTheEdit
    HonestAnswer
PROPERTIES
    NothingTwice
    EndsInTime
    EditsWhatWasRead
CHECK_DEADLOCK FALSE
