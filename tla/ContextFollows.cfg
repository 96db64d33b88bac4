SPECIFICATION Spec
CONSTANTS
    PathRank <- MCPathRank
    PathOrder <- MCPathOrder
    Drivers = {d1, d2}
    RepoFiles <- MCRepoFiles
    HighSignal <- MCHighSignal
    Requests <- MCRequests
    Models <- MCModels
    Size <- MCSize
    MaxRuns = 2
    MaxUpsets = 1
    MaxStamp <- MCMaxStamp
    ToRead <- MCToRead
SYMMETRY MCSymmetry
INVARIANTS OnlyOwnFiles RemembersTheConversation PackFits
PROPERTY PacketIsFresh
CHECK_DEADLOCK FALSE
