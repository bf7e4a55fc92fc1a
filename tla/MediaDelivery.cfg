SPECIFICATION FairSpec
CONSTANTS
    j1 = j1
    j2 = j2
    s1 = s1
    s2 = s2
    Jobs = {j1, j2}
    Sessions = {s1, s2}
    InitialPool <- MCPool
    Pools <- MCPools
    Workloads <- Everything
    MaxPosts = 2
    Parts = 2
    CreateTries = 2
    UploadTries = 2
    PartRetries = 1
    ErrorLimit = 2
    Budget <- MCBudget
    ReloadLimit = 1
INVARIANTS EachOnce CountedRight OneMoreAfterStop OnlyGuiltyPaused
PROPERTY JobEnds
CHECK_DEADLOCK FALSE
