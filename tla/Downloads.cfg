SPECIFICATION FairSpec
CONSTANTS
    u1 = u1
    u2 = u2
    a1 = a1
    a2 = a2
    b1 = b1
    b2 = b2
    Users <- MCUsers
    UserOf <- MCUserOf
    OwnDirs <- MCDirs
    OwnerOf <- MCOwner
    Jobs <- MixedJobs
    PostOf <- MixedPost
    PathOf <- MixedPath
    Size <- MixedSize
    Slack <- MixedSlack
    Chunk = 2
    Threshold = 2
    MaxAttempts = 2
    StreamTries = 2
    FileIds = {"old", "new"}
    FaultLimit = 2
    BreakLimit = 1
INVARIANTS FileIsWhole PrivateFilesIntact
PROPERTY DownloadEnds
CHECK_DEADLOCK FALSE
