SPECIFICATION Spec
CONSTANTS
    u1 = u1
    u2 = u2
    a1 = a1
    a2 = a2
    b1 = b1
    b2 = b2
    Users <- MCUsers
    UserOf <- MCUserOf
    OwnDirs <- MCDirs
    OwnerOf <- MCOwner
    Jobs <- PublicJobs
    PostOf <- PublicPost
    PathOf <- PublicPath
    Size <- PublicSize
    Slack <- NoSlack
    Chunk = 2
    Threshold = 3
    MaxAttempts = 2
    StreamTries = 2
    FileIds = {"old", "new"}
    FaultLimit = 1
    BreakLimit = 0
INVARIANTS FilesIntact
CHECK_DEADLOCK FALSE
