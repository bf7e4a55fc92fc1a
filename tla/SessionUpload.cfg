SPECIFICATION FairSpec
CONSTANTS
    u1 = u1
    u2 = u2
    j1 = j1
    j2 = j2
    j3 = j3
    lend = lend
    glob = glob
    Stop = Stop
    None = None
    Users <- MCUsers
    Jobs <- MCJobs
    UserOf <- MCUserOf
    Sessions = {lend, glob}
    Kind <- MCKind
    OwnerOf <- MCOwner
    Place <- MCPlace
    System = {j2}
    Batches <- MCBatches
    Spare = {lend}
    Limits = {1, 2}
    NewLimit = 1
    MaxAttempts = 2
    OwnerLimit = 1
    FloodLimit = 1
    TimeLimit = 1
    LogsOut = {u1}
INVARIANTS
    SlotCount
    UploadSound
PROPERTIES
    UploadEnds
\* All uploads may have ended.
CHECK_DEADLOCK FALSE
