CONSTANTS
    u1 = u1
    u2 = u2
    a = a
    b = b
    c = c
    Users <- MCUsers
    Convs <- MCConvs
    UserOf <- MCUserOf
    MaxConcurrent = 1
    GlobalCooldown = 1
    UserCooldown = 2
    Hour = 3
    MaxPerHour = 1
    QueueWait = 1
    SlotTime = 1
    FastWait = 1
    Workers = 3
    Tries = 2
    MaxInbox = 1
    KindsOf <- MCKinds
    Linkers <- MCLinkers
    First = First
    NoOne = NoOne
SYMMETRY MCSymmetry
SPECIFICATION LoginSpec
INVARIANT
    GrantHonoured
CHECK_DEADLOCK FALSE
