SPECIFICATION PQFairSpec
CONSTANTS
    v1 = v1
    v2 = v2
    v3 = v3
    n1 = n1
    n2 = n2
    w1 = w1
    b1 = b1
    Jobs <- MCJobs
    RoleOf <- MCRoleOf
    InitLimits <- MCInitLimits
    LimitChoices = {1, 2}
    MaxStranded = 1
INVARIANTS
    PoolSound
PROPERTIES
    NoStarvationWhileHealthy
CHECK_DEADLOCK TRUE
