SPECIFICATION PoolFairSpec
CONSTANTS
    u1 = u1
    u2 = u2
    a1 = a1
    a2 = a2
    a3 = a3
    b1 = b1
    b2 = b2
    Shutdown = Shutdown
    PoolUsers <- MCUsers
    Tasks <- FewTasks
    TaskOwner <- FewOwnerOf
    PerUserLimit = 1
    WorkerCount = 2
    MaxWorkers = 3
    ScaleStep = 1
    CancelLimit = 1
    ScaleLimit = 1
    MayShutDown = TRUE
INVARIANTS
    PoolExact
    CancelledYieldsNothing
PROPERTIES
    SubmitReturnsUnlessStopped
\* All tasks may have returned: the pool then waits for the next one.
CHECK_DEADLOCK FALSE
