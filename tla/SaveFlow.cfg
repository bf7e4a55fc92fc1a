SPECIFICATION FairSpec
CONSTANTS
    u1 = u1
    u2 = u2
    a1 = a1
    a2 = a2
    a3 = a3
    b1 = b1
    Users <- OneUser
    Links <- OneLinks
    NoLink = NoLink
    OwnerOf <- OneOwnerOf
    EscapesCancel = {a2}
    NPosts = 1
    MaxQueue = 1
    PQStarted = TRUE
    StopLimit = 1
    CancelLimit = 1
    RaiseLimit = 1
    NotifyFailLimit = 1
INVARIANTS
    LinksInTurn QueueSound StopHoldsUntilReset
PROPERTIES
    QueueMoves
\* Every link may be done and no command left: the handlers then wait for messages.
CHECK_DEADLOCK FALSE
