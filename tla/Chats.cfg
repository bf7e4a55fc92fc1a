SPECIFICATION ChatsSpec
CONSTANTS
    r1 = r1
    r2 = r2
    r3 = r3
    Requests = {r1, r2}
    All = All
    Wants <- MCWants
    Latest = 5
    Foreign = {3}
    Id <- MCId
    PageLimit = 2
    MaxSpan = 4
    Present = 4
    Blindnesses <- MCBlindnesses
    DeleteLimit = 1
    Posts = {1, 2, 3, 4, 5, 6}
    Group <- MCGroup
    FormOf <- MCFormOf
    FailLimit = 3
    ForwardCases <- MCForwardCases
    a = a
    b = b
    hello = hello
    setup = setup
    code = code
    link = link
    work = work
    other = other
    p1 = p1
    p2 = p2
    cmd = cmd
    setB = setB
    off = off
    on = on
    remove = remove
    reset = reset
    tA = tA
    tB = tB
    Chats = {a, b}
    Letters = {hello, setup, code, link, work, other, p1, p2, cmd}
    Orders = {setB, off, on, remove, reset}
    ChatOf <- MCChatOf
    KindOf <- MCKindOf
    AlbumOf <- MCAlbumOf
    OrderOf <- MCOrderOf
    NoAlbum = NoAlbum
    Targets = {tA, tB}
    NoTarget = NoTarget
    EnvTarget = tA
    worker = worker
    starter = starter
    minute = minute
    QueueSize = 2
    Attempts = 3
    Absent = Absent
    LogCases <- MCLogCases
    u1 = u1
    u2 = u2
    u3 = u3
    Users = {u1, u2, u3}
    Rows <- MCRows
    MaxAttempts = 3
    CastCases <- MCCastCases
INVARIANTS TopicSound ForwardSound LogSound CastSound
PROPERTIES PostsAsConfigured WorkEnds
CHECK_DEADLOCK FALSE
