SPECIFICATION StoresSpec
CONSTANTS
    u1 = u1
    login = login
    logout = logout
    revoke = revoke
    read = read
    old = old
    assign = assign
    Users = {u1}
    Calls = {login, logout, assign, revoke, read}
    UserOf <- MCUserOf
    KindOf <- MCKindOf
    First = {old}
    Absent = Absent
    None = None
    MaxRetries = 2
    Workloads <- MCWorkloads
    i1 = i1
    i2 = i2
    vip1 = vip1
    vip2 = vip2
    normal = normal
    add = add
    remove = remove
    off = off
    Commands = {vip1, vip2, normal, add, remove, off}
    Items = {i1, i2}
    Low = Low
    High = High
    NoLevel = NoLevel
    Does <- MCDoes
    Earlier <- MCEarlier
    Cases <- MCCases
    Unset = Unset
    boot = boot
    retry = retry
INVARIANTS NoWriteLost CacheFresh SettingsSound
PROPERTIES StoresAgree ReachesMongo
CHECK_DEADLOCK FALSE
