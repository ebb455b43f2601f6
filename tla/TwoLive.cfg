CONSTANTS
    Workers = {w1, w2}
    Conns = {c1, c2}
    f1 = f1
    f2 = f2
    Names = {f1}
    NoName = NoName
    NoConn = NoConn
    OWNER_NEXIST = OWNER_NEXIST
    OWNER_NULL = OWNER_NULL
    OWNER_ADMIN = OWNER_ADMIN
    NumFiles = 2
    MaxStorage = 1
    MaxConns = 2
    Requests <- WaitRequests
SPECIFICATION FairClientSpec
PROPERTIES
    HandlersTerminate
    LockWaitJustified
