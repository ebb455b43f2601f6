CONSTANTS
    Workers = {w1}
    Conns = {c1, c2}
    f1 = f1
    f2 = f2
    Names = {f1, f2}
    NoName = NoName
    NoConn = NoConn
    OWNER_NEXIST = OWNER_NEXIST
    OWNER_NULL = OWNER_NULL
    OWNER_ADMIN = OWNER_ADMIN
    NumFiles = 2
    MaxStorage = 1
    MaxConns = 2
    Requests <- ClientRequests
SPECIFICATION ReplySpec
SYMMETRY ClientSymmetry
INVARIANTS
    TypeOK
    StorageWithinCapacity
    UniqueNames
    WriteFindsFreshFile
    NoHandlerFails
    AnswersUnderstood
    GateAgrees
    HeldMeansOwned
    RepliesReadBack
