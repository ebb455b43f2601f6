CONSTANTS
    Workers = {w1}
    Conns = {c1}
    f1 = f1
    f2 = f2
    f3 = f3
    Names = {f1, f2, f3}
    NoName = NoName
    NoConn = NoConn
    OWNER_NEXIST = OWNER_NEXIST
    OWNER_NULL = OWNER_NULL
    OWNER_ADMIN = OWNER_ADMIN
    NumFiles = 3
    MaxStorage = 3
    MaxConns = 1
    Requests <- PolicyRequests
    Algorithms = {"FIFO", "LRU", "LFU"}
    MaxTime = 2
    MaxUses = 5
SPECIFICATION FairPolicySpec
INVARIANTS
    PolicyTypeOK
    VictimFollowsPolicy
PROPERTIES
    StuckOnlyIfNothingEvictable
