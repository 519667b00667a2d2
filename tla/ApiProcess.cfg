CONSTANTS
    Conns = {c1, c2}
    PoolSize = 1
SPECIFICATION FairSpec
INVARIANTS
    TypeOK
    PoolOutlivesRequests
    CleanExit
PROPERTY ShutdownEnds
CHECK_DEADLOCK FALSE
