CONSTANTS
    Events = {e1, e2}
    Users = {u1}
    Moderators = {m1, m2}
    Nobody = Nobody
    None = None
    MaxAttempts = 3
    MaxStalls = 1
    Concurrency = 1
    MaxCrashes = 2
SPECIFICATION FairSpec
INVARIANTS
    TypeOK
    RowsAccounted
    DuplicatesBounded
    ToldIsStored
PROPERTIES
    Delivered
    EnqueuedSettles
CHECK_DEADLOCK FALSE
