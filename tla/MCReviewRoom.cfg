CONSTANTS
    pa = pa
    pm = pm
    m1 = m1
    Pages = {pa, pm}
    Moderators = {m1}
    Author = Author
    Owner <- MCOwner
    None = None
    MaxMessages = 2
    MaxDrops = 1
    MaxMoves = 1
SPECIFICATION FairSpec
INVARIANTS
    TypeOK
    NoSilentDeafness
    NothingMissed
PROPERTIES
    Discussed
    EveryMessageAnswered
CHECK_DEADLOCK FALSE
