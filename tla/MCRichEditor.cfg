CONSTANTS
    Events = {e1, e2, e3, e4}
    None = None
SPECIFICATION FairSpec
INVARIANT EveryTextOnce
PROPERTY EveryContentResolves
CHECK_DEADLOCK FALSE
