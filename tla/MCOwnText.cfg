CONSTANTS
    Events = {e1, e2}
    None = None
SPECIFICATION FairSpec
INVARIANTS
    OwnText
CHECK_DEADLOCK FALSE
