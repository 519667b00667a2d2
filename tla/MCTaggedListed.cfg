CONSTANTS
    Requests = {r1, r2, r3}
    w1 = w1
    w2 = w2
    Words = {w1, w2}
    Names <- MCNames
    MaxNewTags = 1
    MaxNames = 3
    None = None
SPECIFICATION MCSpec
SYMMETRY Symmetry
INVARIANT TaggedDebatesListed
CHECK_DEADLOCK FALSE
