CONSTANTS
    Requests = {r1, r2, r3}
    w1 = w1
    w2 = w2
    Words = {w1, w2}
    Names <- MCNames
    MaxNewTags = 2
    MaxNames = 5
    None = None
SPECIFICATION MCSpec
SYMMETRY Symmetry
INVARIANTS
    TypedTagsExist
    ShowsItsTags
    DuplicatesOverlap
CHECK_DEADLOCK FALSE
