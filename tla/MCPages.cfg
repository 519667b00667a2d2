CONSTANTS
    Users = {u1}
    Moderators = {m1, m2}
    TicketIds = {1, 2}
    DebateIds = {1, 2}
    ArgumentIds = {}
    Texts = {x1}
    Null = Null
    MaxInFlight = 0
    Me = m1
    Cards = {1, 2, 3, 4}
    MaxRequests = 3
    MaxVisits = 1
    MaxElsewhere = 1
    InboxIds = {1, 2}
    MaxTurns = 3
    CachedArgs <- MCCachedArgs
    ReadArgs <- MCReadArgs
    Counters <- MCCounters
    a1 = a1
    a2 = a2
    a3 = a3
    Requests = {q1, q2}
    MaxChanges = 2
    MaxCommands = 2
    MaxReads = 3
    MaxReadings = 2
    Author = Author
    MaxTyped = 1
    MaxSaves = 2
    MaxItemOpens = 2
    MaxDrops = 1
    MaxMoves = 1
    MaxTroubles = 1
    Debates = {d1, d2}
    MaxForms = 2
    MaxSends = 1
    MaxFormChanges = 2
    Tags <- MCTags
    TagsOf <- MCTagsOf
    Searched <- MCSearched
    Titled <- MCTitled
    Unsendable <- MCUnsendable
    t1 = t1
    t2 = t2
    NewName = NewName
    MaxSearched = 2
    MaxClicks = 3
    MaxSearches = 2
    MaxCreated = 1
    MaxPublished = 1
    MaxVisited = 3
    MaxEdits = 4
SPECIFICATION MCSpec
VIEW View
INVARIANTS
    PagesTypeOK
    BoardComplete
    InStep
    NoRowForgotten
    ReadWasDelivered
    CacheIsTrue
    ExpandedIsRead
    ItemInStep
    ArgumentsFit
    DraftKeepsCounter
    ListIsAsked
PROPERTY UntouchedStays
CHECK_DEADLOCK FALSE
