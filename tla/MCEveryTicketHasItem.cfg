CONSTANTS
    Users = {}
    Moderators = {m1}
    TicketIds = {1, 2}
    DebateIds = {1}
    ArgumentIds = {1}
    Texts = {x1}
    Null = Null
    MaxInFlight = 0
SPECIFICATION Spec
INVARIANT EveryTicketHasItem
