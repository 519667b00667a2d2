CONSTANTS
    Users = {}
    Moderators = {m1, m2}
    TicketIds = {1, 2, 3}
    DebateIds = {1}
    ArgumentIds = {1, 2}
    Texts = {x1}
    Null = Null
    MaxInFlight = 0
SYMMETRY Symmetry
SPECIFICATION LifecycleSpec
INVARIANT OneItemPerTicket
PROPERTIES
    ArgumentLifecycle
    DebateLifecycle
