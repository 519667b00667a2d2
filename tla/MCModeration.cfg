CONSTANTS
    Users = {u1}
    Moderators = {m1, m2}
    TicketIds = {1, 2, 3}
    DebateIds = {1}
    ArgumentIds = {1}
    Texts = {x1, x2}
    Null = Null
    MaxInFlight = 1
SYMMETRY Symmetry
SPECIFICATION Spec
INVARIANTS
    TypeOK
    ReviewedHasModerator
    TicketOfItsAuthor
    DraftIffNoTicket
PROPERTY PublishedFrozen
