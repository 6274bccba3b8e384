SPECIFICATION FairSpec
CONSTANTS
    Ticket <- EpicTickets
    Blockers <- EpicBlockers
    Planned = {2, 3, 4}
    Unfiled = {4}
    Member = {2, 3}
    Refusing = {3}
    NoTicket = NoTicket
    EpicShutdown = {TRUE, FALSE}
    MaxLost = 3
    MaxMoves = 2
    MaxCrashes = 1
INVARIANTS ManifestAndLinearAgree CompleteMeansComplete
PROPERTIES NeverPromotedEarly WaitersAreDecided
CHECK_DEADLOCK FALSE
