SPECIFICATION FairSpec
CONSTANTS
    Ticket <- Twins
    Manifest <- TwinManifest
    NoTicket = NoTicket
    Faults <- TwinFaults
    Dirty = {"A"}
    Revisited = {"A"}
    MaxHead = 2
INVARIANTS StaleDiagnosisCleared
PROPERTIES ImplementsResult WorkSurvives PrOpensOnCurrentBase EveryThreadEnds
CHECK_DEADLOCK FALSE
