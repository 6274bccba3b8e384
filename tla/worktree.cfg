SPECIFICATION Spec
CONSTANTS
    Ticket <- Pair
    MaxEdits <- PairEdits
    Faults <- PairFaults
    Reporting = {"A"}
    Sloppy = {"A"}
    Requeued = {"A"}
    Retrying = {"A"}
    PrunableLine = "prunable"
CONSTRAINT OneThingAtATime
INVARIANTS TrustedResultIsOwn
PROPERTIES LossesAreKnown PlanIsPutBack
CHECK_DEADLOCK FALSE
