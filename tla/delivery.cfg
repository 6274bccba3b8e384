SPECIFICATION FairSpec
CONSTANTS
    Ticket <- ChainTickets
    Manifest <- ChainManifest
    Issue <- ChainIssue
    AppendOnly <- Barrel
    EpicBranch <- Epics
    StaleBase = {}
    WorkerMode = "default"
    MaxLocal = 2
    MaxCloud = 1
    MaxDispatch = 2
    KvBudget = 2
    w1 = w1
    w2 = w2
    w3 = w3
    Worker <- TwoWorkers
    NoTicket = NoTicket
    NoEpicShutdown = FALSE
    Outcomes = {"success"}
    Faults = {}
    Gestures = {"kill"}
    HumanStates = {}
    MaxRestarts = 0
INVARIANTS CloudPoolBounded KvWithinBudget
PROPERTIES EveryTicketDelivered
CHECK_DEADLOCK FALSE
