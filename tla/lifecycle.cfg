SPECIFICATION FairSpec
CONSTANTS
    Ticket <- PairTickets
    Manifest <- PairManifest
    Issue <- PairIssue
    AppendOnly <- Barrel
    EpicBranch <- Epics
    StaleBase = {}
    WorkerMode = "default"
    MaxLocal = 2
    MaxCloud = 1
    MaxDispatch = 3
    KvBudget = 2
    w1 = w1
    w2 = w2
    w3 = w3
    Worker <- TwoWorkers
    NoTicket = NoTicket
    NoEpicShutdown = FALSE
    Outcomes = {"success", "raised"}
    Faults = {"spawn"}
    Gestures = {"softstop", "pause", "forcestop", "signal", "crash"}
    HumanStates = {"InProgressLocal"}
    MaxRestarts = 1
PROPERTIES NoLaunchWhileHeld DrainTerminates SlotsAreFreed
CHECK_DEADLOCK FALSE
