SPECIFICATION OwnSpec
CONSTANTS
    Ticket <- CrowdedTickets
    Manifest <- CrowdedManifest
    Issue <- CrowdedIssue
    AppendOnly <- Barrel
    EpicBranch <- Epics
    StaleBase = {}
    WorkerMode = "default"
    MaxLocal = 2
    MaxCloud = 1
    MaxDispatch = 2
    KvBudget = 9
    MaxBroken = 1
    w1 = w1
    w2 = w2
    w3 = w3
    Worker <- Workers
    NoTicket = NoTicket
    NoEpicShutdown = FALSE
    Outcomes = {"success", "failure", "escalated", "aborted", "raised"}
    Faults = {"list", "read", "write", "worktree", "spawn", "vllm"}
    Gestures = {"crash"}
    HumanStates = {"ReadyForLocal"}
    MaxRestarts = 1
SYMMETRY WorkerSymmetry
INVARIANTS NoDoubleDispatch ActivePathsDisjoint LocalEpicExclusive OneOwner
CHECK_DEADLOCK FALSE
