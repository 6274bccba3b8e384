SPECIFICATION FairSpec
CONSTANTS
    Ticket <- Rows
    NameOf <- Names
    Ours = {"A", "B"}
    MetricsOpener = {"watcher", "status"}
    BenchOpener = {"bench"}
    Watcher = "watcher"
    Crowds <- Some
    Budget = 3
    LegacyLog = {1, 2}
    MaxRuns = 2
    MaxLog = 4
INVARIANTS OpenMeansWhole ImportIsWhole
PROPERTIES FetchedCountStays RetriesEnd OnlyFirstTicketIsStale
CHECK_DEADLOCK FALSE
