SPECIFICATION FairSpec
CONSTANTS
    Repos = {r1, r2}
    None = None
    WorkerLimit = 4
    AutoRefresh = TRUE
    AutoFetch = TRUE
    Inputs <- ScreenInputs
    Faults <- SteadyFaults
    Backends = {"reporting"}
    MaxEnv = 2
INVARIANTS
    DebounceCoupled
    NeverFalselyFresh
    DetailCurrentWhenIdle
    CacheMatchesWhenIdle
PROPERTIES
    RunReturns
    WatchedChangesShown
    DegradedMeansPolled
