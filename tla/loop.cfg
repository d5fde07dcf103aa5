SPECIFICATION Spec
CONSTANTS
    Repos = {r1, r2}
    None = None
    WorkerLimit = 1
    AutoRefresh = TRUE
    AutoFetch = TRUE
    Inputs <- AllInputs
    Faults <- AllFaults
    Backends <- BackendKinds
    MaxEnv = 1
SYMMETRY RepoSymmetry
INVARIANTS
    TypeOK
    SettledWhenIdle
PROPERTIES
    JobLifecycle
    SummariesNeverGoBack
