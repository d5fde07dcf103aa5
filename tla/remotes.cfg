SPECIFICATION FairSpec
CONSTANTS
    main = main
    dev = dev
    origin = origin
    fork = fork
    home = home
    theirs = theirs
    None = None
    Branches <- MCBranches
    MainBranches <- MCMain
    RemoteOrder <- MCOrder
    Origin = origin
    Urls <- MCUrls
    MaxCommit = 6
    InitialRefs <- AllRepos
    Unreachable <- NoUrls
    MaxInputs = 2
    MaxOutside = 1
    MaxFaults = 1
INVARIANTS
    TypeOK
    FlowCompletes
PROPERTIES
    OnlyForwards
    OnlyDeletionLosesWork
    KeepsOthersWork
    RunReturns
CHECK_DEADLOCK FALSE
