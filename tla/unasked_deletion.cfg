SPECIFICATION FairSpec
CONSTANTS
    main = main
    dev = dev
    origin = origin
    fork = fork
    home = home
    theirs = theirs
    None = None
    Branches <- MCBranches
    MainBranches <- MCMain
    RemoteOrder <- MCOrder
    Origin = origin
    Urls <- MCUrls
    MaxCommit = 6
    InitialRefs <- AllRepos
    Unreachable <- NoUrls
    MaxInputs = 1
    MaxOutside = 0
    MaxFaults = 0
PROPERTIES
    KeepsWork
CHECK_DEADLOCK FALSE
