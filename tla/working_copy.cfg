SPECIFICATION Spec
CONSTANTS
    f1 = f1
    f2 = f2
    n = n
    f = f
    None = None
    Edits <- MCEdits
    FileOf <- MCFileOf
    NewFiles <- MCNew
    InitialTrees <- AllTrees
    Commands <- AllCommands
    OutsideActs <- AllActs
    MaxInputs = 2
    MaxOutside = 2
    MaxFaults = 1
PROPERTIES
    LosesOnlyWhatItIsFor
    KeepsPromise
    CommitsAlone
CHECK_DEADLOCK FALSE
