SPECIFICATION Spec
CONSTANTS
    a = a
    b = b
    b2 = b2
    s = s
    w = w
    None = None
    Edits <- MCEdits
    Needs <- MCNeeds
    Subjects <- MCSubjects
    Loosely <- MCLoosely
    InitialRepos <- AllRepos
    Views <- Histories
    Commands <- AllCommands
    OutsideActs <- AllActs
    MaxInputs = 2
    MaxOutside = 1
    MaxFaults = 1
INVARIANTS
    TypeOK
PROPERTIES
    RewritesAsAsked
    LosesOnlyConfirmed
    FailsWithoutTrace
CHECK_DEADLOCK FALSE
