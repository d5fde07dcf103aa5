SPECIFICATION Spec
CONSTANTS
    None = None
    Files <- MCFiles
    Saves <- MCSaves
    ContextLines = 1
    Dashed = {}
    MaxJobs = 2
    MaxOutside = 2
INVARIANTS
    TypeOK
PROPERTIES
    MovesTheSelected
    StagesAPart
