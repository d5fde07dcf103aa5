SPECIFICATION Spec
CONSTANTS
    None = None
    Files <- MCFiles
    Saves <- MCSaves
    ContextLines = 1
    Dashed = {}
    MaxJobs = 2
    MaxOutside = 0
PROPERTIES
    UnstagesTheSelected
