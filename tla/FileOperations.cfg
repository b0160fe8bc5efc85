CONSTANTS
    e1 = e1
    e2 = e2
    Servers <- MCServers
    Engines <- MCEngines
    Watchers <- MCEngines
    ServerOf <- MCServerOf
    Names <- MCNames
    Fold <- MCFold
    PathOrder <- MCPathOrder
    CaseSensitive = {}
    DistinctCase = {}
    Commands <- MCCommands
    Files <- MCFiles
    LruLimit = 2
    FileLimit = 2
    LruLimitFiles = 1
    FileLimitMany = 3
    LruLimitMany = 0
    MaxOps = 3
SPECIFICATION Spec
SYMMETRY Symmetry
INVARIANTS Consistent SureListingsAreTrue
CHECK_DEADLOCK FALSE
