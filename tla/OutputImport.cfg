SPECIFICATION LiveSpec
CONSTANTS
    ModeCount = 2
    MaxAttempt = 2
    MaxImports = 2
    MaxFolders = 2
    MaxCrashes = 1
    SavesFail = TRUE
INVARIANTS
    ImportedIsSaved
    SavedOnce
PROPERTIES
    ImportEnds
CHECK_DEADLOCK FALSE
