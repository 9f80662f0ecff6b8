SPECIFICATION LiveSpec
CONSTANTS
    ModeCount = 2
    MaxAttempt = 1
    MaxImports = 1
    MaxFolders = 2
    MaxCrashes = 0
    SavesFail = TRUE
PROPERTIES
    PausedImportsRecover
CHECK_DEADLOCK FALSE
