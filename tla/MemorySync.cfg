SPECIFICATION FairSpec
CONSTANTS
    t1 = t1
    Tasks = {t1}
    NoTask = NoTask
    Unknown = Unknown
    MaxAttempts <- ThreeAttempts
    MaxCommits <- TwoCommits
    MaxRestarts = 1
PROPERTIES
    DeletedIsRemembered
    SyncEnds
CHECK_DEADLOCK FALSE
