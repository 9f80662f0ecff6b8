SPECIFICATION FairSpec
CONSTANTS
    MaxTasks = 1
    MaxInstances = 2
    MaxRevision = 2
    MaxFaults = 1
    QueueSize = 1
    PageSize = 1
    Operations = {"retry", "delete", "clear"}
    LateStream = FALSE
PROPERTIES
    EventuallyInStep
CHECK_DEADLOCK FALSE
