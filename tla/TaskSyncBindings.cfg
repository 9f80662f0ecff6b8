SPECIFICATION Spec
CONSTANTS
    MaxTasks = 1
    MaxInstances = 1
    MaxRevision = 3
    MaxFaults = 0
    QueueSize = 2
    PageSize = 1
    Operations = {"submit", "clear"}
    LateStream = FALSE
PROPERTIES
    BindingsKept
CHECK_DEADLOCK FALSE
