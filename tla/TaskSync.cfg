SPECIFICATION Spec
CONSTANTS
    MaxTasks = 1
    MaxInstances = 2
    MaxRevision = 2
    MaxFaults = 1
    QueueSize = 1
    PageSize = 1
    Operations = {"submit", "retry", "delete", "clear"}
    LateStream = FALSE
INVARIANTS
    Converged
    LiveNotRetired
    NoResurrection
PROPERTIES
    NoRollback
    BindingsSurvive
CHECK_DEADLOCK FALSE
