SPECIFICATION Spec
CONSTANT MaxRuns = 2
INVARIANTS
    AloneAtWork
    LeaseCoversWork
    ReturnedRunIsOver
PROPERTIES
    CancelledOnlyIfAsked
    StopReturns
    OrphansExit
CHECK_DEADLOCK FALSE
