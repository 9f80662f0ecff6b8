SPECIFICATION LiveSpec
CONSTANTS
    t1 = t1
    t2 = t2
    r1 = r1
    r2 = r2
    Tasks = {t1, t2}
    Requests = {r1, r2}
    Fingerprint <- Same
    NoTask = NoTask
    MaxAttempt = 2
INVARIANTS
    CancelIsFinal
    AcceptedIsDurable
    WorkIsOwned
    DiskBehindMemory
PROPERTIES
    ImplementsLifecycle
    AnswersArePermanent
    CancellationEnds
    CloseEnds
    QueueMoves
