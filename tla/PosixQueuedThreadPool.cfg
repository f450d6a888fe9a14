\* Two threads share a queued pool of two workers; a worker or the queue thread may not start.
CONSTANTS
    PoolSize = 2
    Tasks = {t1, t2}
    Callers = {c1, c2}
    MaxCalls = 2
    MayFailToStart = TRUE
    QueueThread = QueueThread
    None = None
SPECIFICATION Spec
INVARIANTS
    Consistent
    FirstInFirstOut
    QueryAnswer
PROPERTIES
    ImplementsTaskExecution
    StoppedAssignsNothing
    WorkEnds
