\* Two threads share a pool of two workers, one of which may not start.
CONSTANTS
    PoolSize = 2
    Tasks = {t1, t2, t3}
    Callers = {c1, c2}
    MaxCalls = 2
    MayFailToStart = TRUE
    None = None
SPECIFICATION Spec
INVARIANTS
    TaskOwnership
    QueryAnswer
    SetTaskSucceeds
    NoUseAfterFree
    TerminatedIsStopped
PROPERTIES
    ImplementsTaskExecution
    WorkEnds
