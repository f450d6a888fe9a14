\* Two threads share a pool of two workers, the first of which may not start, of either class.
CONSTANTS
    PoolSize = 2
    MaxTasks = 3
    MaxThreads = 2
    MaxCalls = 3
    MayFailToStart = {1}
    None = None
SPECIFICATION Spec
INVARIANTS
    Consistent
    NoOvertaking
    DestroyedIsClean
PROPERTIES
    ImplementsTaskExecution
    WorkEnds
