SPECIFICATION Spec
CONSTANTS
    PoolSize = 2
    MaxTasks = 3
    MaxThreads = 2
    MaxCalls = 5
    None = None
INVARIANTS
    Consistent
    DestroyedIsClean
PROPERTIES
    ImplementsTaskExecution
    WorkEnds
