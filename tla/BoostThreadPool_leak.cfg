SPECIFICATION Spec
CONSTANTS
    PoolSize = 1
    MaxTasks = 2
    MaxThreads = 2
    MaxCalls = 3
    None = None
INVARIANTS
    NoTaskLeaks
