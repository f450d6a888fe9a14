\* Each of the small programs; they stop.
CONSTANTS
    Users = {t1, t2, t3}
    NoUser = noUser
    MaxCalls = 7
    FirstCount = 8
    MaxThreads = 3
    MaxConnections = 4
    Pushes = 5
    Capacity = 2
    Iterations = 3
    MaxConsumers = 2
    Priorities <- MCPriorities
    Helpers = {"h1", "h2"}
    MaxRounds = 4
    N = 3
    MaxAlarms = 3
    MaxTime = 5
    Callers = {"c1", "c2"}
    MaxSize = 2
    MaxTasks = 3
    MaxAsks = 2
SPECIFICATION Spec
CHECK_DEADLOCK FALSE
INVARIANTS
    Consistent
    AssertionsHold
    NothingLost
PROPERTIES
    NothingEarly
    ImplementsMonitor
    ImplementsTaskExecution
    WorkEnds
