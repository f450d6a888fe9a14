\* One worker, one caller: execute() twice.
CONSTANTS
    PoolSize = 1
    Tasks = {t1, t2}
    Callers = {c1}
    MaxCalls = 2
    MayFailToStart = FALSE
    None = None
SPECIFICATION Spec
PROPERTIES ExecutedTaskEnds
