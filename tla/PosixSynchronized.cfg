\* Three threads use and destroy one object.
CONSTANTS
    Threads = {t1, t2, t3}
    None = None
    Retries = 1
    MayDestroy = TRUE
    MaxCalls = 4
SPECIFICATION FairSpec
CHECK_DEADLOCK FALSE
INVARIANTS
    Consistent
    MutualExclusion
    NoForgottenLock
PROPERTIES
    ImplementsMonitor
    WorkEnds
