CONSTANTS
    Threads = {t1, t2}
    None = None
    MaxCalls = 6
SPECIFICATION Spec
CHECK_DEADLOCK FALSE
PROPERTIES
    NotifiedReturns
