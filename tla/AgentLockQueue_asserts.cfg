SPECIFICATION Spec
CONSTANTS
    Direct = {d1, d2}
    Shared = Shared
    Own = Own
    Queue = Queue
    None = None
    MaxRequests = 1
    MaxCalls = 2
INVARIANTS
    AssertionsHold
