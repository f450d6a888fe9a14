SPECIFICATION Spec
CONSTANTS
    Direct = {d1}
    Shared = Shared
    Own = Own
    Queue = Queue
    None = None
    MaxRequests = 3
    MaxCalls = 2
INVARIANTS
    Consistent
    NoRequestLost
PROPERTIES
    GrantOrder
    WorkEnds
