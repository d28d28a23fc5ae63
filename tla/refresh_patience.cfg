SPECIFICATION Spec
CONSTANTS
    NoOwner = NoOwner
    Requests = {p1, p2}
    Lease = 35
    SessionTtl = 50
    OwnerTimeout = 3
    Stall = 0
    WaitTimeout = 40
    PollInitial = 1
    PollMax = 1
    RedisBound = 2
    HttpBound = 1
    MaxIssued = 1
    MaxFaults = 1
SYMMETRY Symmetry
PROPERTIES
    WaiterOutlastsOneOwner
