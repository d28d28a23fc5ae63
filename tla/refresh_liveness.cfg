SPECIFICATION FairSpec
CONSTANTS
    NoOwner = NoOwner
    Requests = {p1, p2}
    Lease = 2
    SessionTtl = 3
    OwnerTimeout = 1
    Stall = 0
    WaitTimeout = 2
    PollInitial = 1
    PollMax = 1
    RedisBound = 1
    HttpBound = 1
    MaxIssued = 2
    MaxFaults = 1
PROPERTIES
    RequestsEnd
    LockIsFreed
