SPECIFICATION Spec
CONSTANTS
    NoOwner = NoOwner
    Requests = {p1, p2}
    Lease = 4
    SessionTtl = 6
    OwnerTimeout = 2
    Stall = 1
    WaitTimeout = 3
    PollInitial = 1
    PollMax = 2
    RedisBound = 1
    HttpBound = 1
    MaxIssued = 2
    MaxFaults = 1
SYMMETRY Symmetry
INVARIANTS
    AtMostOneExchange
