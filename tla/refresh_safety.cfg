SPECIFICATION Spec
CONSTANTS
    NoOwner = NoOwner
    Requests = {p1, p2}
    Lease = 4
    SessionTtl = 12
    OwnerTimeout = 2
    Stall = 1
    WaitTimeout = 9
    PollInitial = 1
    PollMax = 1
    RedisBound = 1
    HttpBound = 2
    MaxIssued = 3
    MaxFaults = 1
SYMMETRY Symmetry
INVARIANTS
    TypeOK
    OwnerExclusive
    LeaseCoversOwner
    SnapshotIsCurrent
    RotationNotRaced
    NoSpuriousInvalidation
PROPERTIES
    HealthyOwnerIsAwaited
