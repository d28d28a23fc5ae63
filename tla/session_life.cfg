SPECIFICATION Spec
CONSTANTS
    None = None
    Requests = {r1, r2}
    Lifetimes = {None, 0, 1, 6, 100}
    Sub = 2
    Skew = 4
    SessionTtl = 4
    HttpBound = 1
    VerifyBound = 2
    DiscoveryBound = 2
    RedisBound = 1
    WaitBound = 2
    DeliveryBound = 1
    MaxSystemTime = 20
    MaxU64 = 99
    Horizon = 16
SYMMETRY Symmetry
INVARIANTS
    TypeOK
    NoExpiryIsHarmless
    CookieOutlivesSession
PROPERTIES
    ReadyIsAlive
    RefreshedOnlyWhenDue
    NoFalseLogout
CHECK_DEADLOCK FALSE
