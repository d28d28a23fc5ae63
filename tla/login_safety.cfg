SPECIFICATION Spec
CONSTANTS
    Nobody = Nobody
    Transactions = {t1, t2, t3}
    Browsers = {b1, b2}
    Clients = {ip1, ip2, ip3}
    Callbacks = {c1, c2}
    LoginTtl = 2
    MaxPending = 2
    MaxPerClient = 1
    MaxRestarts = 1
SYMMETRY Symmetry
INVARIANTS
    TypeOK
    TakenOnce
    SessionIsBound
    WithinLimits
PROPERTIES
    LiveTransactionKept
    TakenAlive
