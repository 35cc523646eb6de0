SPECIFICATION Spec
CONSTANTS
    NULL = NULL
    k1 = k1
    b1 = b1
    b2 = b2
    b3 = b3
    b4 = b4
    Keys = {k1}
    Backends = {b1, b2, b3, b4}
    MaxTasks = 2
    MaxClaims = 2
INVARIANTS
    KeyIsRegisteredOnce
PROPERTIES
    ImplementsLeaseProtocol
    EveryTransactionEnds
