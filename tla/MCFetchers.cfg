SPECIFICATION Spec
CONSTANTS
    p = p
    q = q
    r = r
    x = x
    a = a
    b = b
    h1 = h1
    h2 = h2
    Urls = {p, q, r, x, a, b}
    Hosts = {h1, h2}
    HostOf <- MCHostOf
    Disallowed = {x}
    Retries = 1
    Rate = 2
    BackoffCap = 2
    RetryAfterCap = 3
    RetryAfters = {1, 4}
    NoHeader = NoHeader
    MaxTroubles = 5
    Webs <- MCWebs
    MaxPages = 3
    MaxItems = 3
    MaxAttempts = 2
    RetryBackoff = "exponential"
    BaseSeconds = 1
    MaxSeconds = 2
INVARIANTS
    TypeOK
    FetchIsComplete
    LimitsHold
    TroublesAreSurvived
PROPERTIES
    RequestsAreSpaced
    RetryAfterIsHonoured
    TaskSettles
CHECK_DEADLOCK FALSE
