SPECIFICATION Spec
CHECK_DEADLOCK FALSE
CONSTANTS
    NULL = NULL
    TaskIds = {1, 2, 3}
    Cost <- UnequalCost
    Concurrency = 2
    HeartbeatsArrive = TRUE
    OperatorStates = {"online", "draining"}
    MaxClaims = 2
INVARIANTS
    TypeOK
    ChildrenAreSupervised
    ConcurrencyRespected
    ExecutionsHoldTheirLeases
PROPERTIES
    StopsWhenAsked
    NoLeaseIsForever
