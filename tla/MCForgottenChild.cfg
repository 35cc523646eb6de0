SPECIFICATION Spec
CHECK_DEADLOCK FALSE
CONSTANTS
    NULL = NULL
    TaskIds = {1, 2}
    Cost <- EqualCost
    Concurrency = 2
    HeartbeatsArrive = FALSE
    OperatorStates = {}
    MaxClaims = 2
INVARIANTS
    ChildrenAreSupervised
