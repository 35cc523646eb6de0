SPECIFICATION Spec
CONSTANTS
    NULL = NULL
    Torn = Torn
    n1 = n1
    p1 = p1
    p2 = p2
    t1 = t1
    Nodes = {n1}
    Processes = {p1, p2}
    NodeOf <- MCNodeOf
    Tokens = {t1}
    BootstrapToken = t1
    UseLimits = {1, 3}
    OperatorStates = {"online", "disabled"}
    Slots = {1, 2}
    MaxCrashes = 1
PROPERTIES
    UsesBounded
    RevocationIsFinal
    NodeSettles
