SPECIFICATION Spec
CONSTANTS
    NULL = NULL
    i1 = i1
    i2 = i2
    i3 = i3
    a = a
    b = b
    m = m
    n = n
    Items = {i1, i2, i3}
    Contents = {a, b}
    Feed <- MCFeed
    Media <- MCMedia
    Bytes = {m, n}
    Validator <- MCValidator
    LastVersion = 3
    BatchSize = 2
    Executions = {e1, e2}
    Exclusive = FALSE
INVARIANTS
    NotModifiedIsHonest
