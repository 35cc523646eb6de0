SPECIFICATION Spec
CONSTANTS
    t1 = t1
    t2 = t2
    w1 = w1
    w2 = w2
    Tasks = {t1, t2}
    Waiters = {w1, w2}
    Slots = 1
    MaxTokens = 2
    WaitTicks = 1
    Routings <- MCRoutings
    MaxTroubles = 1
INVARIANTS
    TypeOK
    NoLostWakeup
PROPERTIES
    TaskIsServed
    PollsAreAnswered
