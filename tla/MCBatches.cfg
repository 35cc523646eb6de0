SPECIFICATION Spec
CHECK_DEADLOCK FALSE
CONSTANTS
    NULL = NULL
    s1 = s1
    s2 = s2
    n1 = n1
    n2 = n2
    k1 = k1
    k2 = k2
    k3 = k3
    r1 = r1
    r2 = r2
    web = web
    Crons = {"even"}
    CronNext <- MCCronNext
    Spread <- MCSpread
    Serves <- MCServes
    ClockSkew = 0
    LookBack = 0
    TaskStaleSeconds = 1
    LeaseFloor = 3
    LeaseMargin = 1
    RequeueDelay = 0
    Sources = {s1}
    Nodes = {n1}
    Resources = {}
    ManualKeys = {}
    DesiredStates = {"online", "disabled"}
    Modes = {"resident", "burst"}
    Specs <- BackfillSpecs
    Configs <- BackfillConfigs
    RetryDelays = {0}
    ResidentBackfillSlots = 1
    RegistrarGap = 2
    MaxSlots = 2
    MaxCapacity = 1
    MaxTime = 2
    MaxTasks = 2
    MaxBatches = 1
    MaxWindows = 2
    MaxClaims = 2
    MaxInstances = 1
INVARIANTS
    BatchCountsItsRuns
    BatchEndsWithItsLastTask
    BackfillLeavesRoom
PROPERTIES
    NoTaskVanishes
