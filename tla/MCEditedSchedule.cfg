SPECIFICATION Spec
CHECK_DEADLOCK FALSE
CONSTANTS
    NULL = NULL
    s1 = s1
    s2 = s2
    n1 = n1
    n2 = n2
    k1 = k1
    k2 = k2
    k3 = k3
    r1 = r1
    r2 = r2
    web = web
    Crons = {"even"}
    CronNext <- MCCronNext
    Spread <- MCSpread
    Serves <- MCServes
    ClockSkew = 0
    LookBack = 0
    TaskStaleSeconds = 1
    LeaseFloor = 3
    LeaseMargin = 1
    RequeueDelay = 0
    Sources = {s1}
    Nodes = {n1}
    Resources = {r1, r2}
    ManualKeys = {}
    DesiredStates = {"online"}
    Modes = {"resident"}
    Specs <- EditSpecs
    Configs <- EditConfigs
    RetryDelays = {1}
    ResidentBackfillSlots = 1
    RegistrarGap = 3
    MaxSlots = 2
    MaxCapacity = 2
    MaxTime = 3
    MaxTasks = 3
    MaxBatches = 0
    MaxWindows = 0
    MaxClaims = 2
    MaxInstances = 1
INVARIANTS
    RecurringSourcesStayScheduled
