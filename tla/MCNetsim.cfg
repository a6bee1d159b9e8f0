SPECIFICATION FairSpec
CONSTANTS
    t1 = t1
    t2 = t2
    s1 = s1
    s2 = s2
    imsi = imsi
    listener = listener
    none = none
    given = given
    q3 = q3
    Tasks <- MCTasks
    Imsis <- MCImsis
    Programs <- MCPrograms
    Listener = listener
    HistorySize = 1
    MaxTaskCalls = 1
    MaxEvents = 2
    Callers <- MCTasks
    NoCaller = none
    FailureThreshold = 2
    SuccessThreshold = 2
    Timeout = 2
    MaxCalls = 7
    Reconnectors <- MCTasks
    MaxAttempts = 2
    InitialDelay = 1
    MaxDelay = 3
    Multiplier = 2
    Subscribers <- MCSubscribers
    Emitters <- MCTasks
    MaxTypeLists = 3
    MaxSubscribes = 3
    MaxEmits = 2
    Clients <- MCTasks
    MaxRequests = 4
    MaxReconnects = 4
    Operators <- MCTasks
    Tried <- MCTried
    CellUsers <- MCTasks
    NoUser = given
    MaxCellRequests = 2
    Scenarios <- MCScenarios
    Runner = t1
    Bearers <- MCSubscribers
    BearersUp <- MCBearersUp
    Managers <- MCTasks
    MaxAsked = 2
    MaxHistory = 1
    Askers <- MCAskers
    Timer = s1
    Flusher = s2
    MaxBatch = 2
    MaxFlushes = 1
    Takers <- MCTasks
    Burst = 2
    MaxClock = 3
    MaxAsks = 4
    Keys <- MCSubscribers
    MaxSize = 1
    Ttl = 0
    StaleTtl = 1
    MaxVersion = 2
CHECK_DEADLOCK FALSE
INVARIANTS PerformanceSound LinkSound   ConfigFresh  ScenarioSound EventsFollowed
PROPERTIES CallsReturn
