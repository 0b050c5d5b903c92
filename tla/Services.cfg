\* Seven small machines and the inputs of three modules without actions; each
\* bound is named in its module.
SPECIFICATION Spec

CONSTANTS
    Checks = {hc1, hc2}
    Nobody = Nobody
    MaxHFaults = 1
    MaxArrivals = 1
    InitialWork <- MCInitialWork
    Urls = {u1, u2}
    Dateless = {u2}
    RssFeeds <- MCRssFeeds
    GdeltFeed = "gdelt"
    MaxClock = 1
    MaxPFaults = 2
    RetryBudget = 20
    MaxTries = 4
    FirstBackoff = 4
    MaxBackoff = 12
    Jitters = {1, 2}
    RequestTimes = {1, 3}
    RssBlocks = {0, 2}
    KeyLists <- MCKeyLists
    Archives <- MCArchives
    Linkless = {0}
    DayRuns <- MCDayRuns
    CcPageSize = 2
    MaxPages = 3
    NetRetries = 2
    Windows = 4
    MaxCalls = 2
    MaxBlocks = 2
    Requests = {r1, r2, r3}
    MinConn = 1
    MaxConn = 2
    PlanMinutes = 7
    PlanDays = 6
    JoinMinutes = 2
    Hours = 6
    FullBar = 2
    MaxArticles = 3
    ClusterWindow = 1
    MinRun = 2
    ScanWindow = 3
    ScanStep = 2
    Coins = {c1, c2}
    LastBar = 5
    Ahead = 2
    TrainWindow = 2
    MinTrain = 1
    RetrainEvery = 2
    N = 2
    Interval = 1
    Slack = 1
    BackoffBase = 1
    BackoffMax = 2
    MaxRestarts = 2
    Window = 5
    MaxTime = 8

SYMMETRY MCSymmetry

INVARIANTS
    TypeOK
    OneRepairAtATime
    
    SeenMeansSent
    OverrunBounded
    KeysSpent
    NothingSilentlySkipped
    PoolIsConsistent
    RepairPlansAreExact
    SeriesFaithful
    NoLookahead
    RestartRate
    GivesUpOnlyOnCrashLoop
    PromptRestart
    NothingLeftRunning

PROPERTIES
    BackoffRespected

\* Each of them may come to its end.
CHECK_DEADLOCK FALSE
