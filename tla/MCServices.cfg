SPECIFICATION ServiceSpec
CONSTANTS
    Checks = {"h1", "h2"}
    Cycles = {"p1", "p2"}
    PoolMax = 1
    Cooldown = 1
    Callers = {"c1"}
    HealthChecks = {"h"}
    DbPoolMax = 2
    MaxAttempts = 2
    Pools = 2
    MaxOrphans = 1
    MaxEvents = 2
    Conns = {"x", "y"}
    MaxTimers = 2
    Subscribers = {"s"}
    Replicas = {"r1", "r2"}
    Requests = {"q1", "q2"}
    ReplicaOf <- MCReplicaOf
    RateLimitMax = 1
    RateWindow = 2
    MaxSequence = 4
    First = 1
    Readers = {"r1", "r2"}
    ListFirst = 2
    Signals = {"SIGTERM", "SIGINT", "again"}
    Limits = {"subscription", "event"}
    MaxOf <- MCMaxOf
    WindowOf <- MCWindowOf
    MaxOpen = 2
    Clients = {"c1", "c2"}
    MaxMessages = 1
    MessageWindow = 2
INVARIANTS
    TypesOK
    SilenceExplained
    ClientsAccounted
    EveryEventHeard
    BudgetHolds
    PagesFit
    PollsOnlyOvertaken
PROPERTIES
    ProcessesEnd
    AcquireSettles
    ListensAgain
CHECK_DEADLOCK FALSE
