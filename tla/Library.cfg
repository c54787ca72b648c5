SPECIFICATION LibrarySpec
CONSTANTS
    Fibers = {a, b}
    NoFiber = nobody
    Fds = {70}
    MaxSockets = 2
    MaxCalls = 3
    MaxRounds = 2
    MaxLate = 1
    off = off
    PoolSize = 2
    PoolCalls = 3
    PoolRequests = 3
    PoolAlive = 1
    Now = 2
    Listeners = {"l1", "l2"}
    MaxLoops = 2
    MaxStops = 2
    Clients = {"c1"}
    Servlets = {"s1", "s2"}
    Keepalive = TRUE
    MaxRequests = 3
    MaxEdits = 2
    MaxScopes = 2
    MaxStrays = 1
    broken = broken
    Daemon = FALSE
    ConfTime = 2
    MaxChanges = 1
    Levels = {400, 600}
    LogTime = 7
    MaxEvents = 2
    MaxAccidents = 2
SYMMETRY Symmetry
INVARIANTS
    LibraryTypes
    TimeoutIsOwn
    OnlyEarlyTimersStrand
    
    ContextIsOfSocket
    RoundTrip
    AnswerIsOwn
    PoolCounts
    MessageAsSent
    StopReachesEveryLoop
    AnswersMatchRequests
    GuardedIsExclusive
    LoggersFollowFile
    LogReachesFile
    ItemsMatchPattern
CHECK_DEADLOCK FALSE
