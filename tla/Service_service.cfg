SPECIFICATION ServiceSpec
CONSTANTS
    None = None
    Anyone = Anyone
    k1 = k1
    acme = acme
    q1 = q1
    q2 = q2
    Keys = {k1}
    Tenants = {acme}
    Verdicts <- RegistryVerdicts
    Parties <- People
    KEY_CACHE_SECONDS = 2
    KEY_NEGATIVE_CACHE_SECONDS = 2
    MAX_CACHED_KEYS = 1
    Interval = 2
    Burst = 2
    Requests = {q1, q2}
    MaxAsk = 2
    MaxClock = 3
    MaxChanges = 1
    Me = Me
    Neighbour = Neighbour
    shared = shared
    HeartbeatFiles = {shared}
    TICK_SECONDS = 1
    BREAKER_THRESHOLD = 2
    BREAKER_COOLDOWN = 4
    HEARTBEAT_MAX_AGE_SECONDS = 2
    MaxTick = 3
    MaxTime = 24
    MaxFaults = 2
VIEW AtWork
SYMMETRY RequestSymmetry
INVARIANTS
    BudgetKept
    CancellersAnswer
    BackedOff
    CatchesUp
    ProbeTells
PROPERTIES
    RecentVerdict
CHECK_DEADLOCK FALSE
