SPECIFICATION OutputsSpec
CONSTANTS
    None = None
    a1 = a1
    a2 = a2
    p1 = p1
    p2 = p2
    x = x
    y = y
    Bad = Bad
    Ids = {a1, a2}
    Contents <- OneAndTwoChunks
    Purgers = {p1, p2}
    MaxFaults = 2
    w1 = w1
    w2 = w2
    Workers = {w1, w2}
    Batches <- Overlapping
    MAX_PAGE = 2
    PAGE_LIMIT = 1
    max_retries = 2
    MaxAttempts = 2
    h1 = h1
    e1 = e1
    t1 = t1
    t2 = t2
    Hooks = {h1}
    Events = {e1}
    Tickers = {t1, t2}
    Wants <- WantsAll
    MAX_WEBHOOKS_PER_TENANT = 1
    WEBHOOK_LEASE = 2
    WEBHOOK_ATTEMPTS = 2
    WEBHOOK_RETRY_BASE = 1
    WEBHOOK_RETRY_CAP = 2
    DeadRetention = 1
    SecretOverlap = 2
    MaxHold = 1
    MaxDelay = 1
    MaxTime = 6
    MaxDeaths = 1
    MaxRotations = 2
    MaxRedeliveries = 1
INVARIANTS
    ReadsSound
    NoStrayBytes
    AllExpire
    LoggedOnce
    ReadsInOrder
    EndIsLast
    AtLeastOnce
    HeldApart
    OnlyMovedRefuse
PROPERTIES
    ExpiredGo
    FollowerEnds
    EveryDeliveryEnds
CHECK_DEADLOCK FALSE
