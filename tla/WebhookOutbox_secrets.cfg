SPECIFICATION OutboxSpec
CONSTANTS
    None = None
    h1 = h1
    e1 = e1
    t1 = t1
    Hooks = {h1}
    Events = {e1}
    Tickers = {t1}
    Wants <- WantsAll
    MAX_WEBHOOKS_PER_TENANT = 1
    WEBHOOK_LEASE = 2
    WEBHOOK_ATTEMPTS = 2
    WEBHOOK_RETRY_BASE = 1
    WEBHOOK_RETRY_CAP = 2
    DeadRetention = 1
    SecretOverlap = 2
    MaxHold = 1
    MaxDelay = 1
    MaxTime = 6
    MaxDeaths = 1
    MaxRotations = 2
    MaxRedeliveries = 1
INVARIANTS
    EveryDeliveryVerifies
CHECK_DEADLOCK FALSE
