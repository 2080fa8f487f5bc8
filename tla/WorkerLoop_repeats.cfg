SPECIFICATION Spec
CONSTANTS
    None = None
    Concurrency = 2
    LEASE_SECONDS = 1
    MaxAttempts = 2
    MaxWire = 1
INVARIANTS
    WritesOwnAttempt
CHECK_DEADLOCK FALSE
