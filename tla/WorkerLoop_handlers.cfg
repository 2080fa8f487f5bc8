SPECIFICATION Spec
CONSTANTS
    None = None
    Concurrency = 3
    LEASE_SECONDS = 1
    MaxAttempts = 3
    MaxWire = 1
INVARIANTS
    OneHandler
CHECK_DEADLOCK FALSE
