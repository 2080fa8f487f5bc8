SPECIFICATION FairSpec
CONSTANTS
    None = None
    Concurrency = 2
    LEASE_SECONDS = 1
    MaxAttempts = 2
    MaxWire = 1
INVARIANTS
    ApartUnlessCrowded
    ReleasedOnceStopped
PROPERTIES
    LostLeaseStops
    UnworkedLapses
CHECK_DEADLOCK FALSE
