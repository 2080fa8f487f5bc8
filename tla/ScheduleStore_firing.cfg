SPECIFICATION FiringSpec
CONSTANTS
    None = None
    s1 = s1
    u1 = u1
    u2 = u2
    weekdays = weekdays
    manual = manual
    utc = utc
    Schedules = {s1}
    Cadences = {weekdays, manual}
    Timezones = {utc}
    Occurrences <- Instants
    Updates = {u1, u2}
    Ats = {2}
    MAX_CONSECUTIVE_FAILURES = 3
    FIRE_RETRY_BASE = 1
    FIRE_RETRY_CAP = 2
    MAX_FIRE_SKEW = 1
    MaxDelay = 1
    MaxTime = 3
VIEW Differing
SYMMETRY UpdateSymmetry
INVARIANTS
    NoBacklog
    StrikesSpaced
PROPERTIES
    OwedTickKept
CHECK_DEADLOCK FALSE
