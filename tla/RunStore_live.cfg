SPECIFICATION FairSpec
CONSTANTS
    None = None
    w1 = w1
    w2 = w2
    i1 = i1
    i2 = i2
    alice = alice
    lead = lead
    ckpt = ckpt
    root = root
    go = go
    stop = stop
    r1 = r1
    Workers = {w1, w2}
    Interrupts = {i1, i2}
    Assignees = {alice, lead}
    Checkpoints = {}
    Principals = {root}
    MAX_LEASE_LAPSES = 2
    MAX_ERROR_RETRIES = 1
    ERROR_RETRY_BASE = 1
    ERROR_RETRY_CAP = 1
    LAPSE_RETRY_BASE = 1
    LAPSE_RETRY_CAP = 1
    MaxRunSeconds = None
    RunIds = {r1}
    ARTIFACT_RETENTION = 1
    RunRetention = None
    Deadlines = {None, 2}
    Timeouts = {None, 1}
    LeaseSeconds = {1}
    Questions <- EscalatingAndExpiring
    Answers = {go, stop}
    CancelAnswers = {stop}
    Endings = {"SUCCESS"}
    MAX_LEASE_SECONDS = 1
    MaxDelay = 0
    MaxTime = 4
    MaxReleases = 0
PROPERTIES
    LimitsTakeEffect
CHECK_DEADLOCK FALSE
