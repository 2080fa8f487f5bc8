SPECIFICATION Spec
CONSTANTS
    None = None
    w1 = w1
    w2 = w2
    i1 = i1
    i2 = i2
    alice = alice
    lead = lead
    ckpt = ckpt
    root = root
    go = go
    stop = stop
    r1 = r1
    Workers = {w1, w2}
    Interrupts = {i1, i2}
    Assignees = {alice, lead}
    Checkpoints = {}
    Principals = {root}
    MAX_LEASE_LAPSES = 2
    MAX_ERROR_RETRIES = 1
    ERROR_RETRY_BASE = 1
    ERROR_RETRY_CAP = 1
    LAPSE_RETRY_BASE = 1
    LAPSE_RETRY_CAP = 1
    MaxRunSeconds = None
    RunIds = {r1}
    ARTIFACT_RETENTION = 1
    RunRetention = 0
    Deadlines = {None}
    Timeouts = {None}
    LeaseSeconds = {1}
    Questions <- JustEscalating
    Answers = {go, stop}
    CancelAnswers = {stop}
    Endings = {"SUCCESS", "ERROR"}
    MAX_LEASE_SECONDS = 1
    MaxDelay = 1
    MaxTime = 4
    MaxReleases = 1
SYMMETRY WorkerSymmetry
INVARIANTS
    RowsSound
    CancelBound
    WorkedIsRunningTime
    AttemptAccounting
PROPERTIES
    Lifecycle
    AttemptRunsOnce
    AnnouncedOnce
CHECK_DEADLOCK FALSE
