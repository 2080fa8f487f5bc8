SPECIFICATION Spec
CONSTANTS
    None = None
    r1 = r1
    r2 = r2
    r3 = r3
    r4 = r4
    r5 = r5
    c1 = c1
    c2 = c2
    acme = acme
    beta = beta
    chat = chat
    bot = bot
    RunIds = {r1, r2, r3, r4, r5}
    Claims = {c1, c2}
    TenantOf <- Tenants
    KeyOf <- Keys
    AgentOf <- Agents
    PriorityOf <- Priorities
    Scopes <- AnyTenant
    Times = {0, 1}
    ConcurrencyPerKey = 1
    MaxRunningPerTenant = 2
SYMMETRY ClaimSymmetry
INVARIANTS
    CapsHold
PROPERTIES
    ClaimFindsNext
    ClaimProgresses
CHECK_DEADLOCK FALSE
