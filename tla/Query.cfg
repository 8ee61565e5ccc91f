SPECIFICATION Spec
CONSTANTS
    t1 = t1
    t2 = t2
    t3 = t3
    c1 = c1
    c2 = c2
    c3 = c3
    q1 = q1
    q2 = q2
    Request = {r1, r2}
    Tenant = {t1, t2, t3}
    NoTenant = NoTenant
    Collection = {c1, c2, c3}
    NoCollection = NoCollection
    CollectionOf <- MCCollectionOf
    Provisioned = {c1, c2}
    Question = {q1, q2}
    NoQuestion = NoQuestion
    Similar <- MCSimilar
    ClosedLoop = TRUE
    Cap = 1
    LastDay = 1
    SharedBudget = TRUE
    NoSlot = NoSlot
    MaxAllowance = 2
    MaxCalls = 1
INVARIANTS TenantIsolation CostIsolation MetricsAgree QueueExact PaidWithinAllowance
PROPERTIES EveryRequestAnswered
CHECK_DEADLOCK FALSE
