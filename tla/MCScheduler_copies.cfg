SPECIFICATION Spec
CONSTANTS
    t1 = t1  t2 = t2  t3 = t3  d1 = d1  d2 = d2
    Thread = {t1, t2, t3}
    Role <- CopyRoles
    Operation = {1}
    Domain = {d1}
    TypeOf <- MCTypeOf
    Chain <- MCChain
    Result <- MCResults
    FailureKind = {"TransportFailure", "WorkerDeath"}
    Retryable = {"TransportFailure"}
    MaxRetryAttempts = 2
    MaxDepth = 1
    MaxPlans = 2
    MaxAttempts = 2
    Reserving = TRUE
    Slots = {2}
    ReserveBound = 2
    DispatchBound = 3
    PlanBound = 1
    GenerationBound = 1
INVARIANT SentAtMostOnce
CHECK_DEADLOCK FALSE
