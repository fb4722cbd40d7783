SPECIFICATION Spec
CONSTANTS
    t1 = t1  t2 = t2  t3 = t3  d1 = d1  d2 = d2
    Thread = {t1, t2, t3}
    Role <- ReplayRoles
    Operation = {1}
    Domain = {d1}
    TypeOf <- MCTypeOf
    Chain <- MCChain
    Result <- MCResult
    FailureKind = {"TransportFailure"}
    Retryable = {"TransportFailure", "AmbiguousOutcome"}
    MaxRetryAttempts = 2
    MaxDepth = 1
    MaxPlans = 2
    MaxAttempts = 3
    Reserving = FALSE
    Slots = {1}
    ReserveBound = 2
    DispatchBound = 3
    PlanBound = 3
    GenerationBound = 1
INVARIANT AttemptsWithinPolicy
CHECK_DEADLOCK FALSE
