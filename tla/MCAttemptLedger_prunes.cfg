SPECIFICATION Spec
SYMMETRY Pruners
CONSTANTS
    p1 = p1  p2 = p2
    Operation = {1}
    Shard = {0, 1}
    Binding <- MCOneBinding
    Dispatch = {1}
    Result <- MCTwoResults
    FailureKind = {"ExecutionFailure"}
    Recovered <- MCRecoveredOne
    IdSpace = 4
    MaxBytes = 1
    MaxAttempts = 2
    Pruner = {p1, p2}
    Keep = {0, 1}
    CounterBound = 1
    GenerationBound = 1
    CallBound = 1
PROPERTY ImplementsAuthority
CHECK_DEADLOCK FALSE
