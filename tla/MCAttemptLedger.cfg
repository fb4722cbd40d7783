SPECIFICATION Spec
CONSTANTS
    p1 = p1  p2 = p2
    Operation = {1}
    Shard = {0}
    Binding <- MCBinding
    Dispatch = {0, 1}
    Result <- MCResult
    FailureKind = {"ExecutionFailure"}
    Recovered <- MCRecovered
    IdSpace = 4
    MaxBytes = 1
    MaxAttempts = 2
    Pruner = {p1}
    Keep = {1}
    CounterBound = 2
    GenerationBound = 1
    CallBound = 1
INVARIANTS TypeOK CompletionAgreement AuditConsistent GenerationsCovered
PROPERTY TerminalForever
CHECK_DEADLOCK FALSE
