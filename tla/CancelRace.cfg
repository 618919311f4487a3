SPECIFICATION Spec
CONSTANTS
    a = a
    b = b
    c = c
    w1 = w1
    w2 = w2
    NoWorker = NoWorker
    Tasks <- JoinTasks
    DependsOn <- JoinDependsOn
    MaximumAttempts <- JoinAttempts
    Workers = {w1, w2}
    AttemptLimit = 2
    OperatorCalls = {"cancel"}
SYMMETRY WorkerSymmetry
PROPERTY CancellationConvertsFailures
CHECK_DEADLOCK FALSE
