SPECIFICATION Spec
CONSTANTS
    a = a
    b = b
    c = c
    w1 = w1
    w2 = w2
    NoWorker = NoWorker
    Tasks <- JoinTasks
    DependsOn <- JoinDependsOn
    MaximumAttempts <- JoinAttempts
    Workers = {w1, w2}
    AttemptLimit = 2
    OperatorCalls = {"cancel", "retry", "replay"}
SYMMETRY WorkerSymmetry
INVARIANTS TypeOK DependencyOrder NoLostWakeup RunSucceedsWithTasks
    AttemptLedger OneVerdictPerAttempt RetryWithinBudget RetryDelayKept EventsTellStatus
PROPERTY HistoryIsKept
CHECK_DEADLOCK FALSE
