SPECIFICATION FairSpec
CONSTANTS
    a = a
    b = b
    c = c
    w1 = w1
    w2 = w2
    NoWorker = NoWorker
    Tasks <- JoinTasks
    DependsOn <- JoinDependsOn
    MaximumAttempts <- JoinAttempts
    Workers = {w1}
    AttemptLimit = 2
    OperatorCalls = {"cancel"}
INVARIANT RunningRunHasWork
PROPERTIES ConstrainedLifecycle  
CHECK_DEADLOCK FALSE
