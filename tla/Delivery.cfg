SPECIFICATION DeliverySpec
CONSTANTS
    a = a
    b = b
    w1 = w1
    w2 = w2
    s1 = s1
    s2 = s2
    NoWorker = NoWorker
    NoSlot = NoSlot
    NoTask = NoTask
    Tasks <- OneTask
    DependsOn <- Independent
    MaximumAttempts <- TwoAttempts
    Workers = {w1, w2}
    AttemptLimit = 2
    OperatorCalls = {"cancel", "retry", "replay"}
    Slots = {s1, s2}
    GoSlots = {}
    WorkerId <- OwnIds
    Handled = {a}
    MessageLimit = 3
    Faults = {"call", "crash", "duplicate", "rebalance"}
INVARIANT DispatchPending
 
CHECK_DEADLOCK FALSE
