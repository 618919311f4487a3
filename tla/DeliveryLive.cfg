SPECIFICATION FairDelivery
CONSTANTS
    a = a
    b = b
    w1 = w1
    w2 = w2
    s1 = s1
    s2 = s2
    NoWorker = NoWorker
    NoSlot = NoSlot
    NoTask = NoTask
    Tasks <- TwoTasks
    DependsOn <- Independent
    MaximumAttempts <- TwoAttempts
    Workers = {w1, w2}
    AttemptLimit = 2
    OperatorCalls = {"cancel"}
    Slots = {s1, s2}
    GoSlots = {s1, s2}
    WorkerId <- OwnIds
    Handled = {a}
    MessageLimit = 3
    Faults = {"crash", "duplicate"}
PROPERTY DispatchIsLeased
CHECK_DEADLOCK FALSE
