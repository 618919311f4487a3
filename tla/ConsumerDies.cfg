SPECIFICATION FairDelivery
CONSTANTS
    a = a
    b = b
    w1 = w1
    w2 = w2
    s1 = s1
    s2 = s2
    NoWorker = NoWorker
    NoSlot = NoSlot
    NoTask = NoTask
    Tasks <- OneTask
    DependsOn <- Independent
    MaximumAttempts <- TwoAttempts
    Workers = {w1, w2}
    AttemptLimit = 2
    OperatorCalls = {}
    Slots = {s1}
    GoSlots = {}
    WorkerId <- OneId
    Handled = {a}
    MessageLimit = 3
    Faults = {}
PROPERTY DeliveredAgain
CHECK_DEADLOCK FALSE
