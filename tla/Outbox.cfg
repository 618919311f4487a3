SPECIFICATION Spec
CONSTANTS
    e1 = e1
    e2 = e2
    f1 = f1
    p1 = p1
    p2 = p2
    Nobody = Nobody
    Orphan = Orphan
    NoEvent = NoEvent
    Events <- TwoRuns
    Run <- TwoRunsKey
    Id <- TwoRunsId
    Publishers = {p1, p2}
    BatchSize = 2
    ClaimTTL = 2
    PublishTimeout = 1
SYMMETRY PublisherSymmetry
INVARIANTS NeverLost SerialOrder
CHECK_DEADLOCK FALSE
