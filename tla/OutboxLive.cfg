SPECIFICATION FairSpec
CONSTANTS
    e1 = e1
    e2 = e2
    f1 = f1
    p1 = p1
    p2 = p2
    Nobody = Nobody
    Orphan = Orphan
    NoEvent = NoEvent
    Events <- OneRun
    Run <- OneRunKey
    Id <- OneRunId
    Publishers = {p1, p2}
    BatchSize = 1
    ClaimTTL = 2
    PublishTimeout = 1
 
PROPERTY EventuallyPublished
CHECK_DEADLOCK FALSE
