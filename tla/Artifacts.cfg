\* Two users over one upload; two SDK workers, or an SDK and an HTTP worker, over one task;
\* PUTs that differ from what was declared, or arrive late, and one failing call.
SPECIFICATION FairSpec
CONSTANTS
    u1 = u1  u2 = u2  w1 = w1  w2 = w2  h1 = h1
    Users = {u1, u2}
    SdkWorkers = {w1, w2}
    HttpWorkers = {h1}
    Bodies = {"right", "other", "long", "huge"}
    Size <- MCSize
    Limit <- MCLimit
    Result = "right"
    MaxId = 5
    MaxUserId = 1
    NoId = NoId
    Nothing = Nothing
    MaxFaults = 1
    Deployments <- MCDeployments
INVARIANTS  ResultIsOwners
 
CHECK_DEADLOCK FALSE
