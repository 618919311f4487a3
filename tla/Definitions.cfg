\* Every small DAG through validation into task rows; three racing callers of
\* CreateWorkflow and CreateVersion.
SPECIFICATION Spec
CONSTANTS
    c1 = c1  c2 = c2  c3 = c3
    Callers = {c1, c2, c3}
    Names = {n1}
    NoName = NoName
    WellFormed = {"a", "b", "c", "d"}
    MaxTasks = 3
    MaxEdges = 4
    MaxAttempts = 100
    MaxTimeout = 86400
    Dags <- MCDags
    Deployments <- MCDeployments
INVARIANTS VersionsContiguous  RefusedOnlyUnrunnable RunsCanFinish
CHECK_DEADLOCK FALSE
