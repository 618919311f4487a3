\* Races of two clients over two keys and one input artifact; races of two
\* schedulers over a schedule an operator moves, disables and deletes.
SPECIFICATION FairSpec
CONSTANTS
    c1 = c1  c2 = c2  s1 = s1  s2 = s2  daily = daily  hourly = hourly  weekly = weekly
    Clients = {c1, c2}
    Schedulers = {s1, s2}
    ClientKeys = {k1, k2}
    Definitions = {d1}
    Unknown = Unknown
    Artifacts = {a1}
    NoArtifact = NoArtifact
    RunIds = {1, 2, 3, 4, 5, 6, 7}
    NoRun = NoRun
    Schedules = {daily, hourly, weekly}
    Edited = {daily}
    Period = 1
    PatchTimes = {0}
    MaxTime = 2
    MaxFaults = 1
    Deployments <- MCDeployments
INVARIANTS TypeOK ArtifactNamesItsRun ConflictIsAnotherKeys OccurrenceKept OccurrenceRunsOnce
PROPERTIES ImplementsRegistry TakenIsRun
CHECK_DEADLOCK FALSE
