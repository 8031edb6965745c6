SPECIFICATION FairSpec
CONSTANTS
    Unit = {models, types}
    TypeScript = {types}
    Job = {j1, j2, j3}
    BuildFails = TRUE
    MaxPushes = 3
CHECK_DEADLOCK FALSE
INVARIANTS
    StaleOnlyIfReported
PROPERTIES
    ArtifactsNeverRegress
    EventuallySettled
