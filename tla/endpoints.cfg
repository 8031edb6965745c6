SPECIFICATION Spec
CONSTANTS
    Path <- Paths
    Exact <- ExactPath
    Loose <- LoosePath
    Slashed = {2}
    Method = {1}
    AnyMethod = 0
    Construct = {c1, c2}
    MaxEndpoints = 2
    MaxRoutes = 2
SYMMETRY Constructs
CHECK_DEADLOCK FALSE
INVARIANTS
    TypeOK
    NothingIsLost
    RowsAreTrue
    JoinsRespectScope
PROPERTIES
    NewRouteKeepsTheOthers
