SPECIFICATION Spec
CONSTANTS
    Design = {d1, d2}
    ID <- IDs
    Nil = Nil
    OpenedComponents <- StoredComponents
    OpenedServices <- StoredServices
    StylesAllocated = TRUE
    MaxComponents = 2
    MaxOpens = 2
    MaxCalls = 4
SYMMETRY Designs
CHECK_DEADLOCK FALSE
INVARIANTS
    TypeOK
    RoundTripKeeps
PROPERTIES
    IdentityKept
    LabelsKept
