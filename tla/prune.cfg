SPECIFICATION FairWalk
CONSTANTS
    Ref = {schemaA, schemaB, jwt}
CHECK_DEADLOCK FALSE
INVARIANTS
    PrunedExactly
PROPERTIES
    PruneEnds
