SPECIFICATION FairSpec
CONSTANTS
    Goroutine = {g1, g2}
    Description = {k8s, github}
    MaxGeneration = 3
    Faults = {"id", "query", "insert", "lostAck", "crash"}
    Nil = Nil
INVARIANTS
    TypeOK
    CheckedStaysAbsent
    RepliesAreStored
PROPERTIES
    EveryCallReturns
