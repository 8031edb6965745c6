SPECIFICATION Spec
CONSTANTS
    k1 = k1  k2 = k2  k3 = k3
    Word <- Words
    Name <- Names
    KeyID = {k1, k2, k3}
    KnownDuplicates = {k3}
    Sheets <- SomeSheets
    FirstSheets <- SomeFirstSheets
    File = {"consumer", "other", "diff.json"}
    DiffFile = "diff.json"
    Uses <- SomeUses
    Hidden = {"other"}
    Root = TRUE
    None = None
    Faults = {"kill", "sed", "rg", "grep"}
    MaxEdits = 1
    MaxRuns = 2
    MaxApplies = 2
    MaxFailures = 1
CHECK_DEADLOCK FALSE
INVARIANTS
    IndexBeforeKeys
    RenamesKeepIds
    RenamesAreComplete
