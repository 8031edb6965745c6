SPECIFICATION Spec
CONSTANTS
    a = a  b = b  c = c  yes = yes  no = no  i1 = i1  i2 = i2  mine = mine  yours = yours
    Run = {r1, r2}
    Key = {a, b, c}
    Value = {yes, no}
    Info = {i1, i2}
    NA = NA
    Note = {mine, yours}
    Blank = Blank
    Audits <- SomeAudits
    Figure <- Figures
    InitialSheets <- Layouts
    Faults = {"call", "lostAck"}
    MaxRuns = 2
    MaxEdits = 1
SYMMETRY Runs
CHECK_DEADLOCK FALSE
INVARIANTS
    TypeOK
    UnchangedAuditIsQuiet
PROPERTIES
    UndisturbedRunRepairs
    NotesStayAttached
    OverridesSurvive
