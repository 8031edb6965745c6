SPECIFICATION FairSpec
CONSTANTS
    design = design  user = user  jwt = jwt  get = get  put = put
    bearer = bearer  oauth = oauth
    Word = {design, user, jwt}
    Name <- Names
    NumPackages = 2
    Document <- Documents
    Title <- Titles
    NoTitle = NoTitle
    Route = {get, put}
    Scheme = {bearer, oauth}
    Checkouts <- SomeCheckouts
    NeverMerged = {}
    NoGo = {}
    Absent = Absent
    Faults = {"validate", "tool", "types", "kill"}
    MaxEdits = 1
    MaxBuilds = 2
CHECK_DEADLOCK FALSE
INVARIANTS
    TypeOK
    SuccessIsCurrent
    SpecsAreWhole
PROPERTIES
    BuildRefined
    InvocationEnds
