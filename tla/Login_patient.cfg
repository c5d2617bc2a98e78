SPECIFICATION Spec
CONSTANTS
    null = null
    NoDoc = NoDoc
    Blank = Blank
    Spaces = Spaces
    Devices = {d1, d2}
    Flaky = {d1}
    MayDie = {d1}
    Emails = {e1, e2}
    Names = {n1, n2}
    Patient = TRUE
    MaxOps = 4
    Paths <- AllUserPaths
SYMMETRY Interchangeable
CHECK_DEADLOCK FALSE
INVARIANTS
    TypeOK
    ProfileTellsTruth
    SessionShown
