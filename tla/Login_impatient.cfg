SPECIFICATION FairSpec
CONSTANTS
    null = null
    NoDoc = NoDoc
    Blank = Blank
    Spaces = Spaces
    Devices = {d1}
    Flaky = {}
    MayDie = {}
    Emails = {e1, e2}
    Names = {n1}
    Patient = FALSE
    MaxOps = 4
    Paths <- AllUserPaths
CHECK_DEADLOCK FALSE
INVARIANTS
    HomeNeedsSession
    SessionShown
PROPERTIES
    RegisteredHasProfile
