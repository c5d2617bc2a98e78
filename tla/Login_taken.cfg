SPECIFICATION Spec
CONSTANTS
    null = null
    NoDoc = NoDoc
    Blank = Blank
    Spaces = Spaces
    Devices = {d1, d2}
    Flaky = {}
    MayDie = {}
    Emails = {e1, e2}
    Names = {n1}
    Patient = TRUE
    MaxOps = 2
    Paths <- AllUserPaths
CHECK_DEADLOCK FALSE
INVARIANTS
    NamesUnique
