SPECIFICATION FairSpec
CONSTANTS
    d1 = d1
    d2 = d2
    a = a
    b = b
    c = c
    u1 = u1
    u2 = u2
    u3 = u3
    null = null
    NoDoc = NoDoc
    Devices = {d1}
    Flaky = {d1}
    MayDie = {d1}
    Users = {u1, u2, u3}
    Session <- OneAccount
    Pages = {a, b}
    Host <- HostOfPages
    DebugBuild = TRUE
    Names = {"kari", "ola"}
    NameOf <- NamesOfUsers
    MaxSteps <- ThreeThenOne
    Paths <- SearchPaths
CHECK_DEADLOCK FALSE
INVARIANTS
    FiledAsTapped
PROPERTIES
    TapSettles
    SearchSettles
