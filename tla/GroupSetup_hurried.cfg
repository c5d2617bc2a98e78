SPECIFICATION Spec
CONSTANTS
    d1 = d1
    d2 = d2
    p1 = p1
    p2 = p2
    f1 = f1
    f2 = f2
    f3 = f3
    u1 = u1
    u2 = u2
    null = null
    NoDoc = NoDoc
    Devices = {d1, d2}
    Flaky = {d1}
    Users = {u1}
    Session <- OneAccount
    GroupPages = {p1, p2}
    FriendsPages = {f1, f3}
    Pages = {p1, p2, f1, f3}
    Host <- HostOfPages
    Below <- BelowOfPages
    DebugBuild = FALSE
    MayDie = {d1}
    GroupIds = {g1}
    GroupTypes = {"public"}
    GroupTexts = {"unnamed"}
    MaxCreates = 1
    MaxTouches <- TwiceOnD1
    Unhurried = FALSE
    Paths <- SetupPaths
CHECK_DEADLOCK FALSE
INVARIANTS
    NoDanglingGroup
