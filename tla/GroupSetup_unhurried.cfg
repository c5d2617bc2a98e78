SPECIFICATION FairSpec
CONSTANTS
    d1 = d1
    d2 = d2
    p1 = p1
    p2 = p2
    f1 = f1
    f2 = f2
    f3 = f3
    u1 = u1
    u2 = u2
    null = null
    NoDoc = NoDoc
    Devices = {d1}
    Flaky = {d1}
    Users = {u1}
    Session <- OneAccount
    GroupPages = {p1}
    FriendsPages = {f1, f2}
    Pages = {p1, f1, f2}
    Host <- HostOfPages
    Below <- BelowOfPages
    DebugBuild = TRUE
    MayDie = {}
    GroupIds = {g1, g2}
    GroupTypes = {"public"}
    GroupTexts = {"unnamed"}
    MaxCreates = 2
    MaxTouches <- OnceOnF2
    Unhurried = TRUE
    Paths <- SetupPaths
CHECK_DEADLOCK FALSE
INVARIANTS
    StatusIsCurrent
PROPERTIES
    CreateSettles
