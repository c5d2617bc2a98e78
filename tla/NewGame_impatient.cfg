SPECIFICATION Spec
CONSTANTS
    d1 = d1
    d2 = d2
    a = a
    b = b
    c = c
    u1 = u1
    u2 = u2
    null = null
    NoDoc = NoDoc
    Devices = {d1, d2}
    Flaky = {d2}
    Users = {u1, u2}
    Session <- OneAccount
    Pages = {a, c}
    Host <- HostOfPages
    DebugBuild = FALSE
    MayDie = {d1, d2}
    GameIds = {1, 2, 3}
    Draws <- ApartDraws
    Drafts = {"empty", "filled"}
    EmptyDraft = "empty"
    Paths <- AllPaths
    Seed <- OneGame
    Overlap = TRUE
    MaxPresses <- TwiceOnC
CHECK_DEADLOCK FALSE
INVARIANTS
    CopiesAgree
    ShelfNeedsGame
