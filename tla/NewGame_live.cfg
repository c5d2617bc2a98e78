SPECIFICATION FairSpec
CONSTANTS
    d1 = d1
    d2 = d2
    a = a
    b = b
    c = c
    u1 = u1
    u2 = u2
    null = null
    NoDoc = NoDoc
    Devices = {d1, d2}
    Flaky = {d1, d2}
    Users = {u1, u2}
    Session <- EndedSession
    Pages = {a, b, c}
    Host <- HostOfPages
    DebugBuild = TRUE
    MayDie = {d1, d2}
    GameIds = {1, 2, 3}
    Draws <- SameDraws
    Drafts = {"empty"}
    EmptyDraft = "empty"
    Paths <- AllPaths
    Seed <- OneGame
    Overlap = FALSE
    MaxPresses <- OncePerPage
CHECK_DEADLOCK FALSE
INVARIANTS
    NoNullUser
PROPERTIES
    StartSettles
