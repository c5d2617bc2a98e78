SPECIFICATION FairSpec
CONSTANTS
    k1 = k1
    Keys = {k1}
    Bad = {2}
    MaxPending = 2
    MaxWrites = 3
    MaxOthers = 1
    MaxFaults = 2
INVARIANTS
    TypeOK
    ResponsesMatch
    NothingLost
    IdsIncrease
    HeldIsReleased
    IdleHasNoWork
PROPERTIES
    NeverBackwards
    ImplementsWriteOrder
    WritesSettle
