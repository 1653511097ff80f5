SPECIFICATION MCSpec
CHECK_DEADLOCK FALSE
CONSTANTS
    Version = {1, 2, 3}
    Image = 1
    MaxUnstableBoots = 2
    MaxTroubles = 4
    MaxBuilds = 3
    Retain = 2
    MaxAsks = 2
    MaxCrashes = 1
INVARIANTS UpdateGuarded DepotKept
PROPERTIES NoRetreat BadGoes GoodComes BuildsPinned RowHonest
