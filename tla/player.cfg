SPECIFICATION MCSpec
CHECK_DEADLOCK FALSE
CONSTANTS
    Url = {a, b}
    NoUrl = none
    Verifies = 1
    TimerId = {1,2,3}
    MaxEvents = 4
INVARIANTS OneThreadOfDoubt GlassRight HealNeverDroppedLong
PROPERTY WallConverges
