SPECIFICATION MCSpec
CHECK_DEADLOCK FALSE
CONSTANTS
    Screen = {1, 2}
    Source = {a, b}
    NoSource = none
    Op = {1, 2}
    Slot = {1, 2}
    MaxEdits = 4
    MaxTroubles = 2
    MaxVerdicts = 2
INVARIANTS RecordSound WrittenThrough SettledRight
PROPERTY WallFollows
