SPECIFICATION Spec
CHECK_DEADLOCK FALSE
CONSTANTS
    Screen = {1}
    Source = {a, b}
    NoSource = none
    Op = {1, 2}
    Slot = {1, 2}
    MaxEdits = 1
    MaxTroubles = 1
    MaxVerdicts = 1
INVARIANT Restated
