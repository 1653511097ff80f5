CHECK_DEADLOCK FALSE
SPECIFICATION MCSpec
CONSTANTS
    Machine = {b1}
    Token = {t1}
    None = none
    b1 = b1
    t1 = t1
    Sockets = 2
    Cap = 1
    MaxLosses = 1
    MaxRemovals = 1
    Operators = 1
INVARIANTS Registers SessionsTrue CountsSockets
PROPERTIES RejectedStays GetsBackIn
