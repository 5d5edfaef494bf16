SPECIFICATION LimitersSpec
CONSTANTS
    Calls = {c1, c2, c3, c4, c5}
    Max = 2
    Window = 3
    MaxTime = 6
    RedisMax = 1
    RedisWindow = 2
    RedisMaxTime = 5
    Outages = TRUE
INVARIANT NeverLockedOut
SYMMETRY Symmetry
CHECK_DEADLOCK FALSE
