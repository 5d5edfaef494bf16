SPECIFICATION Spec
CONSTANTS
    Names = {a, b}
    Some = {a}
    a = a
    n = n
    MaxCalls = 2
    PageSize = 1
    MaxRing = 4
    Few = 1
    Several = 2
    MaxLinks = 3
    MaxTurns = 6
INVARIANTS TypeOK ShowsServer Bridge ActsOnShown SaveHoldsBuilder WayIn KeepsChoices
PROPERTY OneAtATime
CHECK_DEADLOCK FALSE
