SPECIFICATION LiveSpec
CONSTANTS
    Clients = {c1}
    Mutations = {m1, m2}
    Silent = {m2}
    Loads = {l1, l2}
    Cap = 1
    Retries = 1
    Crashes = TRUE
    MaxScene = 4
    Fades = {f}
    Culled = {c}
    Lines = {l}
    Labels = {b}
    Pins = {p}
    MaxTurns = 4
INVARIANTS LiveTypeOK Heard Shown FollowsLast
PROPERTIES IsDirtyBit NeverBehindAsk EventuallyShown MarksSettle FramesSettle
