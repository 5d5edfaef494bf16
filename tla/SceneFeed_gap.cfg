SPECIFICATION Spec
CONSTANTS
    Clients = {c1}
    Mutations = {m1}
    Silent = {}
    Loads = {l1}
    Cap = 2
    Retries = 1
    Crashes = FALSE
    MaxScene = 3
INVARIANT QuietIsCurrent
