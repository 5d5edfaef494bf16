SPECIFICATION Spec
CONSTANTS
    Projects = {p1}
    Drawings = {d1}
    Meshes = {m1}
    Heatmaps = {h1}
    Dems = {g1}
    CacheOrder <- OneCache
    Requests = {r1}
    Faults = FALSE
    None = None
INVARIANT NothingLeft
CHECK_DEADLOCK FALSE
