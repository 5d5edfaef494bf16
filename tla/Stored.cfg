SPECIFICATION StoredSpec
CONSTANTS
    Projects = {p1}
    Drawings = {d1}
    Meshes = {m1}
    Heatmaps = {h1}
    Dems = {g1}
    CacheOrder <- OneCache
    Requests = {r1, r2}
    Faults = TRUE
    SurfaceIds = {s1}
    VolumeIds = {v1}
    SurfaceRequests = {q1, q2, q3}
    MaxPuts = 3
    None = None
INVARIANTS StoredTypeOK RowHasFile Swept RowHasMesh NeverOlder
SYMMETRY Symmetry
CHECK_DEADLOCK FALSE
