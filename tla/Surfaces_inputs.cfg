SPECIFICATION Spec
CONSTANTS
    Surfaces = {s1}
    Volumes = {v1}
    Requests = {r1, r2}
    MaxPuts = 3
    None = None
INVARIANT InputsBuiltMesh
SYMMETRY Symmetry
CHECK_DEADLOCK FALSE
