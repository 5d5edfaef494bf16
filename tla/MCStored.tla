------------------------------ MODULE MCStored ------------------------------
(* What the server stores beside its tables, for TLC, one view at a time:    *)
(* the files with the rows that name them, or the surfaces with the meshes   *)
(* under their keys.  The other view stays at its initial state.             *)
EXTENDS ProjectFiles, TLC

CONSTANTS SurfaceIds, VolumeIds, SurfaceRequests, MaxPuts

VARIABLES surfaces, puts, meshRows, mesh, volumes, used, meshReq, named

surfaceVars == <<puts, meshRows, mesh, volumes, used, meshReq, named>>

S == INSTANCE Surfaces WITH
    Surfaces <- SurfaceIds, Volumes <- VolumeIds, Requests <- SurfaceRequests,
    rows <- meshRows, req <- meshReq

ASSUME StoredAssumption == S!SurfacesAssumption

StoredInit == surfaces \in BOOLEAN /\ Init /\ S!Init

StoredNext ==
    /\ UNCHANGED surfaces
    /\ \/ ~surfaces /\ Next /\ UNCHANGED surfaceVars
       \/ surfaces /\ S!Next /\ UNCHANGED vars

StoredSpec == StoredInit /\ [][StoredNext]_<<surfaces, vars, surfaceVars>>

StoredTypeOK == TypeOK /\ S!TypeOK
RowHasMesh == S!RowHasMesh
NeverOlder == S!NeverOlder

OneCache == <<"terrain">>
Symmetry == Permutations(Projects) \cup Permutations(Drawings) \cup Permutations(Requests)
            \cup Permutations(SurfaceRequests)
=============================================================================
