------------------------------ MODULE Surfaces ------------------------------
(***************************************************************************)
(* Surfaces, the meshes stored for them, and the volumes computed from     *)
(* those.  A row has a version and the inputs of its last build; the mesh  *)
(* lies in the store under a key that every rebuild writes again.  So a    *)
(* rebuild is two writes, and computing a volume is two reads per surface, *)
(* with other requests in between.                                         *)
(***************************************************************************)
EXTENDS Naturals, Sequences

CONSTANTS
    Surfaces, Volumes,    \* their UUIDs: none is used twice
    Requests,
    MaxPuts,              \* bound: meshes ever stored
    None

\* What is assumed of the constants.
SurfacesAssumption ==
    MaxPuts \in Nat /\ None \notin Surfaces /\ None \notin Volumes

Roles == {"base", "compare"}

VARIABLES
    puts,        \* meshes stored so far: a mesh is known by its number
    rows,        \* surfaces: the version, and the mesh that the inputs describe
    mesh,        \* the store: the mesh under the key of each surface, 0 if none
    volumes,     \* the volumes table: what each volume was computed from
    used,        \* UUIDs of surfaces and volumes ever handed out
    req,         \* the request in flight, by its next await
    named        \* history: the mesh that each version of a surface named

vars == <<puts, rows, mesh, volumes, used, req, named>>

NoRow == [version |-> 0, mesh |-> 0]
Row == [version : Nat, mesh : Nat]
\* What a volume used in one role; version 0 if the role is empty.
Use == [surface : Surfaces \cup {None}, version : Nat, mesh : Nat]
Unused == [surface |-> None, version |-> 0, mesh |-> 0]
Sides == [Roles -> Use]
NoVolume == [role \in Roles |-> Unused]

Labels == {"idle", "put", "insert", "reput", "update", "delete", "row", "get", "volume"}
Request == [at : Labels, surface : Surfaces \cup {None}, mesh : Nat,
            role : Roles, sides : Sides]
Idle == [at |-> "idle", surface |-> None, mesh |-> 0, role |-> "base", sides |-> NoVolume]

TypeOK ==
    /\ puts \in 0..MaxPuts
    /\ rows \in [Surfaces -> Row]
    /\ mesh \in [Surfaces -> Nat]
    /\ volumes \in [Volumes -> Sides]
    /\ used \subseteq Surfaces \cup Volumes
    /\ req \in [Requests -> Request]
    /\ named \in [Surfaces -> Seq(Nat)]

Init ==
    /\ puts = 0
    /\ rows = [s \in Surfaces |-> NoRow]
    /\ mesh = [s \in Surfaces |-> 0]
    /\ volumes = [v \in Volumes |-> NoVolume]
    /\ used = {}
    /\ req = [r \in Requests |-> Idle]
    /\ named = [s \in Surfaces |-> <<>>]

Is(r, label) == req[r].at = label
Become(r, q) == req' = [req EXCEPT ![r] = q]
Done(r) == Become(r, Idle)
Exists(s) == rows[s].version > 0

-----------------------------------------------------------------------------
(* Building and rebuilding: the mesh, then the row. *)

\* build_surface, build_surface_from_points and build_dem_surface.
BuildSurface(r, s) ==
    /\ Is(r, "idle") /\ s \notin used
    /\ used' = used \cup {s}
    /\ Become(r, [Idle EXCEPT !.at = "put", !.surface = s])
    /\ UNCHANGED <<puts, rows, mesh, volumes, named>>

\* rebuild_surface finds the row and triangulates.
RebuildSurface(r, s) ==
    /\ Is(r, "idle") /\ Exists(s)
    /\ Become(r, [Idle EXCEPT !.at = "reput", !.surface = s])
    /\ UNCHANGED <<puts, rows, mesh, volumes, used, named>>

\* storage.put of the new mesh, over the one that was there.
PutMesh(r) ==
    /\ Is(r, "put") \/ Is(r, "reput")
    /\ puts < MaxPuts
    /\ puts' = puts + 1
    /\ mesh' = [mesh EXCEPT ![req[r].surface] = puts']
    /\ Become(r, [req[r] EXCEPT !.at = IF Is(r, "put") THEN "insert" ELSE "update",
                                !.mesh = puts'])
    /\ UNCHANGED <<rows, volumes, used, named>>

\* INSERT INTO surfaces, as version 1.
InsertSurface(r) ==
    /\ Is(r, "insert")
    /\ rows' = [rows EXCEPT ![req[r].surface] = [version |-> 1, mesh |-> req[r].mesh]]
    /\ named' = [named EXCEPT ![req[r].surface] = <<req[r].mesh>>]
    /\ Done(r)
    /\ UNCHANGED <<puts, mesh, volumes, used>>

\* UPDATE surfaces SET version = version + 1, inputs = ...; no row is an error.
UpdateSurface(r) ==
    /\ Is(r, "update")
    /\ LET s == req[r].surface
       IN  IF Exists(s)
           THEN /\ rows' = [rows EXCEPT ![s] = [version |-> @.version + 1,
                                                mesh |-> req[r].mesh]]
                /\ named' = [named EXCEPT ![s] = Append(@, req[r].mesh)]
           ELSE UNCHANGED <<rows, named>>
    /\ Done(r)
    /\ UNCHANGED <<puts, mesh, volumes, used>>

FileFirst(r, s) ==    \* mutant of DeleteSurface: the mesh goes before the row
    /\ Is(r, "idle") /\ Exists(s)
    /\ mesh' = [mesh EXCEPT ![s] = 0]
    /\ Become(r, [Idle EXCEPT !.at = "delete", !.surface = s])
    /\ UNCHANGED <<puts, rows, volumes, used, named>>
\* delete_surface deletes the row, and with it the volumes that used it, ...
DeleteSurface(r, s) ==
    /\ Is(r, "idle") /\ Exists(s)
    /\ rows' = [rows EXCEPT ![s] = NoRow]
    /\ volumes' = [v \in Volumes |->
                     IF \E role \in Roles : volumes[v][role].surface = s
                     THEN NoVolume ELSE volumes[v]]
    /\ Become(r, [Idle EXCEPT !.at = "delete", !.surface = s])
    /\ UNCHANGED <<puts, mesh, used, named>>

\* ... and then the mesh.
DeleteMesh(r) ==
    /\ Is(r, "delete")
    /\ mesh' = [mesh EXCEPT ![req[r].surface] = 0]
    /\ Done(r)
    /\ UNCHANGED <<puts, rows, volumes, used, named>>

-----------------------------------------------------------------------------
(* Volumes: for the base and then the compare surface, the row and the mesh. *)

\* compute_volume, of surface to elevation (c = None) or surface to surface.
ComputeVolume(r, b, c) ==
    /\ Is(r, "idle")
    /\ Become(r, [Idle EXCEPT !.at = "row",
                    !.sides = [base |-> [Unused EXCEPT !.surface = b],
                               compare |-> [Unused EXCEPT !.surface = c]]])
    /\ UNCHANGED <<puts, rows, mesh, volumes, used, named>>

\* load_surface_for_volume: the version, to be stored with the volume.
LoadSurface(r) ==
    /\ Is(r, "row")
    /\ LET s == req[r].sides[req[r].role].surface
       IN  IF Exists(s)
           THEN Become(r, [req[r] EXCEPT !.at = "get",
                             !.sides[req[r].role].version = rows[s].version])
           ELSE Done(r)
    /\ UNCHANGED <<puts, rows, mesh, volumes, used, named>>

\* storage.get: the mesh that is there by now; none is an error.
GetMesh(r) ==
    /\ Is(r, "get")
    /\ LET s == req[r].sides[req[r].role].surface
           more == req[r].role = "base" /\ req[r].sides["compare"].surface # None
       IN  IF mesh[s] # 0
           THEN Become(r, [req[r] EXCEPT !.at = IF more THEN "row" ELSE "volume",
                             !.role = IF more THEN "compare" ELSE @,
                             !.sides[req[r].role].mesh = mesh[s]])
           ELSE Done(r)
    /\ UNCHANGED <<puts, rows, mesh, volumes, used, named>>

VersionLate(r, v) ==    \* mutant of InsertVolume: takes the version of that moment
    /\ Is(r, "volume") /\ v \notin used
    /\ \A role \in Roles :
         LET s == req[r].sides[role].surface IN s # None => Exists(s)
    /\ volumes' = [volumes EXCEPT ![v] =
         [role \in Roles |->
            LET use == req[r].sides[role]
            IN  IF use.surface = None THEN use
                ELSE [use EXCEPT !.version = rows[use.surface].version]]]
    /\ used' = used \cup {v}
    /\ Done(r)
    /\ UNCHANGED <<puts, rows, mesh, named>>
\* INSERT INTO volumes, unless a foreign key fails.
InsertVolume(r, v) ==
    /\ Is(r, "volume") /\ v \notin used
    /\ \A role \in Roles :
         LET s == req[r].sides[role].surface IN s # None => Exists(s)
    /\ volumes' = [volumes EXCEPT ![v] = req[r].sides]
    /\ used' = used \cup {v}
    /\ Done(r)
    /\ UNCHANGED <<puts, rows, mesh, named>>

DeleteVolume(v) ==
    /\ volumes[v] # NoVolume
    /\ volumes' = [volumes EXCEPT ![v] = NoVolume]
    /\ UNCHANGED <<puts, rows, mesh, used, req, named>>

\* The handler is dropped, or a statement fails.
Abort(r) ==
    /\ ~Is(r, "idle") /\ Done(r)
    /\ UNCHANGED <<puts, rows, mesh, volumes, used, named>>

-----------------------------------------------------------------------------

Build(r) ==
    \/ \E s \in Surfaces :
         BuildSurface(r, s) \/ RebuildSurface(r, s) \/ DeleteSurface(r, s)
    \/ PutMesh(r) \/ InsertSurface(r) \/ UpdateSurface(r) \/ DeleteMesh(r)
Compute(r) ==
    \/ \E b \in Surfaces, c \in Surfaces \cup {None} : ComputeVolume(r, b, c)
    \/ LoadSurface(r) \/ GetMesh(r)
    \/ \E v \in Volumes : InsertVolume(r, v)
Next ==
    \/ \E r \in Requests : Build(r) \/ Compute(r) \/ Abort(r)
    \/ \E v \in Volumes : DeleteVolume(v)

Spec == Init /\ [][Next]_vars

-----------------------------------------------------------------------------

\* A surface in the table has a mesh, and one no older than its inputs: an update
\* is never committed ahead of its mesh, and no deletion takes a live mesh.
RowHasMesh == \A s \in Surfaces : Exists(s) => mesh[s] >= rows[s].mesh /\ mesh[s] > 0

\* A volume was never computed from an older mesh than the one that its recorded
\* version names, however many rebuilds overlapped it or were dropped.
NeverOlder ==
    \A v \in Volumes, role \in Roles :
        LET use == volumes[v][role]
        IN  use.surface # None =>
              /\ use.version \in DOMAIN named[use.surface]
              /\ use.mesh >= named[use.surface][use.version]

\* "inputs snapshots exactly what built this version" (0016_surface_modeling.sql):
\* once nothing runs, the stored mesh is the one the row describes.
InputsBuiltMesh ==
    (\A r \in Requests : Is(r, "idle")) =>
        \A s \in Surfaces : Exists(s) => mesh[s] = rows[s].mesh
=============================================================================
