---------------------------- MODULE ProjectFiles ----------------------------
(***************************************************************************)
(* The files of an org's projects, and the rows that name them.  A file    *)
(* lives in a store beside the database (storage.rs) and no transaction    *)
(* spans both: an upload writes the file and then inserts the row, a       *)
(* deletion works the other way round, and the deletion of a project       *)
(* purges files before it deletes rows.  Requests interleave at every      *)
(* await, and may be dropped there.                                        *)
(***************************************************************************)
EXTENDS Naturals, Sequences

CONSTANTS
    Projects,    \* project ids
    Drawings,    \* dxf/{project}/{id}.dxf
    Meshes,      \* surface/{project}/{id}.bin
    Heatmaps,    \* volume/{project}/{id}.bin
    Dems,        \* surface-dem/{project}/{id}.tif
    CacheOrder,  \* <<"terrain", "terrain-detailed", "buildings">>: one of a project
    Requests,
    Faults,      \* may the store fail?
    None

Caches == {CacheOrder[i] : i \in 1..Len(CacheOrder)}
Ids == Drawings \cup Meshes \cup Heatmaps \cup Dems    \* keys with a fresh UUID
Keys == Ids \cup (Projects \X Caches)

ASSUME FilesAssumption ==
    /\ CacheOrder \in Seq(STRING)
    /\ Faults \in BOOLEAN
    /\ Drawings \cap (Meshes \cup Heatmaps \cup Dems) = {}
    /\ Meshes \cap (Heatmaps \cup Dems) = {} /\ Heatmaps \cap Dems = {}
    /\ Ids \cap (Projects \X Caches) = {}
    /\ None \notin Projects /\ None \notin Keys

VARIABLES
    org,         \* does the org exist?
    projects,    \* the projects table
    created,     \* project ids ever used: a UUID does not come back
    rows,        \* the keys that a committed row names
    files,       \* the keys the store has
    home,        \* the project in the key of each UUID
    base,        \* volumes.base_surface_id and compare_surface_id
    req,         \* the request in flight, by its next await
    doomed,      \* history: projects whose files have begun to be purged
    excused      \* history: files that no purge could find or remove

vars == <<org, projects, created, rows, files, home, base, req, doomed, excused>>
table == <<org, projects, created, rows>>

Labels == {"idle", "put", "reput", "insert", "mesh", "row", "file", "import",
           "purge_project", "purge_org"}
Request == [at : Labels, key : Keys \cup {None}, targets : SUBSET Projects,
            left : SUBSET Projects, now : Projects \cup {None},
            step : 0..Len(CacheOrder)]
Idle == [at |-> "idle", key |-> None, targets |-> {}, left |-> {}, now |-> None,
         step |-> 0]

TypeOK ==
    /\ org \in BOOLEAN
    /\ projects \subseteq Projects /\ created \subseteq Projects
    /\ rows \subseteq Keys /\ files \subseteq Keys /\ excused \subseteq Keys
    /\ home \in [Ids -> Projects \cup {None}]
    /\ base \in [Heatmaps -> SUBSET Meshes]
    /\ req \in [Requests -> Request]
    /\ doomed \subseteq Projects

Init ==
    /\ org = TRUE
    /\ projects = {} /\ created = {} /\ rows = {} /\ files = {}
    /\ home = [k \in Ids |-> None]
    /\ base = [h \in Heatmaps |-> {}]
    /\ req = [r \in Requests |-> Idle]
    /\ doomed = {} /\ excused = {}

Home(k) == IF k \in Ids THEN home[k] ELSE k[1]
Fresh(k) == home[k] = None
Of(p) == {k \in Keys : Home(k) = p}
\* Rows that go with surface or volume k (ON DELETE CASCADE of volumes).
Cascade(k) == {k} \cup {h \in Heatmaps : k \in base[h]}

Is(r, label) == req[r].at = label
Go(r, label) == req' = [req EXCEPT ![r].at = label]
Done(r) == req' = [req EXCEPT ![r] = Idle]
Hold(r, label, k) ==
    /\ Is(r, "idle")
    /\ req' = [req EXCEPT ![r] = [Idle EXCEPT !.at = label, !.key = k]]

\* A deletion is under way that drops p, or may drop it unlisted.
Deleting(p) ==
    \E r \in Requests : Is(r, "purge_org") \/ (Is(r, "purge_project") /\ p \in req[r].targets)
Excuse(k) ==
    excused' = IF Deleting(Home(k)) \/ Home(k) \in doomed \ projects
               THEN excused \cup {k} ELSE excused

-----------------------------------------------------------------------------
(* Uploads: the file first, then the row. *)

CreateProject(p) ==
    /\ org /\ p \notin created
    /\ projects' = projects \cup {p} /\ created' = created \cup {p}
    /\ UNCHANGED <<org, rows, files, home, base, req, doomed, excused>>

\* upload_dxf, build_surface and build_dem_surface up to the store.
Upload(r, p, k) ==
    /\ p \in projects /\ Fresh(k)
    /\ Hold(r, "put", k)
    /\ home' = [home EXCEPT ![k] = p]
    /\ UNCHANGED <<table, files, base, doomed, excused>>

\* compute_volume: its one or two surfaces have been read, row and file.
ComputeVolume(r, h, m, n) ==
    /\ {m, n} \subseteq rows \cap files /\ home[m] = home[n] /\ Fresh(h)
    /\ Hold(r, "put", h)
    /\ home' = [home EXCEPT ![h] = home[m]]
    /\ base' = [base EXCEPT ![h] = {m, n}]
    /\ UNCHANGED <<table, files, doomed, excused>>

\* refresh_terrain and its siblings, past the cooldown.
Refresh(r, p, c) ==
    /\ p \in projects
    /\ Hold(r, "put", <<p, c>>)
    /\ UNCHANGED <<table, files, home, base, doomed, excused>>

\* rebuild_surface writes under the key of the row it has read.
Rebuild(r, m) ==
    /\ m \in rows
    /\ Hold(r, "reput", m)
    /\ UNCHANGED <<table, files, home, base, doomed, excused>>

\* storage.put.  What rebuild_surface does to its row after it, Surfaces tells.
Put(r) ==
    /\ Is(r, "put") \/ Is(r, "reput")
    /\ files' = files \cup {req[r].key}
    /\ Excuse(req[r].key)
    /\ IF Is(r, "put") THEN Go(r, "insert") ELSE Done(r)
    /\ UNCHANGED <<table, home, base, doomed>>

\* The foreign keys of the row for k: its project, and a volume's surfaces.
ForeignKeys(k) == Home(k) \in projects /\ (k \in Heatmaps => base[k] \subseteq rows)

\* INSERT, or its refusal.
Insert(r) ==
    /\ Is(r, "insert")
    /\ \/ /\ ForeignKeys(req[r].key)
          /\ rows' = rows \cup {req[r].key}
          /\ IF req[r].key \in Dems THEN Go(r, "mesh") ELSE Done(r)
       \/ ~ForeignKeys(req[r].key) /\ UNCHANGED rows /\ Done(r)
    /\ UNCHANGED <<org, projects, created, files, home, base, doomed, excused>>

\* build_dem_surface goes on to the mesh of the raster it has stored.
BuildDemMesh(r, m) ==
    /\ Is(r, "mesh") /\ Fresh(m)
    /\ home' = [home EXCEPT ![m] = home[req[r].key]]
    /\ req' = [req EXCEPT ![r].at = "put", ![r].key = m]
    /\ UNCHANGED <<table, files, base, doomed, excused>>

\* import_project: a transaction, with the drawings written from inside it.
ImportProject(r, p) ==
    /\ org /\ p \notin created /\ Is(r, "idle")
    /\ created' = created \cup {p}
    /\ req' = [req EXCEPT ![r] = [Idle EXCEPT !.at = "import", !.targets = {p}]]
    /\ UNCHANGED <<org, projects, rows, files, home, base, doomed, excused>>

ImportDrawing(r, d) ==
    /\ Is(r, "import") /\ Fresh(d)
    /\ \E p \in req[r].targets : home' = [home EXCEPT ![d] = p]
    /\ files' = files \cup {d}
    /\ UNCHANGED <<table, base, req, doomed, excused>>

ImportCommit(r) ==
    /\ Is(r, "import")
    /\ projects' = projects \cup req[r].targets
    /\ rows' = rows \cup {d \in Drawings : home[d] \in req[r].targets}
    /\ Done(r)
    /\ UNCHANGED <<org, created, files, home, base, doomed, excused>>

-----------------------------------------------------------------------------
(* Deletions of one file: the row first, then the file. *)

FileFirst(r, d) ==    \* mutant of DeleteOverlay: the file, and then the row
    /\ d \in rows
    /\ Hold(r, "row", d)
    /\ files' = files \ {d}
    /\ UNCHANGED <<table, home, base, doomed, excused>>
\* delete_cad_overlay reads the key, ...
DeleteOverlay(r, d) ==
    /\ d \in rows
    /\ Hold(r, "row", d)
    /\ UNCHANGED <<table, files, home, base, doomed, excused>>

\* ... deletes the row, if it is still there, ...
DeleteOverlayRow(r) ==
    /\ Is(r, "row")
    /\ rows' = rows \ {req[r].key}
    /\ Go(r, "file")
    /\ UNCHANGED <<org, projects, created, files, home, base, doomed, excused>>

\* delete_surface and delete_volume: DELETE ... RETURNING the key, ...
DeleteSurface(r, k) ==
    /\ k \in rows
    /\ Hold(r, "file", k)
    /\ rows' = rows \ Cascade(k)
    /\ UNCHANGED <<org, projects, created, files, home, base, doomed, excused>>

\* ... and the file, ignoring errors.
DeleteFile(r) ==
    /\ Is(r, "file")
    /\ files' = files \ {req[r].key} \/ (Faults /\ UNCHANGED files)
    /\ Done(r)
    /\ UNCHANGED <<table, home, base, doomed, excused>>

-----------------------------------------------------------------------------
(* Deletion of a project, or of the org: purge, then drop the rows. *)

StartPurge(r, label, ps) ==
    /\ Is(r, "idle")
    /\ req' = [req EXCEPT ![r] =
                 [Idle EXCEPT !.at = label, !.targets = ps, !.left = ps]]
    /\ doomed' = doomed \cup ps

RowFirst(r, p) ==    \* mutant of DeleteProject: the rows go before the files
    /\ p \in projects
    /\ StartPurge(r, "purge_project", {p})
    /\ projects' = projects \ {p} /\ rows' = rows \ Of(p)
    /\ UNCHANGED <<org, created, files, home, base, excused>>
DeleteProject(r, p) ==
    /\ p \in projects
    /\ StartPurge(r, "purge_project", {p})
    /\ UNCHANGED <<table, files, home, base, excused>>

DeleteOrganization(r) ==
    /\ org
    /\ StartPurge(r, "purge_org", projects)
    /\ UNCHANGED <<table, files, home, base, excused>>

\* What purge_project_files removes at each of its steps.
PurgeSet(p, i) ==
    IF i = 0 THEN {d \in Drawings : home[d] = p} ELSE {<<p, CacheOrder[i]>>}

Current(r) == IF req[r].now = None THEN req[r].left ELSE {req[r].now}

PurgeOn(r) ==    \* mutant of Purge: does not reset the step for the next project
    /\ Is(r, "purge_project") \/ Is(r, "purge_org")
    /\ \E p \in Current(r) :
         /\ files' = files \ PurgeSet(p, req[r].step)
         /\ req' = [req EXCEPT ![r].now = p, ![r].left = @ \ {p}, ![r].step = @ + 1]
    /\ UNCHANGED <<table, home, base, doomed, excused>>
\* One step of purge_project_files, for one project after the other; failures are
\* logged and passed over.
Purge(r) ==
    /\ Is(r, "purge_project") \/ Is(r, "purge_org")
    /\ \E p \in Current(r) :
         LET set == PurgeSet(p, req[r].step)
             last == req[r].step = Len(CacheOrder)
         IN  /\ \/ files' = files \ set /\ UNCHANGED excused
                \/ Faults /\ UNCHANGED files /\ excused' = excused \cup (files \cap set)
             /\ req' = [req EXCEPT ![r].now = IF last THEN None ELSE p,
                                   ![r].left = @ \ {p},
                                   ![r].step = IF last THEN 0 ELSE @ + 1]
    /\ UNCHANGED <<table, home, base, doomed>>

\* DELETE FROM projects, which cascades to every row of the project.
DropProject(r) ==
    /\ Is(r, "purge_project") /\ Current(r) = {}
    /\ projects' = projects \ req[r].targets
    /\ rows' = {k \in rows : Home(k) \notin req[r].targets}
    /\ Done(r)
    /\ UNCHANGED <<org, created, files, home, base, doomed, excused>>

\* DELETE FROM orgs cascades to all projects, listed or not; it waits for an import
\* that holds a key lock on the org.
DropOrganization(r) ==
    /\ Is(r, "purge_org") /\ Current(r) = {}
    /\ \A q \in Requests : ~Is(q, "import")
    /\ org' = FALSE /\ projects' = {} /\ rows' = {}
    /\ excused' = excused \cup {k \in files : Home(k) \notin req[r].targets}
    /\ Done(r)
    /\ UNCHANGED <<created, files, home, base, doomed>>

\* The handler is dropped, or an error ends it; an open transaction rolls back.
Abort(r) ==
    /\ ~Is(r, "idle") /\ Done(r)
    /\ UNCHANGED <<table, files, home, base, doomed, excused>>

-----------------------------------------------------------------------------

Store(r) ==
    \/ \E p \in Projects, k \in Drawings \cup Meshes \cup Dems : Upload(r, p, k)
    \/ \E h \in Heatmaps, m, n \in Meshes : ComputeVolume(r, h, m, n)
    \/ \E p \in Projects, c \in Caches : Refresh(r, p, c)
    \/ \E m \in Meshes : Rebuild(r, m) \/ BuildDemMesh(r, m)
    \/ Put(r) \/ Insert(r)
    \/ \E p \in Projects : ImportProject(r, p)
    \/ \E d \in Drawings : ImportDrawing(r, d)
    \/ ImportCommit(r)
Remove(r) ==
    \/ \E d \in Drawings : DeleteOverlay(r, d)
    \/ DeleteOverlayRow(r)
    \/ \E k \in Meshes \cup Heatmaps : DeleteSurface(r, k)
    \/ DeleteFile(r)
    \/ \E p \in Projects : DeleteProject(r, p)
    \/ DeleteOrganization(r)
    \/ Purge(r) \/ DropProject(r) \/ DropOrganization(r)
Next ==
    \/ \E p \in Projects : CreateProject(p)
    \/ \E r \in Requests : Store(r) \/ Remove(r) \/ Abort(r)

Spec == Init /\ [][Next]_vars

-----------------------------------------------------------------------------

\* No row names a missing file, whatever is dropped or overlaps: uploads write the
\* file before the row and deletions work backwards.  The exception is a project
\* whose deletion began and was dropped before its rows went.
RowHasFile == \A k \in rows : k \in files \/ Home(k) \in doomed

\* A project that was purged and dropped has no drawing and no cached file left,
\* not even those that dropped uploads and imports had left without a row; but
\* for files that the store would not remove, that were written while the project
\* was being deleted or later, or that came too late for the list of projects that
\* delete_organization purges.
Swept ==
    \A k \in files \ (Meshes \cup Heatmaps \cup Dems) :
        Home(k) \in doomed \ projects => k \in excused

\* "Nothing is left behind" (projects.rs).
NothingLeft == \A k \in files : Home(k) \notin doomed \ projects
=============================================================================
