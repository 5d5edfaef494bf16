---------------------------- MODULE Stored_proofs ----------------------------
(***************************************************************************)
(* The theorems of ProjectFiles, for any number of projects, keys and      *)
(* requests and any list of caches, and those of the two views of MCStored *)
(* side by side: a step of one leaves the other alone, so each behaves as  *)
(* its own specification says, and what is proved of files and of surfaces *)
(* holds of both together.                                                 *)
(***************************************************************************)
EXTENDS MCStored, TLAPS

-----------------------------------------------------------------------------
(* Project files.                                                          *)

Purging(r) == Is(r, "purge_project") \/ Is(r, "purge_org")
Uploading(r) == Is(r, "put") \/ Is(r, "insert")
Sweepable == Drawings \cup (Projects \X Caches)

\* The step a request is at tells what key it carries.
Keyed ==
    \A r \in Requests :
        /\ Uploading(r) => req[r].key \in Keys
        /\ Is(r, "row") \/ Is(r, "file") \/ Is(r, "reput") => req[r].key \in Ids
        /\ Is(r, "mesh") => req[r].key \in Dems

\* What is named anywhere belongs to a project that has existed; a committed row
\* belongs to one that still does.
Belonging ==
    /\ projects \cup doomed \subseteq created
    /\ \A k \in rows : Home(k) \in projects
    /\ \A k \in Ids : home[k] \in created \cup {None}
    /\ \A k \in files \cap Ids : home[k] # None
    /\ \A r \in Requests : req[r].key # None => Home(req[r].key) \in created

\* A key on its way to its first row has its file and is in no other hands; a file
\* about to be removed has no row.
HasFile(r) == Is(r, "insert") => req[r].key \in files \/ Home(req[r].key) \in doomed
Owns(r) ==
    Uploading(r) /\ req[r].key \in Ids =>
        /\ req[r].key \notin rows
        /\ \A q \in Requests \ {r} : req[q].key # req[r].key
Unlisted(r) == Is(r, "file") => req[r].key \notin rows
Handled == \A r \in Requests : HasFile(r) /\ Owns(r) /\ Unlisted(r)

\* Nobody else has to do with a project that is being imported.
Importing ==
    \A r \in Requests : Is(r, "import") =>
        /\ req[r].targets \subseteq created \ (projects \cup doomed)
        /\ \A k \in Ids : home[k] \in req[r].targets => k \in files
        /\ \A q \in Requests : req[q].key # None => Home(req[q].key) \notin req[r].targets
        /\ \A q \in Requests \ {r} :
             Is(q, "import") => req[q].targets \cap req[r].targets = {}

\* A purge has still to come to every file of its projects that it is to remove,
\* unless the file is excused.
Comes(r, k) ==
    \/ Home(k) \in req[r].left
    \/ /\ Home(k) = req[r].now
       /\ \E i \in req[r].step..Len(CacheOrder) : k \in PurgeSet(Home(k), i)
SweepOf(r) ==
    /\ req[r].targets \subseteq doomed
    /\ req[r].left \subseteq req[r].targets
    /\ req[r].now \in req[r].targets \cup {None}
    /\ req[r].now \notin req[r].left
    /\ req[r].now = None => req[r].step = 0
    /\ \A k \in files \cap Sweepable :
         Home(k) \in req[r].targets => k \in excused \/ Comes(r, k)
Sweeping == \A r \in Requests : Purging(r) => SweepOf(r)

FilesInv ==
    /\ TypeOK /\ Keyed /\ Belonging /\ Handled /\ Importing /\ Sweeping
    /\ RowHasFile /\ Swept

-----------------------------------------------------------------------------
(* Types. *)

TypeInv == TypeOK /\ Keyed

LEMMA Steps == Len(CacheOrder) \in Nat /\ 0 \in 0..Len(CacheOrder)
BY FilesAssumption

LEMMA IdleRequest == Idle \in Request /\ Idle.at = "idle" /\ Idle.key = None
BY Steps DEF Idle, Request, Labels

LEMMA CacheKeys == \A i \in 1..Len(CacheOrder) : CacheOrder[i] \in Caches
BY DEF Caches

LEMMA KeyFacts ==
    /\ None \notin Keys /\ None \notin Ids /\ None \notin Projects
    /\ Ids \subseteq Keys
    /\ Drawings \subseteq Ids /\ Meshes \subseteq Ids
    /\ Heatmaps \subseteq Ids /\ Dems \subseteq Ids
    /\ \A p \in Projects, c \in Caches :
         /\ <<p, c>> \in Keys /\ <<p, c>> \notin Ids /\ <<p, c>>[1] = p
    /\ \A k \in Keys \ Ids : k[1] \in Projects
BY FilesAssumption DEF Ids, Keys

\* A step of one request, once its new record is known to be well formed.
LEMMA RequestStep ==
    ASSUME TypeInv, NEW r \in Requests, NEW q \in Request, req' = [req EXCEPT ![r] = q],
           q.at \in {"put", "insert"} => q.key \in Keys,
           q.at \in {"row", "file", "reput"} => q.key \in Ids,
           q.at = "mesh" => q.key \in Dems
    PROVE  Keyed' /\ (req \in [Requests -> Request])'
BY DEF TypeInv, TypeOK, Keyed, Uploading, Is

LEMMA DoneStep ==
    ASSUME TypeInv, NEW r \in Requests, Done(r)
    PROVE  Keyed' /\ (req \in [Requests -> Request])'
BY IdleRequest, RequestStep DEF Done

LEMMA HoldStep ==
    ASSUME TypeInv, NEW r \in Requests, NEW l \in {"put", "reput", "row", "file"},
           NEW k \in Keys, Hold(r, l, k), l # "put" => k \in Ids
    PROVE  Keyed' /\ (req \in [Requests -> Request])'
<1> DEFINE q == [Idle EXCEPT !.at = l, !.key = k]
<1>1. q \in Request /\ q.at = l /\ q.key = k
  BY IdleRequest DEF Idle, Request, Labels
<1>2. QED BY <1>1, RequestStep DEF Hold

LEMMA GoStep ==
    ASSUME TypeInv, NEW r \in Requests, NEW l \in Labels, Go(r, l),
           l \in {"put", "insert"} => req[r].key \in Keys,
           l \in {"row", "file", "reput"} => req[r].key \in Ids,
           l = "mesh" => req[r].key \in Dems
    PROVE  Keyed' /\ (req \in [Requests -> Request])'
<1> DEFINE q == [req[r] EXCEPT !.at = l]
<1>1. q \in Request /\ q.at = l /\ q.key = req[r].key
  BY DEF TypeInv, TypeOK, Request
<1>2. req' = [req EXCEPT ![r] = q] BY DEF Go, TypeInv, TypeOK
<1>3. QED BY <1>1, <1>2, RequestStep

LEMMA StoreTypeInv ==
    ASSUME TypeInv, NEW r \in Requests, Store(r)
    PROVE  TypeInv'
<1> USE DEF TypeInv
<1>1. ASSUME NEW p \in Projects, NEW k \in Drawings \cup Meshes \cup Dems, Upload(r, p, k)
      PROVE  TypeInv'
  <2>1. k \in Keys /\ k \in Ids BY DEF Keys, Ids
  <2>2. QED BY <1>1, <2>1, HoldStep DEF Upload, TypeOK, table
<1>2. ASSUME NEW h \in Heatmaps, NEW m \in Meshes, NEW n \in Meshes,
             ComputeVolume(r, h, m, n)
      PROVE  TypeInv'
  <2>1. h \in Keys /\ h \in Ids /\ m \in Ids BY DEF Keys, Ids
  <2>2. QED BY <1>2, <2>1, HoldStep DEF ComputeVolume, TypeOK, table
<1>3. ASSUME NEW p \in Projects, NEW c \in Caches, Refresh(r, p, c) PROVE TypeInv'
  <2>1. <<p, c>> \in Keys BY DEF Keys
  <2>2. QED BY <1>3, <2>1, HoldStep DEF Refresh, TypeOK, table
<1>4. ASSUME NEW m \in Meshes, Rebuild(r, m) PROVE TypeInv'
  <2>1. m \in Keys /\ m \in Ids BY DEF Keys, Ids
  <2>2. QED BY <1>4, <2>1, HoldStep DEF Rebuild, TypeOK, table
<1>5. ASSUME NEW m \in Meshes, BuildDemMesh(r, m) PROVE TypeInv'
  <2> DEFINE q == [req[r] EXCEPT !.at = "put", !.key = m]
  <2>1. m \in Keys /\ m \in Ids BY DEF Keys, Ids
  <2>2. q \in Request /\ q.at = "put" /\ q.key = m
    BY <2>1 DEF TypeOK, Request, Labels
  <2>3. req' = [req EXCEPT ![r] = q] BY <1>5 DEF BuildDemMesh, TypeOK
  <2>4. req[r].key \in Ids BY <1>5 DEF BuildDemMesh, Keyed, Ids
  <2>5. QED BY <1>5, <2>1, <2>2, <2>3, <2>4, RequestStep DEF BuildDemMesh, TypeOK, table
<1>6. ASSUME Put(r) PROVE TypeInv'
  <2>1. req[r].key \in Keys BY <1>6 DEF Put, Keyed, Uploading, Keys
  <2>2. Keyed' /\ (req \in [Requests -> Request])'
    BY <1>6, <2>1, GoStep, DoneStep DEF Put, Labels
  <2>3. excused' \subseteq Keys BY <1>6, <2>1 DEF Put, Excuse, TypeOK
  <2>4. QED BY <1>6, <2>1, <2>2, <2>3 DEF Put, TypeOK, table
<1>7. ASSUME Insert(r) PROVE TypeInv'
  <2>1. req[r].key \in Keys BY <1>7 DEF Insert, Keyed, Uploading
  <2>2. Keyed' /\ (req \in [Requests -> Request])'
    BY <1>7, <2>1, GoStep, DoneStep DEF Insert, Labels
  <2>3. QED BY <1>7, <2>1, <2>2 DEF Insert, TypeOK
<1>8. ASSUME NEW p \in Projects, ImportProject(r, p) PROVE TypeInv'
  <2> DEFINE q == [Idle EXCEPT !.at = "import", !.targets = {p}]
  <2>1. q \in Request /\ q.at = "import" BY IdleRequest DEF Idle, Request, Labels
  <2>2. QED BY <1>8, <2>1, RequestStep DEF ImportProject, TypeOK
<1>9. ASSUME NEW d \in Drawings, ImportDrawing(r, d) PROVE TypeInv'
  <2>1. d \in Keys /\ d \in Ids BY DEF Keys, Ids
  <2>2. req[r].targets \subseteq Projects BY DEF TypeOK, Request
  <2>3. QED BY <1>9, <2>1, <2>2 DEF ImportDrawing, TypeOK, Keyed, Uploading, Is, table
<1>10. ASSUME ImportCommit(r) PROVE TypeInv'
  <2>1. req[r].targets \subseteq Projects BY DEF TypeOK, Request
  <2>2. Drawings \subseteq Keys BY DEF Keys, Ids
  <2>3. QED BY <1>10, <2>1, <2>2, DoneStep DEF ImportCommit, TypeOK
<1>11. QED BY <1>1, <1>2, <1>3, <1>4, <1>5, <1>6, <1>7, <1>8, <1>9, <1>10 DEF Store

LEMMA RemoveTypeInv ==
    ASSUME TypeInv, NEW r \in Requests, Remove(r)
    PROVE  TypeInv'
<1> USE DEF TypeInv
<1>1. ASSUME NEW d \in Drawings, DeleteOverlay(r, d) PROVE TypeInv'
  <2>1. d \in Keys /\ d \in Ids BY DEF Keys, Ids
  <2>2. QED BY <1>1, <2>1, HoldStep DEF DeleteOverlay, TypeOK, table
<1>2. ASSUME DeleteOverlayRow(r) PROVE TypeInv'
  <2>1. req[r].key \in Ids BY <1>2 DEF DeleteOverlayRow, Keyed
  <2>2. QED BY <1>2, <2>1, GoStep DEF DeleteOverlayRow, TypeOK, Labels
<1>3. ASSUME NEW k \in Meshes \cup Heatmaps, DeleteSurface(r, k) PROVE TypeInv'
  <2>1. k \in Keys /\ k \in Ids BY DEF Keys, Ids
  <2>2. QED BY <1>3, <2>1, HoldStep DEF DeleteSurface, TypeOK
<1>4. ASSUME DeleteFile(r) PROVE TypeInv'
  BY <1>4, DoneStep DEF DeleteFile, TypeOK, table
<1>5. ASSUME NEW l \in {"purge_project", "purge_org"}, NEW ps \in SUBSET Projects,
             StartPurge(r, l, ps), UNCHANGED <<table, files, home, base, excused>>
      PROVE  TypeInv'
  <2> DEFINE q == [Idle EXCEPT !.at = l, !.targets = ps, !.left = ps]
  <2>1. q \in Request /\ q.at = l BY IdleRequest DEF Idle, Request, Labels
  <2>2. QED BY <1>5, <2>1, RequestStep DEF StartPurge, TypeOK, table
<1>6. ASSUME NEW p \in Projects, DeleteProject(r, p) PROVE TypeInv'
  BY <1>5, <1>6 DEF DeleteProject
<1>7. ASSUME DeleteOrganization(r) PROVE TypeInv'
  BY <1>5, <1>7 DEF DeleteOrganization, TypeOK
<1>8. ASSUME Purge(r) PROVE TypeInv'
  <2> DEFINE last == req[r].step = Len(CacheOrder)
  <2>1. PICK p \in Current(r) :
          /\ files' \subseteq files /\ excused' \subseteq excused \cup files
          /\ req' = [req EXCEPT ![r].now = IF last THEN None ELSE p,
                                ![r].left = @ \ {p},
                                ![r].step = IF last THEN 0 ELSE @ + 1]
    BY <1>8 DEF Purge
  <2> DEFINE q == [req[r] EXCEPT !.now = IF last THEN None ELSE p,
                                 !.left = @ \ {p},
                                 !.step = IF last THEN 0 ELSE @ + 1]
  <2>2. p \in Projects BY <2>1 DEF Current, TypeOK, Request
  <2>3. req[r] \in Request BY DEF TypeOK
  <2>4. (IF last THEN 0 ELSE req[r].step + 1) \in 0..Len(CacheOrder)
    BY <2>3, Steps DEF Request
  <2>5. q \in Request /\ q.at = req[r].at /\ q.key = req[r].key
    BY <2>2, <2>3, <2>4 DEF Request
  <2>6. req' = [req EXCEPT ![r] = q] BY <2>1 DEF TypeOK
  <2>7. Keyed' /\ (req \in [Requests -> Request])'
    BY <1>8, <2>5, <2>6, RequestStep DEF Purge, Is
  <2>8. QED BY <1>8, <2>1, <2>7 DEF Purge, TypeOK, table
<1>9. ASSUME DropProject(r) PROVE TypeInv'
  BY <1>9, DoneStep DEF DropProject, TypeOK
<1>10. ASSUME DropOrganization(r) PROVE TypeInv'
  BY <1>10, DoneStep DEF DropOrganization, TypeOK
<1>11. QED BY <1>1, <1>2, <1>3, <1>4, <1>6, <1>7, <1>8, <1>9, <1>10 DEF Remove

LEMMA NextTypeInv == TypeInv /\ [Next]_vars => TypeInv'
<1> SUFFICES ASSUME TypeInv, [Next]_vars PROVE TypeInv'
  OBVIOUS
<1> USE DEF TypeInv
<1>1. ASSUME NEW p \in Projects, CreateProject(p) PROVE TypeInv'
  BY <1>1 DEF CreateProject, TypeOK, Keyed, Uploading, Is
<1>2. ASSUME NEW r \in Requests, Abort(r) PROVE TypeInv'
  BY <1>2, DoneStep DEF Abort, TypeOK, table
<1>3. CASE UNCHANGED vars
  BY <1>3 DEF vars, TypeOK, Keyed, Uploading, Is
<1>4. QED BY <1>1, <1>2, <1>3, StoreTypeInv, RemoveTypeInv DEF Next

-----------------------------------------------------------------------------
(* Safety: every step keeps every part of the invariant. *)

Safe == Belonging /\ Handled /\ Importing /\ Sweeping /\ RowHasFile /\ Swept

\* Most steps leave a purge in progress with no more to do.
LEMMA SweepStays ==
    ASSUME FilesInv, NEW q \in Requests, Purging(q), req'[q] = req[q],
           files' \subseteq files, excused \subseteq excused', doomed \subseteq doomed',
           \A j \in files \cap Ids : home'[j] = home[j]
    PROVE  SweepOf(q)'
<1> USE KeyFacts DEF FilesInv, TypeOK
<1>1. SweepOf(q) /\ Purging(q)' BY DEF Sweeping, Purging, Is
<1>2. ASSUME NEW k \in files' \cap Sweepable, Home(k)' \in req'[q].targets
      PROVE  k \in excused' \/ Comes(q, k)'
  <2>1. Home(k)' = Home(k) BY <1>2 DEF Home, Sweepable, Keys
  <2>2. \A i \in 0..Len(CacheOrder) :
          k \in PurgeSet(Home(k), i) => (k \in PurgeSet(Home(k), i))'
    BY <2>1, <1>2 DEF PurgeSet
  <2>3. QED BY <1>1, <1>2, <2>1, <2>2 DEF SweepOf, Comes, Request
<1>3. QED BY <1>1, <1>2 DEF SweepOf

\* A request that goes on with the key it has, or ends, disturbs no import.
LEMMA ImportingStays ==
    ASSUME FilesInv, NEW r \in Requests, UNCHANGED <<projects, created, doomed, home>>,
           files \subseteq files', \A q \in Requests \ {r} : req'[q] = req[q],
           ~Is(r, "import")', req'[r].key \in {req[r].key, None}
    PROVE  Importing'
<1> USE DEF FilesInv, Is
<1> SUFFICES ASSUME NEW i \in Requests \ {r}, Is(i, "import")
             PROVE  /\ req[i].targets \subseteq created \ (projects \cup doomed)
                    /\ \A k \in Ids : home[k] \in req[i].targets => k \in files'
                    /\ (\A q \in Requests :
                          req[q].key # None => Home(req[q].key) \notin req[i].targets)'
                    /\ \A q \in Requests \ {i} :
                         Is(q, "import")' => req'[q].targets \cap req[i].targets = {}
  BY DEF Importing
<1>1. req'[i] = req[i] OBVIOUS
<1>2. (\A q \in Requests :
         req[q].key # None => Home(req[q].key) \notin req[i].targets)'
  BY <1>1 DEF Importing, Home
<1>3. QED BY <1>1, <1>2 DEF Importing

LEMMA StoreSafe ==
    ASSUME FilesInv, TypeInv', NEW r \in Requests, Store(r)
    PROVE  Safe'
<1> USE IdleRequest, KeyFacts DEF FilesInv, TypeOK, Request, Is, Home, Fresh, table
<1>1. ASSUME NEW p \in Projects, NEW k \in Drawings \cup Meshes \cup Dems,
             Upload(r, p, k)
      PROVE  Safe'
  <2>1. Belonging' BY <1>1 DEF Upload, Hold, Belonging
  <2>2. Handled' BY <1>1 DEF Upload, Hold, Handled, HasFile, Owns, Unlisted, Belonging, Uploading
  <2>3. Importing' BY <1>1 DEF Upload, Hold, Importing, Belonging
  <2>4. Sweeping' BY <1>1, SweepStays DEF Upload, Hold, Sweeping, Purging, Belonging
  <2>5. RowHasFile' BY <1>1 DEF Upload, Hold, RowHasFile, Belonging
  <2>6. Swept' BY <1>1 DEF Upload, Hold, Swept, Belonging
  <2>7. QED BY <2>1, <2>2, <2>3, <2>4, <2>5, <2>6 DEF Safe
<1>2. ASSUME NEW h \in Heatmaps, NEW m \in Meshes, NEW n \in Meshes,
             ComputeVolume(r, h, m, n)
      PROVE  Safe'
  <2>a. \A j \in files \cap Ids : home'[j] = home[j]
    BY <1>2 DEF ComputeVolume, Belonging
  <2>b. /\ UNCHANGED <<files, excused, doomed>> /\ ~Purging(r)'
        /\ \A q \in Requests \ {r} : req'[q] = req[q]
    BY <1>2 DEF ComputeVolume, Hold, Purging
  <2>1. Belonging' BY <1>2 DEF ComputeVolume, Hold, Belonging
  <2>2. Handled' BY <1>2 DEF ComputeVolume, Hold, Handled, HasFile, Owns, Unlisted, Belonging, Uploading
  <2>3. Importing' BY <1>2 DEF ComputeVolume, Hold, Importing, Belonging
  <2>4. Sweeping' BY <2>a, <2>b, SweepStays DEF Sweeping, Purging
  <2>5. RowHasFile' BY <1>2 DEF ComputeVolume, Hold, RowHasFile, Belonging
  <2>6. Swept' BY <1>2 DEF ComputeVolume, Hold, Swept, Belonging
  <2>7. QED BY <2>1, <2>2, <2>3, <2>4, <2>5, <2>6 DEF Safe
<1>3. ASSUME NEW p \in Projects, NEW c \in Caches, Refresh(r, p, c) PROVE Safe'
  <2>1. Belonging' BY <1>3 DEF Refresh, Hold, Belonging
  <2>2. Handled' BY <1>3 DEF Refresh, Hold, Handled, HasFile, Owns, Unlisted, Belonging, Uploading
  <2>3. Importing' BY <1>3 DEF Refresh, Hold, Importing, Belonging
  <2>4. Sweeping'
    BY <1>3 DEF Refresh, Hold, Sweeping, SweepOf, Comes, Purging, PurgeSet, Belonging
  <2>5. RowHasFile' BY <1>3 DEF Refresh, Hold, RowHasFile, Belonging
  <2>6. Swept' BY <1>3 DEF Refresh, Hold, Swept, Belonging
  <2>7. QED BY <2>1, <2>2, <2>3, <2>4, <2>5, <2>6 DEF Safe
<1>4. ASSUME NEW m \in Meshes, Rebuild(r, m) PROVE Safe'
  <2>1. Belonging' BY <1>4 DEF Rebuild, Hold, Belonging
  <2>2. Handled' BY <1>4 DEF Rebuild, Hold, Handled, HasFile, Owns, Unlisted, Belonging, Uploading
  <2>3. Importing' BY <1>4 DEF Rebuild, Hold, Importing, Belonging
  <2>4. Sweeping'
    BY <1>4 DEF Rebuild, Hold, Sweeping, SweepOf, Comes, Purging, PurgeSet, Belonging
  <2>5. RowHasFile' BY <1>4 DEF Rebuild, Hold, RowHasFile, Belonging
  <2>6. Swept' BY <1>4 DEF Rebuild, Hold, Swept, Belonging
  <2>7. QED BY <2>1, <2>2, <2>3, <2>4, <2>5, <2>6 DEF Safe
<1>5. ASSUME NEW m \in Meshes, BuildDemMesh(r, m) PROVE Safe'
  <2>a. /\ \A j \in files \cap Ids : home'[j] = home[j]
        /\ \A j \in Ids : home[j] # None => home'[j] = home[j]
        /\ home'[m] = home[req[r].key] /\ home[req[r].key] # None /\ req[r].key \in Ids
    BY <1>5 DEF BuildDemMesh, Belonging, Keyed
  <2>b. /\ UNCHANGED <<files, rows, excused, doomed, created, projects>>
        /\ req'[r].at = "put" /\ req'[r].key = m
        /\ \A q \in Requests \ {r} : req'[q] = req[q]
    BY <1>5 DEF BuildDemMesh
  <2>1. Belonging' BY <1>5 DEF BuildDemMesh, Belonging, Keyed
  <2>2. Handled' BY <1>5 DEF BuildDemMesh, Handled, HasFile, Owns, Unlisted, Belonging, Uploading, Keyed
  <2>3. Importing'
    <3>1. home[m] = None /\ home'[m] \in created
      BY <1>5, <2>a DEF BuildDemMesh, Belonging
    <3>2. ASSUME NEW i \in Requests, Is(i, "import")
          PROVE  home'[m] \notin req[i].targets /\ None \notin req[i].targets
      BY <2>a, <3>2 DEF Importing
    <3>3. \A q \in Requests \ {r} :
            req[q].key # None => Home(req[q].key)' = Home(req[q].key)
      BY <2>a, <2>b DEF Belonging
    <3>4. ASSUME NEW i \in Requests \ {r}, Is(i, "import")
          PROVE  /\ \A k \in Ids : home'[k] \in req[i].targets => k \in files
                 /\ \A q \in Requests :
                      req'[q].key # None => Home(req[q].key)' \notin req[i].targets
      <4>1. \A k \in Ids : home'[k] \in req[i].targets => k \in files
        BY <1>5, <2>a, <3>2, <3>4 DEF BuildDemMesh, Importing
      <4>2. Home(m)' \notin req[i].targets BY <3>2, <3>4
      <4>3. \A q \in Requests \ {r} :
              req[q].key # None => Home(req[q].key)' \notin req[i].targets
        BY <3>3, <3>4 DEF Importing
      <4>4. QED BY <2>b, <4>1, <4>2, <4>3
    <3>5. QED BY <2>b, <3>4 DEF Importing
  <2>4. Sweeping' BY <2>a, <2>b, SweepStays DEF Sweeping, Purging
  <2>5. RowHasFile' BY <1>5 DEF BuildDemMesh, RowHasFile, Belonging, Keyed
  <2>6. Swept' BY <1>5 DEF BuildDemMesh, Swept, Belonging, Keyed
  <2>7. QED BY <2>1, <2>2, <2>3, <2>4, <2>5, <2>6 DEF Safe
<1>6. ASSUME Put(r) PROVE Safe'
  <2> DEFINE k == req[r].key
  <2>a. k \in Keys /\ k # None BY <1>6 DEF Put, Keyed, Uploading
  <2>b. /\ files' = files \cup {k} /\ UNCHANGED <<table, home, base, doomed>>
        /\ \A q \in Requests \ {r} : req'[q] = req[q]
    BY <1>6 DEF Put, Go, Done
  <2>c. \/ req'[r] = Idle
        \/ Is(r, "put") /\ req'[r].at = "insert" /\ req'[r].key = k
    BY <1>6 DEF Put, Go, Done
  <2>d. k \in Ids => home[k] # None BY <2>a DEF Belonging
  <2>1. Belonging' BY <2>b, <2>c, <2>d DEF Belonging
  <2>2. Handled' BY <2>b, <2>c DEF Handled, HasFile, Owns, Unlisted, Uploading
  <2>3. Importing' BY <2>b, <2>c, ImportingStays
  <2>4. Sweeping'
    BY <1>6 DEF Put, Go, Done, Sweeping, SweepOf, Comes, Purging, PurgeSet, Belonging,
      Keyed, Uploading, Excuse, Deleting
  <2>5. RowHasFile' BY <1>6 DEF Put, Go, Done, RowHasFile, Belonging, Keyed, Uploading
  <2>6. Swept' BY <1>6 DEF Put, Go, Done, Swept, Belonging, Keyed, Uploading, Excuse
  <2>7. QED BY <2>1, <2>2, <2>3, <2>4, <2>5, <2>6 DEF Safe
<1>7. ASSUME Insert(r) PROVE Safe'
  <2> DEFINE k == req[r].key
  <2>a. k \in Keys /\ k # None BY <1>7 DEF Insert, Keyed, Uploading
  <2>b. /\ UNCHANGED <<org, projects, created, files, home, base, doomed, excused>>
        /\ \A q \in Requests \ {r} : req'[q] = req[q]
    BY <1>7 DEF Insert, Go, Done
  <2>c. \/ UNCHANGED rows
        \/ rows' = rows \cup {k} /\ Home(k) \in projects
    BY <1>7 DEF Insert, ForeignKeys
  <2>d. \/ req'[r] = Idle
        \/ req'[r].at = "mesh" /\ req'[r].key = k
    BY <1>7 DEF Insert, Go, Done
  <2>1. Belonging' BY <2>b, <2>c, <2>d DEF Belonging
  <2>2. Handled'
    <3> SUFFICES ASSUME NEW q \in Requests
                 PROVE  HasFile(q)' /\ Owns(q)' /\ Unlisted(q)'
      BY DEF Handled
    <3>1. CASE q = r BY <2>d, <3>1 DEF HasFile, Owns, Unlisted, Uploading
    <3>2. CASE q # r
      <4>1. req'[q] = req[q] BY <2>b, <3>2
      <4>2. HasFile(q)' BY <2>b, <4>1 DEF Handled, HasFile
      <4>3. q # r /\ req[q].key \in Ids /\ (Uploading(q) \/ Is(q, "file")) =>
              req[q].key # k
        BY <1>7, <2>b DEF Insert, Handled, Owns, Uploading
      <4>4. req'[r].key \in {k, None} BY <2>d
      <4>5. Owns(q)' /\ Unlisted(q)'
        BY <2>b, <2>c, <3>2, <4>1, <4>3, <4>4
        DEF Handled, Owns, Unlisted, Uploading, Keyed
      <4>6. QED BY <4>2, <4>5
    <3>3. QED BY <3>1, <3>2
  <2>3. Importing' BY <2>b, <2>d, ImportingStays
  <2>4. Sweeping' BY <2>b, <2>d, SweepStays DEF Sweeping, Purging
  <2>5. RowHasFile'
    BY <1>7 DEF Insert, Go, Done, RowHasFile, Belonging, Keyed, Uploading, Handled, HasFile
  <2>6. Swept' BY <1>7 DEF Insert, Go, Done, Swept, Belonging, Keyed, Uploading
  <2>7. QED BY <2>1, <2>2, <2>3, <2>4, <2>5, <2>6 DEF Safe
<1>8. ASSUME NEW p \in Projects, ImportProject(r, p) PROVE Safe'
  <2>1. Belonging' BY <1>8 DEF ImportProject, Belonging
  <2>2. Handled' BY <1>8 DEF ImportProject, Handled, HasFile, Owns, Unlisted, Belonging, Uploading
  <2>3. Importing' BY <1>8 DEF ImportProject, Importing, Belonging
  <2>4. Sweeping'
    BY <1>8 DEF ImportProject, Sweeping, SweepOf, Comes, Purging, PurgeSet, Belonging
  <2>5. RowHasFile' BY <1>8 DEF ImportProject, RowHasFile, Belonging
  <2>6. Swept' BY <1>8 DEF ImportProject, Swept, Belonging
  <2>7. QED BY <2>1, <2>2, <2>3, <2>4, <2>5, <2>6 DEF Safe
<1>9. ASSUME NEW d \in Drawings, ImportDrawing(r, d) PROVE Safe'
  <2>1. Belonging' BY <1>9 DEF ImportDrawing, Belonging, Importing
  <2>2. Handled' BY <1>9 DEF ImportDrawing, Handled, HasFile, Owns, Unlisted, Belonging, Uploading
  <2>3. Importing' BY <1>9 DEF ImportDrawing, Importing, Belonging
  <2>4. Sweeping'
    BY <1>9 DEF ImportDrawing, Sweeping, SweepOf, Comes, Purging, PurgeSet, Belonging,
      Importing
  <2>5. RowHasFile' BY <1>9 DEF ImportDrawing, RowHasFile, Belonging
  <2>6. Swept' BY <1>9 DEF ImportDrawing, Swept, Belonging, Importing
  <2>7. QED BY <2>1, <2>2, <2>3, <2>4, <2>5, <2>6 DEF Safe
<1>10. ASSUME ImportCommit(r) PROVE Safe'
  <2>a. \A q \in Requests : req[q].key \in Ids => home[req[q].key] \notin req[r].targets
    BY <1>10 DEF ImportCommit, Importing
  <2>1. Belonging' BY <1>10 DEF ImportCommit, Done, Belonging, Importing
  <2>2. Handled' BY <1>10, <2>a DEF ImportCommit, Done, Handled, HasFile, Owns, Unlisted, Uploading,
      Belonging
  <2>3. Importing' BY <1>10 DEF ImportCommit, Done, Importing, Belonging
  <2>4. Sweeping'
    BY <1>10 DEF ImportCommit, Done, Sweeping, SweepOf, Comes, Purging, PurgeSet,
      Belonging
  <2>5. RowHasFile' BY <1>10 DEF ImportCommit, Done, RowHasFile, Belonging, Importing
  <2>6. Swept' BY <1>10 DEF ImportCommit, Done, Swept, Belonging
  <2>7. QED BY <2>1, <2>2, <2>3, <2>4, <2>5, <2>6 DEF Safe
<1>11. QED BY <1>1, <1>2, <1>3, <1>4, <1>5, <1>6, <1>7, <1>8, <1>9, <1>10 DEF Store

LEMMA RemoveSafe ==
    ASSUME FilesInv, TypeInv', NEW r \in Requests, Remove(r)
    PROVE  Safe'
<1> USE IdleRequest, KeyFacts DEF FilesInv, TypeOK, Request, Is, Home, Fresh, table
<1>1. ASSUME NEW d \in Drawings, DeleteOverlay(r, d) PROVE Safe'
  <2>1. Belonging' BY <1>1 DEF DeleteOverlay, Hold, Belonging
  <2>2. Handled' BY <1>1 DEF DeleteOverlay, Hold, Handled, HasFile, Owns, Unlisted, Belonging, Uploading
  <2>3. Importing' BY <1>1 DEF DeleteOverlay, Hold, Importing, Belonging
  <2>4. Sweeping'
    BY <1>1 DEF DeleteOverlay, Hold, Sweeping, SweepOf, Comes, Purging, PurgeSet,
      Belonging
  <2>5. RowHasFile' BY <1>1 DEF DeleteOverlay, Hold, RowHasFile, Belonging
  <2>6. Swept' BY <1>1 DEF DeleteOverlay, Hold, Swept, Belonging
  <2>7. QED BY <2>1, <2>2, <2>3, <2>4, <2>5, <2>6 DEF Safe
<1>2. ASSUME DeleteOverlayRow(r) PROVE Safe'
  <2>1. Belonging' BY <1>2 DEF DeleteOverlayRow, Go, Belonging, Keyed
  <2>2. Handled' BY <1>2 DEF DeleteOverlayRow, Go, Handled, HasFile, Owns, Unlisted, Belonging, Uploading, Keyed
  <2>3. Importing' BY <1>2 DEF DeleteOverlayRow, Go, Importing, Belonging, Keyed
  <2>4. Sweeping'
    BY <1>2 DEF DeleteOverlayRow, Go, Sweeping, SweepOf, Comes, Purging, PurgeSet,
      Belonging, Keyed
  <2>5. RowHasFile' BY <1>2 DEF DeleteOverlayRow, Go, RowHasFile, Belonging, Keyed
  <2>6. Swept' BY <1>2 DEF DeleteOverlayRow, Go, Swept, Belonging, Keyed
  <2>7. QED BY <2>1, <2>2, <2>3, <2>4, <2>5, <2>6 DEF Safe
<1>3. ASSUME NEW k \in Meshes \cup Heatmaps, DeleteSurface(r, k) PROVE Safe'
  <2>1. Belonging' BY <1>3 DEF DeleteSurface, Hold, Cascade, Belonging
  <2>2. Handled' BY <1>3 DEF DeleteSurface, Hold, Cascade, Handled, HasFile, Owns, Unlisted, Belonging, Uploading
  <2>3. Importing' BY <1>3 DEF DeleteSurface, Hold, Cascade, Importing, Belonging
  <2>4. Sweeping'
    BY <1>3 DEF DeleteSurface, Hold, Cascade, Sweeping, SweepOf, Comes, Purging,
      PurgeSet, Belonging
  <2>5. RowHasFile' BY <1>3 DEF DeleteSurface, Hold, Cascade, RowHasFile, Belonging
  <2>6. Swept' BY <1>3 DEF DeleteSurface, Hold, Cascade, Swept, Belonging
  <2>7. QED BY <2>1, <2>2, <2>3, <2>4, <2>5, <2>6 DEF Safe
<1>4. ASSUME DeleteFile(r) PROVE Safe'
  <2>1. Belonging' BY <1>4 DEF DeleteFile, Done, Belonging, Keyed
  <2>2. Handled' BY <1>4 DEF DeleteFile, Done, Handled, HasFile, Owns, Unlisted, Belonging, Uploading, Keyed
  <2>3. Importing' BY <1>4 DEF DeleteFile, Done, Importing, Belonging, Keyed
  <2>4. Sweeping'
    BY <1>4 DEF DeleteFile, Done, Sweeping, SweepOf, Comes, Purging, PurgeSet,
      Belonging, Keyed
  <2>5. RowHasFile' BY <1>4 DEF DeleteFile, Done, RowHasFile, Belonging, Keyed, Handled, Unlisted
  <2>6. Swept' BY <1>4 DEF DeleteFile, Done, Swept, Belonging, Keyed
  <2>7. QED BY <2>1, <2>2, <2>3, <2>4, <2>5, <2>6 DEF Safe
<1>5. ASSUME NEW p \in Projects, DeleteProject(r, p) PROVE Safe'
  <2>1. Belonging' BY <1>5 DEF DeleteProject, StartPurge, Belonging
  <2>2. Handled' BY <1>5 DEF DeleteProject, StartPurge, Handled, HasFile, Owns, Unlisted, Belonging, Uploading
  <2>3. Importing' BY <1>5 DEF DeleteProject, StartPurge, Importing, Belonging
  <2>4. Sweeping'
    <3>1. /\ req'[r].targets = {p} /\ req'[r].left = {p}
          /\ req'[r].now = None /\ req'[r].step = 0
          /\ doomed' = doomed \cup {p} /\ UNCHANGED <<files, home, excused>>
          /\ \A q \in Requests \ {r} : req'[q] = req[q]
      BY <1>5 DEF DeleteProject, StartPurge, Idle
    <3>2. SweepOf(r)' BY <3>1 DEF SweepOf, Comes
    <3>3. QED BY <3>1, <3>2, SweepStays DEF Sweeping, Purging
  <2>5. RowHasFile' BY <1>5 DEF DeleteProject, StartPurge, RowHasFile, Belonging
  <2>6. Swept' BY <1>5 DEF DeleteProject, StartPurge, Swept, Belonging
  <2>7. QED BY <2>1, <2>2, <2>3, <2>4, <2>5, <2>6 DEF Safe
<1>6. ASSUME DeleteOrganization(r) PROVE Safe'
  <2>1. Belonging' BY <1>6 DEF DeleteOrganization, StartPurge, Belonging
  <2>2. Handled'
    BY <1>6 DEF DeleteOrganization, StartPurge, Handled, HasFile, Owns, Unlisted, Belonging, Uploading
  <2>3. Importing' BY <1>6 DEF DeleteOrganization, StartPurge, Importing, Belonging
  <2>4. Sweeping'
    <3>1. /\ req'[r].targets = projects /\ req'[r].left = projects
          /\ req'[r].now = None /\ req'[r].step = 0
          /\ doomed' = doomed \cup projects /\ UNCHANGED <<files, home, excused>>
          /\ \A q \in Requests \ {r} : req'[q] = req[q]
      BY <1>6 DEF DeleteOrganization, StartPurge, Idle
    <3>2. SweepOf(r)' BY <3>1 DEF SweepOf, Comes
    <3>3. QED BY <3>1, <3>2, SweepStays DEF Sweeping, Purging
  <2>5. RowHasFile' BY <1>6 DEF DeleteOrganization, StartPurge, RowHasFile, Belonging
  <2>6. Swept' BY <1>6 DEF DeleteOrganization, StartPurge, Swept, Belonging
  <2>7. QED BY <2>1, <2>2, <2>3, <2>4, <2>5, <2>6 DEF Safe
<1>7. ASSUME Purge(r) PROVE Safe'
  <2>a. PICK p \in Current(r) :
          /\ \/ files' = files \ PurgeSet(p, req[r].step) /\ UNCHANGED excused
             \/ UNCHANGED files /\ excused' = excused \cup (files \cap PurgeSet(p, req[r].step))
          /\ req' = [req EXCEPT ![r].now = IF req[r].step = Len(CacheOrder) THEN None ELSE p,
                                ![r].left = @ \ {p},
                                ![r].step = IF req[r].step = Len(CacheOrder) THEN 0 ELSE @ + 1]
          /\ UNCHANGED <<table, home, base, doomed>>
    BY <1>7 DEF Purge
  <2>b. p \in req[r].targets /\ p \in doomed
    BY <1>7 DEF Purge, Purging, Current, Sweeping, SweepOf
  <2>c. \A q \in Requests : /\ req'[q].at = req[q].at /\ req'[q].key = req[q].key
                            /\ req'[q].targets = req[q].targets
    BY <2>a
  <2>d. \A k \in Keys \cap PurgeSet(p, req[r].step) : Home(k) = p
    BY <2>b, CacheKeys DEF PurgeSet
  <2>1. Belonging' BY <2>a, <2>c DEF Belonging
  <2>2. Handled'
    <3>1. \A q \in Requests : HasFile(q)'
      BY <2>a, <2>b, <2>c, <2>d DEF Handled, HasFile, Keyed, Uploading
    <3>2. \A q \in Requests : Owns(q)' /\ Unlisted(q)'
      BY <2>a, <2>c DEF Handled, Owns, Unlisted, Uploading
    <3>3. QED BY <3>1, <3>2 DEF Handled
  <2>3. Importing' BY <2>a, <2>b, <2>c, <2>d DEF Importing
  <2>4. Sweeping'
    BY <1>7 DEF Purge, Current, PurgeSet, Sweeping, SweepOf, Comes, Purging, Belonging
  <2>5. RowHasFile' BY <2>a, <2>b, <2>d DEF RowHasFile
  <2>6. Swept' BY <2>a DEF Swept
  <2>7. QED BY <2>1, <2>2, <2>3, <2>4, <2>5, <2>6 DEF Safe
<1>8. ASSUME DropProject(r) PROVE Safe'
  <2>1. Belonging'
    BY <1>8 DEF DropProject, Done, Current, Belonging, Sweeping, SweepOf, Purging
  <2>2. Handled'
    BY <1>8 DEF DropProject, Done, Current, Handled, HasFile, Owns, Unlisted, Belonging, Uploading, Sweeping,
      SweepOf, Purging
  <2>3. Importing'
    BY <1>8 DEF DropProject, Done, Current, Importing, Belonging, Sweeping, SweepOf,
      Purging
  <2>4. Sweeping'
    BY <1>8 DEF DropProject, Done, Current, Sweeping, SweepOf, Comes, Purging, PurgeSet,
      Belonging
  <2>5. RowHasFile'
    BY <1>8 DEF DropProject, Done, Current, RowHasFile, Belonging, Sweeping, SweepOf,
      Purging
  <2>6. Swept'
    <3>1. \A k \in files \cap Sweepable : Home(k) \in req[r].targets => k \in excused
      BY <1>8 DEF DropProject, Current, Sweeping, SweepOf, Purging, Comes
    <3>2. files \ (Meshes \cup Heatmaps \cup Dems) \subseteq Sweepable
      BY DEF Sweepable, Keys, Ids
    <3>3. QED BY <1>8, <3>1, <3>2 DEF DropProject, Swept, Belonging
  <2>7. QED BY <2>1, <2>2, <2>3, <2>4, <2>5, <2>6 DEF Safe
<1>9. ASSUME DropOrganization(r) PROVE Safe'
  <2>1. Belonging'
    BY <1>9 DEF DropOrganization, Done, Current, Belonging, Sweeping, SweepOf, Purging
  <2>2. Handled'
    BY <1>9 DEF DropOrganization, Done, Current, Handled, HasFile, Owns, Unlisted, Belonging, Uploading,
      Sweeping, SweepOf, Purging
  <2>3. Importing'
    BY <1>9 DEF DropOrganization, Done, Current, Importing, Belonging, Sweeping,
      SweepOf, Purging
  <2>4. Sweeping'
    BY <1>9 DEF DropOrganization, Done, Current, Sweeping, SweepOf, Comes, Purging,
      PurgeSet, Belonging
  <2>5. RowHasFile'
    BY <1>9 DEF DropOrganization, Done, Current, RowHasFile, Belonging, Sweeping,
      SweepOf, Purging
  <2>6. Swept'
    <3>1. \A k \in files \cap Sweepable : Home(k) \in req[r].targets => k \in excused
      BY <1>9 DEF DropOrganization, Current, Sweeping, SweepOf, Purging, Comes
    <3>2. files \ (Meshes \cup Heatmaps \cup Dems) \subseteq Sweepable
      BY DEF Sweepable, Keys, Ids
    <3>3. QED BY <1>9, <3>1, <3>2 DEF DropOrganization, Swept, Belonging
  <2>7. QED BY <2>1, <2>2, <2>3, <2>4, <2>5, <2>6 DEF Safe
<1>10. QED BY <1>1, <1>2, <1>3, <1>4, <1>5, <1>6, <1>7, <1>8, <1>9 DEF Remove

LEMMA NextSafe ==
    ASSUME FilesInv, TypeInv', [Next]_vars
    PROVE  Safe'
<1> USE IdleRequest, KeyFacts DEF FilesInv, TypeOK, Request, Is, Home, Fresh, table
<1>1. ASSUME NEW p \in Projects, CreateProject(p) PROVE Safe'
  <2>1. Belonging' BY <1>1 DEF CreateProject, Belonging
  <2>2. Handled' BY <1>1 DEF CreateProject, Handled, HasFile, Owns, Unlisted, Belonging, Uploading
  <2>3. Importing' BY <1>1 DEF CreateProject, Importing, Belonging
  <2>4. Sweeping'
    BY <1>1 DEF CreateProject, Sweeping, SweepOf, Comes, Purging, PurgeSet, Belonging
  <2>5. RowHasFile' BY <1>1 DEF CreateProject, RowHasFile, Belonging
  <2>6. Swept' BY <1>1 DEF CreateProject, Swept, Belonging
  <2>7. QED BY <2>1, <2>2, <2>3, <2>4, <2>5, <2>6 DEF Safe
<1>2. ASSUME NEW r \in Requests, Abort(r) PROVE Safe'
  <2>1. Belonging' BY <1>2 DEF Abort, Done, Belonging
  <2>2. Handled' BY <1>2 DEF Abort, Done, Handled, HasFile, Owns, Unlisted, Belonging, Uploading
  <2>3. Importing' BY <1>2 DEF Abort, Done, Importing, Belonging
  <2>4. Sweeping'
    BY <1>2 DEF Abort, Done, Sweeping, SweepOf, Comes, Purging, PurgeSet, Belonging
  <2>5. RowHasFile' BY <1>2 DEF Abort, Done, RowHasFile, Belonging
  <2>6. Swept' BY <1>2 DEF Abort, Done, Swept, Belonging
  <2>7. QED BY <2>1, <2>2, <2>3, <2>4, <2>5, <2>6 DEF Safe
<1>3. CASE UNCHANGED vars
  BY <1>3 DEF vars, Safe, Belonging, Handled, HasFile, Owns, Unlisted, Importing,
    Sweeping, SweepOf, Comes, Purging,
    PurgeSet, Uploading, RowHasFile, Swept
<1>4. QED BY <1>1, <1>2, <1>3, StoreSafe, RemoveSafe DEF Next

LEMMA InitSafe == Init => FilesInv
BY IdleRequest, KeyFacts DEF Init, FilesInv, TypeOK, Keyed, Uploading, Is, Belonging,
  Handled, HasFile, Owns, Unlisted, Importing, Sweeping, Purging, RowHasFile, Swept

LEMMA StepSafe == FilesInv /\ [Next]_vars => FilesInv'
BY NextTypeInv, NextSafe DEF TypeInv, FilesInv, Safe

\* The inductive invariant behind the three theorems below.
THEOREM FilesInvariant == Spec => []FilesInv
BY InitSafe, StepSafe, PTL DEF Spec

\* Tables, store and requests keep their shape (projects.rs, storage.rs).
THEOREM FilesTypeSafe == Spec => []TypeOK
BY FilesInvariant, PTL DEF FilesInv

\* A row has its file, or its project is being deleted: whatever overlaps or is
\* dropped, because an upload in flight owns its key and files go after their rows.
THEOREM RowsKeepFiles == Spec => []RowHasFile
BY FilesInvariant, PTL DEF FilesInv

\* A deleted project leaves no drawing and no cached file that its deletion could
\* have removed: a purge still has to come to each of them or has removed it.
THEOREM DeletionSweeps == Spec => []Swept
BY FilesInvariant, PTL DEF FilesInv

-----------------------------------------------------------------------------
(* Surfaces and volumes.                                                   *)
MeshHolding(r) == meshReq[r].at \in {"put", "reput", "insert", "update", "delete"}
MeshReading(r) == S!Is(r, "row") \/ S!Is(r, "get")
MeshSide(r) == meshReq[r].sides[meshReq[r].role]

\* The step a request is at tells what it carries.
MeshKeyed ==
    \A r \in SurfaceRequests :
        /\ MeshHolding(r) => meshReq[r].surface \in SurfaceIds
        /\ MeshReading(r) => MeshSide(r).surface \in SurfaceIds

MeshTypeInv == S!SurfacesAssumption /\ S!TypeOK /\ MeshKeyed

\* Meshes are named in order: what a version names was stored before, and is older
\* than what is stored now.
MeshNamedOK ==
    /\ \A s \in SurfaceIds : mesh[s] <= puts
    /\ \A s \in SurfaceIds : \A i \in DOMAIN named[s] :
         named[s][i] <= puts /\ (mesh[s] = 0 \/ named[s][i] <= mesh[s])
    /\ \A s \in SurfaceIds : S!Exists(s) =>
         /\ s \in used
         /\ meshRows[s].version = Len(named[s])
         /\ meshRows[s].mesh > 0 /\ meshRows[s].mesh <= mesh[s]
    /\ \A s \in SurfaceIds \ used : named[s] = <<>>

\* A surface being built is in no other hands, a rebuilt one has at least the mesh
\* that was stored for it, and one being deleted has no row.
MeshHandledOf(r) ==
    /\ IF MeshHolding(r) THEN meshReq[r].surface \in used ELSE meshReq[r].surface = None
    /\ S!Is(r, "put") \/ S!Is(r, "insert") =>
         /\ ~S!Exists(meshReq[r].surface) /\ named[meshReq[r].surface] = <<>>
         /\ \A q \in SurfaceRequests \ {r} : meshReq[q].surface # meshReq[r].surface
    /\ S!Is(r, "insert") \/ (S!Is(r, "update") /\ S!Exists(meshReq[r].surface)) =>
         meshReq[r].mesh <= mesh[meshReq[r].surface]
    /\ S!Is(r, "insert") \/ S!Is(r, "update") => meshReq[r].mesh \in 1..puts
    /\ S!Is(r, "delete") => ~S!Exists(meshReq[r].surface)
MeshHandled == \A r \in SurfaceRequests : MeshHandledOf(r)

\* A side that has its mesh has one no older than its version names.
MeshSound(use) ==
    /\ use.version \in DOMAIN named[use.surface]
    /\ use.mesh >= named[use.surface][use.version]
MeshSidesOf(r) ==
    /\ S!Is(r, "get") => MeshSide(r).version \in DOMAIN named[MeshSide(r).surface]
    /\ MeshReading(r) /\ meshReq[r].role = "compare" =>
         meshReq[r].sides["base"].surface \in SurfaceIds /\ MeshSound(meshReq[r].sides["base"])
    /\ S!Is(r, "volume") =>
         \A role \in S!Roles : meshReq[r].sides[role].surface # None =>
            MeshSound(meshReq[r].sides[role])
MeshSidesOK == \A r \in SurfaceRequests : MeshSidesOf(r)

SurfacesInv == MeshTypeInv /\ MeshNamedOK /\ MeshHandled /\ MeshSidesOK /\ S!NeverOlder

-----------------------------------------------------------------------------
(* Types. *)

LEMMA MeshIdleRequest ==
    /\ S!NoVolume \in S!Sides /\ S!Idle \in S!Request
    /\ S!Idle.at = "idle" /\ S!Idle.surface = None
BY DEF S!NoVolume, S!Sides, S!Use, S!Unused, S!Idle, S!Request, S!Labels, S!Roles

\* A step of one request, once its new record is known to be well formed.
LEMMA MeshRequestStep ==
    ASSUME MeshTypeInv, NEW r \in SurfaceRequests, NEW q \in S!Request, S!Become(r, q),
           q.at \in {"put", "reput", "insert", "update", "delete"} => q.surface \in SurfaceIds,
           q.at \in {"row", "get"} => q.sides[q.role].surface \in SurfaceIds
    PROVE  MeshKeyed' /\ (meshReq \in [SurfaceRequests -> S!Request])'
BY DEF MeshTypeInv, S!TypeOK, MeshKeyed, MeshHolding, MeshReading, MeshSide, S!Is, S!Become

LEMMA MeshDoneStep ==
    ASSUME MeshTypeInv, NEW r \in SurfaceRequests, S!Done(r)
    PROVE  MeshKeyed' /\ (meshReq \in [SurfaceRequests -> S!Request])'
BY MeshIdleRequest, MeshRequestStep DEF S!Done

LEMMA MeshHoldStep ==
    ASSUME MeshTypeInv, NEW r \in SurfaceRequests, NEW s \in SurfaceIds,
           NEW l \in {"put", "reput", "delete"},
           S!Become(r, [S!Idle EXCEPT !.at = l, !.surface = s])
    PROVE  MeshKeyed' /\ (meshReq \in [SurfaceRequests -> S!Request])'
<1> DEFINE q == [S!Idle EXCEPT !.at = l, !.surface = s]
<1>1. q \in S!Request /\ q.at = l /\ q.surface = s
  BY MeshIdleRequest DEF S!Idle, S!Request, S!Labels
<1>2. QED BY <1>1, MeshRequestStep

LEMMA MeshBuildTypeInv ==
    ASSUME MeshTypeInv, NEW r \in SurfaceRequests, S!Build(r)
    PROVE  MeshTypeInv'
<1> USE DEF MeshTypeInv, S!SurfacesAssumption
<1>1. ASSUME NEW s \in SurfaceIds, S!BuildSurface(r, s) PROVE MeshTypeInv'
  BY <1>1, MeshHoldStep DEF S!BuildSurface, S!TypeOK
<1>2. ASSUME NEW s \in SurfaceIds, S!RebuildSurface(r, s) PROVE MeshTypeInv'
  BY <1>2, MeshHoldStep DEF S!RebuildSurface, S!TypeOK
<1>3. ASSUME NEW s \in SurfaceIds, S!DeleteSurface(r, s) PROVE MeshTypeInv'
  <2>1. S!NoRow \in S!Row BY DEF S!NoRow, S!Row
  <2>2. QED BY <1>3, <2>1, MeshHoldStep, MeshIdleRequest DEF S!DeleteSurface, S!TypeOK
<1>4. ASSUME S!PutMesh(r) PROVE MeshTypeInv'
  <2> DEFINE n == puts + 1
             q == [meshReq[r] EXCEPT !.at = IF S!Is(r, "put") THEN "insert" ELSE "update",
                                 !.mesh = n]
  <2>1. meshReq[r].surface \in SurfaceIds /\ meshReq[r] \in S!Request
    BY <1>4 DEF S!PutMesh, MeshKeyed, MeshHolding, S!Is, S!TypeOK
  <2>2. n \in 0..MaxPuts /\ n \in Nat /\ puts' = n BY <1>4 DEF S!PutMesh, S!TypeOK
  <2>3. q \in S!Request BY <2>1, <2>2 DEF S!Request, S!Labels
  <2>4. q.at \in {"insert", "update"} /\ q.surface = meshReq[r].surface
    BY <2>1 DEF S!Request
  <2>5. S!Become(r, q) BY <1>4, <2>2 DEF S!PutMesh
  <2>6. MeshKeyed' /\ (meshReq \in [SurfaceRequests -> S!Request])'
    BY <2>1, <2>3, <2>4, <2>5, MeshRequestStep
  <2>7. mesh' = [mesh EXCEPT ![meshReq[r].surface] = n] BY <1>4, <2>2 DEF S!PutMesh
  <2>8. (mesh \in [SurfaceIds -> Nat])' BY <2>1, <2>2, <2>7 DEF S!TypeOK
  <2>9. QED BY <1>4, <2>2, <2>6, <2>8 DEF S!PutMesh, S!TypeOK
<1>5. ASSUME S!InsertSurface(r) PROVE MeshTypeInv'
  <2>1. meshReq[r].mesh \in Nat BY DEF S!TypeOK, S!Request
  <2>2. [version |-> 1, mesh |-> meshReq[r].mesh] \in S!Row /\ <<meshReq[r].mesh>> \in Seq(Nat)
    BY <2>1 DEF S!Row
  <2>3. QED BY <1>5, <2>2, MeshDoneStep DEF S!InsertSurface, S!TypeOK
<1>6. ASSUME S!UpdateSurface(r) PROVE MeshTypeInv'
  <2> DEFINE s == meshReq[r].surface
  <2>1. s \in SurfaceIds /\ meshReq[r].mesh \in Nat
    BY <1>6 DEF S!UpdateSurface, MeshKeyed, MeshHolding, S!Is, S!TypeOK, S!Request
  <2>2. meshRows[s].version + 1 \in Nat BY <2>1 DEF S!TypeOK, S!Row
  <2>3. [version |-> meshRows[s].version + 1, mesh |-> meshReq[r].mesh] \in S!Row
    BY <2>1, <2>2 DEF S!Row
  <2>4. Append(named[s], meshReq[r].mesh) \in Seq(Nat) BY <2>1 DEF S!TypeOK
  <2>5. (meshRows \in [SurfaceIds -> S!Row])' BY <1>6, <2>1, <2>3 DEF S!UpdateSurface, S!TypeOK, S!Row
  <2>6. (named \in [SurfaceIds -> Seq(Nat)])' BY <1>6, <2>1, <2>4 DEF S!UpdateSurface, S!TypeOK
  <2>7. QED BY <1>6, <2>5, <2>6, MeshDoneStep DEF S!UpdateSurface, S!TypeOK
<1>7. ASSUME S!DeleteMesh(r) PROVE MeshTypeInv'
  BY <1>7, MeshDoneStep DEF S!DeleteMesh, S!TypeOK
<1>8. QED BY <1>1, <1>2, <1>3, <1>4, <1>5, <1>6, <1>7 DEF S!Build

LEMMA MeshComputeTypeInv ==
    ASSUME MeshTypeInv, NEW r \in SurfaceRequests, S!Compute(r)
    PROVE  MeshTypeInv'
<1> USE DEF MeshTypeInv
<1>1. ASSUME NEW b \in SurfaceIds, NEW c \in SurfaceIds \cup {None}, S!ComputeVolume(r, b, c)
      PROVE  MeshTypeInv'
  <2> DEFINE sides == [base |-> [S!Unused EXCEPT !.surface = b],
                       compare |-> [S!Unused EXCEPT !.surface = c]]
             q == [S!Idle EXCEPT !.at = "row", !.sides = sides]
  <2>1. sides \in S!Sides /\ sides["base"].surface = b
    BY DEF S!Sides, S!Roles, S!Use, S!Unused
  <2>2. q \in S!Request /\ q.at = "row" /\ q.role = "base" /\ q.sides = sides
    BY <2>1, MeshIdleRequest DEF S!Idle, S!Request, S!Labels, S!Roles
  <2>3. S!Become(r, q) BY <1>1 DEF S!ComputeVolume
  <2>4. QED BY <1>1, <2>1, <2>2, <2>3, MeshRequestStep DEF S!ComputeVolume, S!TypeOK
<1>2. ASSUME S!LoadSurface(r) PROVE MeshTypeInv'
  <2> DEFINE s == MeshSide(r).surface
             sides == [meshReq[r].sides EXCEPT ![meshReq[r].role].version = meshRows[s].version]
             q == [meshReq[r] EXCEPT !.at = "get", !.sides = sides]
  <2>1. CASE S!Exists(s)
    <3>1. s \in SurfaceIds BY <1>2 DEF S!LoadSurface, MeshKeyed, MeshReading
    <3>2. meshRows[s].version \in Nat BY <3>1 DEF S!TypeOK, S!Row
    <3>3. meshReq[r] \in S!Request BY DEF S!TypeOK
    <3>a. sides \in S!Sides BY <3>2, <3>3 DEF S!Request, S!Sides, S!Use
    <3>4. q \in S!Request BY <3>a, <3>3 DEF S!Request, S!Labels
    <3>5. q.at = "get" /\ q.sides[q.role].surface = s
      BY <3>3 DEF S!Request, S!Sides, S!Use, MeshSide
    <3>6. S!Become(r, q) BY <1>2, <2>1 DEF S!LoadSurface, MeshSide
    <3>7. QED BY <1>2, <3>1, <3>4, <3>5, <3>6, MeshRequestStep DEF S!LoadSurface, S!TypeOK
  <2>2. CASE ~S!Exists(s)
    BY <1>2, <2>2, MeshDoneStep DEF S!LoadSurface, MeshSide, S!TypeOK
  <2>3. QED BY <2>1, <2>2
<1>3. ASSUME S!GetMesh(r) PROVE MeshTypeInv'
  <2> DEFINE s == MeshSide(r).surface
             more == meshReq[r].role = "base" /\ meshReq[r].sides["compare"].surface # None
             sides == [meshReq[r].sides EXCEPT ![meshReq[r].role].mesh = mesh[s]]
             q == [meshReq[r] EXCEPT !.at = IF more THEN "row" ELSE "volume",
                                 !.role = IF more THEN "compare" ELSE @,
                                 !.sides = sides]
  <2>1. CASE mesh[s] # 0
    <3>1. s \in SurfaceIds BY <1>3 DEF S!GetMesh, MeshKeyed, MeshReading
    <3>2. mesh[s] \in Nat BY <3>1 DEF S!TypeOK
    <3>3. meshReq[r] \in S!Request BY DEF S!TypeOK
    <3>a. sides \in S!Sides BY <3>2, <3>3 DEF S!Request, S!Sides, S!Use
    <3>4. q \in S!Request BY <3>a, <3>3 DEF S!Request, S!Labels, S!Roles
    <3>5. q.at = "row" => q.sides[q.role].surface \in SurfaceIds
      BY <3>3 DEF S!Request, S!Sides, S!Use, S!Roles
    <3>6. q.at \in {"row", "volume"} OBVIOUS
    <3>7. S!Become(r, q) BY <1>3, <2>1 DEF S!GetMesh, MeshSide
    <3>8. QED BY <1>3, <3>4, <3>5, <3>6, <3>7, MeshRequestStep DEF S!GetMesh, S!TypeOK
  <2>2. CASE mesh[s] = 0
    BY <1>3, <2>2, MeshDoneStep DEF S!GetMesh, MeshSide, S!TypeOK
  <2>3. QED BY <2>1, <2>2
<1>4. ASSUME NEW v \in VolumeIds, S!InsertVolume(r, v) PROVE MeshTypeInv'
  <2>1. meshReq[r].sides \in S!Sides BY DEF S!TypeOK, S!Request
  <2>2. QED BY <1>4, <2>1, MeshDoneStep DEF S!InsertVolume, S!TypeOK
<1>5. QED BY <1>1, <1>2, <1>3, <1>4 DEF S!Compute

LEMMA MeshNextTypeInv == MeshTypeInv /\ [S!Next]_(S!vars) => MeshTypeInv'
<1> SUFFICES ASSUME MeshTypeInv, [S!Next]_(S!vars) PROVE MeshTypeInv'
  OBVIOUS
<1> USE DEF MeshTypeInv
<1>1. ASSUME NEW r \in SurfaceRequests, S!Abort(r) PROVE MeshTypeInv'
  BY <1>1, MeshDoneStep DEF S!Abort, S!TypeOK
<1>2. ASSUME NEW v \in VolumeIds, S!DeleteVolume(v) PROVE MeshTypeInv'
  BY <1>2, MeshIdleRequest DEF S!DeleteVolume, S!TypeOK, MeshKeyed, MeshHolding, MeshReading, MeshSide, S!Is
<1>3. CASE UNCHANGED S!vars
  BY <1>3 DEF S!vars, S!TypeOK, MeshKeyed, MeshHolding, MeshReading, MeshSide, S!Is
<1>4. QED BY <1>1, <1>2, <1>3, MeshBuildTypeInv, MeshComputeTypeInv DEF S!Next

-----------------------------------------------------------------------------
(* What a version named is never forgotten. *)

MeshGrows == \A s \in SurfaceIds : \A i \in DOMAIN named[s] :
            i \in DOMAIN named'[s] /\ named'[s][i] = named[s][i]

\* Requests other than r keep their records.
MeshOthers(r) == \A q \in SurfaceRequests \ {r} : meshReq'[q] = meshReq[q]

LEMMA MeshBecomeOthers ==
    ASSUME MeshTypeInv, NEW r \in SurfaceRequests, NEW q, S!Become(r, q)
    PROVE  MeshOthers(r) /\ meshReq'[r] = q
BY DEF MeshTypeInv, S!TypeOK, S!Become, MeshOthers

LEMMA MeshBuildGrows ==
    ASSUME MeshTypeInv, MeshHandled, NEW r \in SurfaceRequests, S!Build(r)
    PROVE  MeshGrows
<1> USE DEF MeshTypeInv, S!TypeOK
<1>1. CASE S!InsertSurface(r)
  <2>1. named[meshReq[r].surface] = <<>>
    BY <1>1 DEF S!InsertSurface, MeshHandled, MeshHandledOf
  <2>2. QED BY <1>1, <2>1 DEF S!InsertSurface, MeshGrows
<1>2. CASE S!UpdateSurface(r)
  <2> DEFINE s == meshReq[r].surface
  <2>1. s \in SurfaceIds /\ meshReq[r].mesh \in Nat
    BY <1>2 DEF S!UpdateSurface, MeshKeyed, MeshHolding, S!Is, S!Request
  <2>2. CASE S!Exists(s)
    <3>1. named' = [named EXCEPT ![s] = Append(@, meshReq[r].mesh)]
      BY <1>2, <2>2 DEF S!UpdateSurface
    <3>2. QED BY <2>1, <3>1 DEF MeshGrows
  <2>3. CASE ~S!Exists(s)
    BY <1>2, <2>3 DEF S!UpdateSurface, MeshGrows
  <2>4. QED BY <2>2, <2>3
<1>3. CASE UNCHANGED named
  BY <1>3 DEF MeshGrows
<1>4. QED
  BY <1>1, <1>2, <1>3 DEF S!Build, S!BuildSurface, S!RebuildSurface, S!DeleteSurface, S!PutMesh,
     S!DeleteMesh

LEMMA MeshNeverOlderStays ==
    ASSUME MeshTypeInv, S!NeverOlder, MeshGrows,
           \A v \in VolumeIds, role \in S!Roles :
              volumes'[v][role] = volumes[v][role] \/ volumes'[v][role].surface = None
    PROVE  S!NeverOlder'
<1> SUFFICES ASSUME NEW v \in VolumeIds, NEW role \in S!Roles,
                    volumes'[v][role].surface # None
             PROVE  /\ volumes'[v][role].version \in DOMAIN named'[volumes'[v][role].surface]
                    /\ volumes'[v][role].mesh
                         >= named'[volumes'[v][role].surface][volumes'[v][role].version]
  BY DEF S!NeverOlder
<1>1. volumes'[v][role] = volumes[v][role] OBVIOUS
<1>2. volumes[v][role] \in S!Use BY DEF MeshTypeInv, S!TypeOK, S!Sides
<1>3. volumes[v][role].surface \in SurfaceIds BY <1>1, <1>2 DEF S!Use
<1>4. QED BY <1>1, <1>3 DEF S!NeverOlder, MeshGrows

\* A use with its mesh stays sound, wherever it is kept.
LEMMA MeshSoundStays ==
    ASSUME MeshGrows, NEW use \in S!Use, use.surface \in SurfaceIds, MeshSound(use)
    PROVE  /\ use.version \in DOMAIN named'[use.surface]
           /\ use.mesh >= named'[use.surface][use.version]
BY DEF MeshSound, MeshGrows

LEMMA MeshSidesStay ==
    ASSUME MeshTypeInv, MeshSidesOK, MeshGrows, NEW r \in SurfaceRequests, MeshOthers(r),
           meshReq'[r].at \notin {"row", "get", "volume"}
    PROVE  MeshSidesOK'
<1> SUFFICES ASSUME NEW q \in SurfaceRequests PROVE MeshSidesOf(q)'
  BY DEF MeshSidesOK
<1>1. CASE q = r
  BY <1>1 DEF MeshSidesOf, S!Is, MeshReading
<1>2. CASE q # r
  <2>1. meshReq'[q] = meshReq[q] /\ MeshSidesOf(q) BY <1>2 DEF MeshOthers, MeshSidesOK
  <2>2. meshReq[q] \in S!Request BY DEF MeshTypeInv, S!TypeOK
  <2>3. /\ meshReq[q].role \in S!Roles
        /\ \A role \in S!Roles : meshReq[q].sides[role] \in S!Use
        /\ "base" \in S!Roles
    BY <2>2 DEF S!Request, S!Sides, S!Roles
  <2>4. (S!Is(q, "get") => MeshSide(q).version \in DOMAIN named[MeshSide(q).surface])'
    BY <2>1, <2>3 DEF MeshSidesOf, MeshTypeInv, MeshKeyed, MeshReading, MeshSide, S!Is, MeshGrows
  <2>5. (MeshReading(q) /\ meshReq[q].role = "compare" =>
           meshReq[q].sides["base"].surface \in SurfaceIds /\ MeshSound(meshReq[q].sides["base"]))'
    BY <2>1, <2>3, MeshSoundStays DEF MeshSidesOf, MeshReading, S!Is, MeshSound
  <2>6. (S!Is(q, "volume") => \A role \in S!Roles : meshReq[q].sides[role].surface # None =>
           MeshSound(meshReq[q].sides[role]))'
    <3>1. SUFFICES ASSUME S!Is(q, "volume")', NEW role \in S!Roles,
                          meshReq'[q].sides[role].surface # None
                   PROVE  MeshSound(meshReq[q].sides[role])'
      OBVIOUS
    <3>2. S!Is(q, "volume") /\ meshReq[q].sides[role].surface # None
      BY <2>1, <3>1 DEF S!Is
    <3>3. MeshSound(meshReq[q].sides[role]) BY <2>1, <3>2 DEF MeshSidesOf
    <3>4. meshReq[q].sides[role] \in S!Use /\ meshReq[q].sides[role].surface \in SurfaceIds
      BY <2>3, <3>2 DEF S!Use
    <3>5. QED BY <2>1, <3>3, <3>4, MeshSoundStays DEF MeshSound
  <2>7. QED BY <2>4, <2>5, <2>6 DEF MeshSidesOf
<1>3. QED BY <1>1, <1>2

-----------------------------------------------------------------------------
(* Building, rebuilding and deleting. *)

\* What a request carries, spelled out.
LEMMA MeshRequestFacts ==
    ASSUME MeshTypeInv, NEW q \in SurfaceRequests
    PROVE  /\ meshReq[q] \in S!Request
           /\ meshReq[q].mesh \in Nat
           /\ meshReq[q].surface \in SurfaceIds \cup {None}
           /\ MeshHolding(q) => meshReq[q].surface \in SurfaceIds
           /\ puts \in Nat /\ None \notin SurfaceIds
           /\ \A s \in SurfaceIds : mesh[s] \in Nat /\ meshRows[s] \in S!Row /\ named[s] \in Seq(Nat)
BY DEF S!SurfacesAssumption, MeshTypeInv, S!TypeOK, MeshKeyed, S!Request

LEMMA MeshBuildNamed ==
    ASSUME MeshTypeInv, MeshNamedOK, MeshHandled, NEW r \in SurfaceRequests, S!Build(r)
    PROVE  MeshNamedOK'
<1>1. ASSUME NEW s \in SurfaceIds, S!BuildSurface(r, s) PROVE MeshNamedOK'
  BY <1>1 DEF S!BuildSurface, MeshNamedOK, S!Exists
<1>2. ASSUME NEW s \in SurfaceIds, S!RebuildSurface(r, s) PROVE MeshNamedOK'
  BY <1>2 DEF S!RebuildSurface, MeshNamedOK, S!Exists
<1>3. ASSUME NEW s \in SurfaceIds, S!DeleteSurface(r, s) PROVE MeshNamedOK'
  BY <1>3, MeshRequestFacts DEF S!DeleteSurface, MeshNamedOK, S!Exists, S!NoRow, MeshTypeInv, S!TypeOK
<1>4. CASE S!PutMesh(r)
  <2>1. mesh' = [mesh EXCEPT ![meshReq[r].surface] = puts + 1] /\ puts' = puts + 1
    BY <1>4 DEF S!PutMesh
  <2>2. UNCHANGED <<meshRows, used, named>> BY <1>4 DEF S!PutMesh
  <2>3. \A s \in SurfaceIds : \A i \in DOMAIN named[s] : named[s][i] \in Nat
    BY MeshRequestFacts
  <2>4. \A s \in SurfaceIds : meshRows[s].mesh \in Nat BY MeshRequestFacts DEF S!Row
  <2>5. QED BY <2>1, <2>2, <2>3, <2>4, MeshRequestFacts DEF MeshNamedOK, S!Exists, MeshTypeInv, S!TypeOK
<1>5. CASE S!InsertSurface(r)
  <2> DEFINE s == meshReq[r].surface
  <2>1. /\ s \in SurfaceIds /\ s \in used
        /\ meshReq[r].mesh \in 1..puts /\ meshReq[r].mesh <= mesh[s]
    BY <1>5, MeshRequestFacts DEF S!InsertSurface, MeshHandled, MeshHandledOf, MeshHolding, S!Is
  <2>2. /\ meshRows' = [meshRows EXCEPT ![s] = [version |-> 1, mesh |-> meshReq[r].mesh]]
        /\ named' = [named EXCEPT ![s] = <<meshReq[r].mesh>>]
        /\ UNCHANGED <<puts, mesh, used>>
    BY <1>5 DEF S!InsertSurface
  <2>3. QED BY <2>1, <2>2, MeshRequestFacts DEF MeshNamedOK, S!Exists, MeshTypeInv, S!TypeOK
<1>6. CASE S!UpdateSurface(r)
  <2> DEFINE s == meshReq[r].surface
  <2>1. s \in SurfaceIds /\ s \in used /\ meshReq[r].mesh \in 1..puts
    BY <1>6, MeshRequestFacts DEF S!UpdateSurface, MeshHandled, MeshHandledOf, MeshHolding, S!Is
  <2>2. CASE S!Exists(s)
    <3>1. meshReq[r].mesh <= mesh[s] BY <1>6, <2>2 DEF S!UpdateSurface, MeshHandled, MeshHandledOf
    <3>2. /\ meshRows' = [meshRows EXCEPT ![s] = [version |-> meshRows[s].version + 1,
                                          mesh |-> meshReq[r].mesh]]
          /\ named' = [named EXCEPT ![s] = Append(named[s], meshReq[r].mesh)]
          /\ UNCHANGED <<puts, mesh, used>>
      BY <1>6, <2>2 DEF S!UpdateSurface
    <3>3. /\ Len(Append(named[s], meshReq[r].mesh)) = Len(named[s]) + 1
          /\ \A i \in DOMAIN Append(named[s], meshReq[r].mesh) :
               \/ i \in DOMAIN named[s] /\ Append(named[s], meshReq[r].mesh)[i] = named[s][i]
               \/ Append(named[s], meshReq[r].mesh)[i] = meshReq[r].mesh
      <4>1. named[s] \in Seq(Nat) /\ meshReq[r].mesh \in Nat BY <2>1, MeshRequestFacts
      <4>2. QED BY <4>1
    <3>4. \A i \in DOMAIN named'[s] :
            named'[s][i] <= puts /\ (mesh[s] = 0 \/ named'[s][i] <= mesh[s])
      BY <2>1, <3>1, <3>2, <3>3 DEF MeshNamedOK, MeshTypeInv, S!TypeOK
    <3>5. meshRows'[s].version = Len(named'[s]) /\ meshRows'[s].mesh = meshReq[r].mesh
      BY <2>1, <2>2, <3>2, <3>3 DEF MeshNamedOK, MeshTypeInv, S!TypeOK
    <3>6. \A x \in SurfaceIds \ {s} : meshRows'[x] = meshRows[x] /\ named'[x] = named[x]
      BY <3>2 DEF MeshTypeInv, S!TypeOK
    <3>7. QED BY <2>1, <3>1, <3>2, <3>4, <3>5, <3>6 DEF MeshNamedOK, S!Exists
  <2>3. CASE ~S!Exists(s)
    BY <1>6, <2>3 DEF S!UpdateSurface, MeshNamedOK, S!Exists
  <2>4. QED BY <2>2, <2>3
<1>7. CASE S!DeleteMesh(r)
  <2>1. ~S!Exists(meshReq[r].surface) BY <1>7 DEF S!DeleteMesh, MeshHandled, MeshHandledOf
  <2>2. QED BY <1>7, <2>1, MeshRequestFacts DEF S!DeleteMesh, MeshNamedOK, S!Exists, MeshTypeInv, S!TypeOK
<1>8. QED BY <1>1, <1>2, <1>3, <1>4, <1>5, <1>6, <1>7 DEF S!Build

LEMMA MeshBuildHandled ==
    ASSUME MeshTypeInv, MeshNamedOK, MeshHandled, NEW r \in SurfaceRequests, S!Build(r),
           NEW q \in SurfaceRequests
    PROVE  MeshHandledOf(q)'
<1> USE DEF MeshTypeInv, S!TypeOK
<1>0. /\ MeshHandledOf(q) /\ MeshHandledOf(r)
      /\ \A s \in SurfaceIds : mesh[s] <= puts /\ (S!Exists(s) => s \in used)
  BY DEF MeshHandled, MeshNamedOK
<1>1. ASSUME NEW s \in SurfaceIds, S!BuildSurface(r, s) PROVE MeshHandledOf(q)'
  <2>1. ~S!Exists(s) /\ named[s] = <<>> /\ s \notin used
    BY <1>1 DEF S!BuildSurface, MeshNamedOK
  <2>2. \A p \in SurfaceRequests : meshReq[p].surface \in used \/ meshReq[p].surface = None
    BY DEF MeshHandled, MeshHandledOf
  <2>3. \A p \in SurfaceRequests : meshReq[p].surface # s
    BY <2>1, <2>2 DEF S!SurfacesAssumption
  <2>4. QED
    BY <1>0, <1>1, <2>1, <2>3, MeshRequestFacts
    DEF S!BuildSurface, S!Become, S!Idle, MeshHandledOf, MeshHolding, S!Is, S!Exists
<1>2. ASSUME NEW s \in SurfaceIds, S!RebuildSurface(r, s) PROVE MeshHandledOf(q)'
  BY <1>0, <1>2, MeshRequestFacts
  DEF S!RebuildSurface, S!Become, S!Idle, MeshHandledOf, MeshHolding, S!Is, S!Exists
<1>3. ASSUME NEW s \in SurfaceIds, S!DeleteSurface(r, s) PROVE MeshHandledOf(q)'
  BY <1>0, <1>3, MeshRequestFacts
  DEF S!DeleteSurface, S!Become, S!Idle, MeshHandledOf, MeshHolding, S!Is, S!Exists, S!NoRow
<1>4. CASE S!PutMesh(r)
  BY <1>0, <1>4, MeshRequestFacts DEF S!PutMesh, S!Become, MeshHandledOf, MeshHolding, S!Is, S!Exists
<1>5. CASE S!InsertSurface(r)
  BY <1>0, <1>5, MeshRequestFacts
  DEF S!InsertSurface, S!Done, S!Become, S!Idle, MeshHandledOf, MeshHolding, S!Is, S!Exists
<1>6. CASE S!UpdateSurface(r)
  BY <1>0, <1>6, MeshRequestFacts
  DEF S!UpdateSurface, S!Done, S!Become, S!Idle, MeshHandledOf, MeshHolding, S!Is, S!Exists
<1>7. CASE S!DeleteMesh(r)
  BY <1>0, <1>7, MeshRequestFacts
  DEF S!DeleteMesh, S!Done, S!Become, S!Idle, MeshHandledOf, MeshHolding, S!Is, S!Exists
<1>8. QED BY <1>1, <1>2, <1>3, <1>4, <1>5, <1>6, <1>7 DEF S!Build

LEMMA MeshBuildSafe ==
    ASSUME SurfacesInv, NEW r \in SurfaceRequests, S!Build(r)
    PROVE  SurfacesInv'
<1>1. MeshTypeInv /\ MeshNamedOK /\ MeshHandled /\ MeshSidesOK /\ S!NeverOlder BY DEF SurfacesInv
<1>2. MeshGrows BY <1>1, MeshBuildGrows
<1>3. MeshOthers(r) /\ meshReq'[r].at \notin {"row", "get", "volume"}
  <2>1. ASSUME NEW q, S!Become(r, q), q.at \notin {"row", "get", "volume"}
        PROVE  MeshOthers(r) /\ meshReq'[r].at \notin {"row", "get", "volume"}
    BY <1>1, <2>1, MeshBecomeOthers
  <2>2. ASSUME NEW s \in SurfaceIds, NEW l \in {"put", "reput", "delete"},
               S!Become(r, [S!Idle EXCEPT !.at = l, !.surface = s])
        PROVE  MeshOthers(r) /\ meshReq'[r].at \notin {"row", "get", "volume"}
    <3>1. [S!Idle EXCEPT !.at = l, !.surface = s].at = l BY DEF S!Idle
    <3>2. QED BY <2>1, <2>2, <3>1
  <2>3. CASE S!PutMesh(r)
    <3>1. meshReq[r] \in S!Request BY <1>1, MeshRequestFacts
    <3>2. PICK l \in {"insert", "update"} :
            S!Become(r, [meshReq[r] EXCEPT !.at = l, !.mesh = puts'])
      BY <2>3 DEF S!PutMesh
    <3>3. [meshReq[r] EXCEPT !.at = l, !.mesh = puts'].at = l BY <3>1 DEF S!Request
    <3>4. QED BY <2>1, <3>2, <3>3
  <2>4. CASE S!Done(r)
    BY <2>1, <2>4 DEF S!Done, S!Idle
  <2>5. QED
    BY <2>2, <2>3, <2>4 DEF S!Build, S!BuildSurface, S!RebuildSurface, S!DeleteSurface,
       S!InsertSurface, S!UpdateSurface, S!DeleteMesh
<1>4. \A v \in VolumeIds, role \in S!Roles :
        volumes'[v][role] = volumes[v][role] \/ volumes'[v][role].surface = None
  <2>1. CASE UNCHANGED volumes BY <2>1
  <2>2. ASSUME NEW s \in SurfaceIds, S!DeleteSurface(r, s),
               NEW v \in VolumeIds, NEW role \in S!Roles
        PROVE  volumes'[v][role] = volumes[v][role] \/ volumes'[v][role].surface = None
    <3>1. volumes'[v] = volumes[v] \/ volumes'[v] = S!NoVolume BY <2>2 DEF S!DeleteSurface
    <3>2. S!NoVolume[role].surface = None BY DEF S!NoVolume, S!Unused
    <3>3. QED BY <3>1, <3>2
  <2>3. CASE \E s \in SurfaceIds : S!DeleteSurface(r, s) BY <2>2, <2>3
  <2>4. UNCHANGED volumes \/ \E s \in SurfaceIds : S!DeleteSurface(r, s)
    BY DEF S!Build, S!BuildSurface, S!RebuildSurface, S!PutMesh, S!InsertSurface, S!UpdateSurface,
       S!DeleteMesh
  <2>5. QED BY <2>1, <2>3, <2>4
<1>5. MeshHandled' BY <1>1, MeshBuildHandled DEF MeshHandled
<1>6. QED
  BY <1>1, <1>2, <1>3, <1>4, <1>5, MeshBuildTypeInv, MeshBuildNamed, MeshSidesStay, MeshNeverOlderStays
  DEF SurfacesInv

-----------------------------------------------------------------------------
(* Computing volumes. *)

\* A step that leaves the surfaces alone and hands none to a request.
LEMMA SurfacesStay ==
    ASSUME MeshTypeInv, MeshNamedOK, MeshHandled, UNCHANGED <<puts, meshRows, mesh, named>>,
           used \subseteq used',
           \A q \in SurfaceRequests :
             \/ meshReq'[q] = meshReq[q]
             \/ meshReq'[q].surface = None /\ meshReq'[q].at \in {"idle", "row", "get", "volume"}
    PROVE  MeshNamedOK' /\ MeshHandled' /\ MeshGrows
<1>1. MeshNamedOK' BY DEF MeshNamedOK, S!Exists
<1>2. MeshGrows BY DEF MeshGrows
<1>3. ASSUME NEW q \in SurfaceRequests PROVE MeshHandledOf(q)'
  <2>1. MeshHandledOf(q) BY DEF MeshHandled
  <2>2. QED BY <2>1, MeshRequestFacts DEF MeshHandledOf, MeshHolding, S!Is, S!Exists
<1>4. QED BY <1>1, <1>2, <1>3 DEF MeshHandled

\* A step of one request that reads.
LEMMA MeshReadStep ==
    ASSUME SurfacesInv, NEW r \in SurfaceRequests, NEW q, S!Become(r, q), MeshTypeInv',
           q.surface = None, q.at \in {"idle", "row", "get", "volume"},
           UNCHANGED <<puts, meshRows, mesh, named>>, used \subseteq used',
           \A v \in VolumeIds, role \in S!Roles :
             \/ volumes'[v][role] = volumes[v][role]
             \/ volumes'[v][role] \in S!Use
                /\ (volumes'[v][role].surface # None => MeshSound(volumes'[v][role])),
           MeshSidesOf(r)'
    PROVE  SurfacesInv'
<1>1. MeshTypeInv /\ MeshNamedOK /\ MeshHandled /\ MeshSidesOK /\ S!NeverOlder BY DEF SurfacesInv
<1>2. MeshOthers(r) /\ meshReq'[r] = q BY <1>1, MeshBecomeOthers
<1>3. MeshNamedOK' /\ MeshHandled' BY <1>1, <1>2, SurfacesStay DEF MeshOthers
<1>4. MeshSidesOK'
  <2>1. ASSUME NEW p \in SurfaceRequests \ {r} PROVE MeshSidesOf(p)'
    BY <1>1, <1>2 DEF MeshSidesOK, MeshSidesOf, MeshOthers, S!Is, MeshReading, MeshSide, MeshSound
  <2>2. QED BY <2>1 DEF MeshSidesOK
<1>5. S!NeverOlder'
  BY <1>1 DEF S!NeverOlder, MeshSound
<1>6. QED BY <1>3, <1>4, <1>5 DEF SurfacesInv

LEMMA MeshAbortSafe ==
    ASSUME SurfacesInv, NEW r \in SurfaceRequests, MeshTypeInv', S!Done(r),
           UNCHANGED <<puts, meshRows, mesh, named, volumes, used>>
    PROVE  SurfacesInv'
<1>1. meshReq'[r] = S!Idle BY MeshBecomeOthers DEF SurfacesInv, S!Done
<1>2. MeshSidesOf(r)' BY <1>1 DEF MeshSidesOf, S!Is, MeshReading, S!Idle
<1>3. S!Idle.surface = None /\ S!Idle.at = "idle" BY DEF S!Idle
<1>4. QED BY <1>2, <1>3, MeshReadStep DEF S!Done

LEMMA MeshComputeSafe ==
    ASSUME SurfacesInv, NEW r \in SurfaceRequests, S!Compute(r)
    PROVE  SurfacesInv'
<1>1. MeshTypeInv /\ MeshNamedOK /\ MeshHandled /\ MeshSidesOK /\ S!NeverOlder BY DEF SurfacesInv
<1>2. MeshTypeInv' BY <1>1, MeshComputeTypeInv
<1>3. /\ MeshHandledOf(r) /\ MeshSidesOf(r) /\ meshReq[r] \in S!Request /\ meshReq[r].role \in S!Roles
      /\ \A role \in S!Roles : meshReq[r].sides[role] \in S!Use
  BY <1>1 DEF MeshHandled, MeshSidesOK, MeshTypeInv, S!TypeOK, S!Request, S!Sides
<1>4. ASSUME NEW b \in SurfaceIds, NEW c \in SurfaceIds \cup {None}, S!ComputeVolume(r, b, c)
      PROVE  SurfacesInv'
  <2> DEFINE sides == [base |-> [S!Unused EXCEPT !.surface = b],
                       compare |-> [S!Unused EXCEPT !.surface = c]]
             q == [S!Idle EXCEPT !.at = "row", !.sides = sides]
  <2>1. q.at = "row" /\ q.role = "base" /\ q.surface = None BY DEF S!Idle
  <2>2. S!Become(r, q) BY <1>4 DEF S!ComputeVolume
  <2>3. meshReq'[r] = q BY <1>1, <2>2, MeshBecomeOthers
  <2>4. MeshSidesOf(r)' BY <2>1, <2>3 DEF MeshSidesOf, S!Is, MeshReading
  <2>5. QED BY <1>2, <1>4, <2>1, <2>2, <2>4, MeshReadStep DEF S!ComputeVolume
<1>5. CASE S!LoadSurface(r)
  <2> DEFINE s == MeshSide(r).surface
             sides == [meshReq[r].sides EXCEPT ![meshReq[r].role].version = meshRows[s].version]
             q == [meshReq[r] EXCEPT !.at = "get", !.sides = sides]
  <2>1. CASE S!Exists(s)
    <3>1. s \in SurfaceIds BY <1>1, <1>5 DEF S!LoadSurface, MeshTypeInv, MeshKeyed, MeshReading
    <3>2. meshRows[s].version = Len(named[s]) /\ meshRows[s].version > 0 /\ named[s] \in Seq(Nat)
      BY <1>1, <2>1, <3>1, MeshRequestFacts DEF MeshNamedOK, S!Exists
    <3>3. meshRows[s].version \in DOMAIN named[s] BY <3>2
    <3>4. /\ q.at = "get" /\ q.role = meshReq[r].role /\ q.surface = None
          /\ q.sides[meshReq[r].role].surface = s
          /\ q.sides[meshReq[r].role].version = meshRows[s].version
          /\ meshReq[r].role = "compare" => q.sides["base"] = meshReq[r].sides["base"]
      BY <1>3, <1>5 DEF S!LoadSurface, MeshHandledOf, MeshHolding, S!Is, S!Request, S!Sides, S!Use, MeshSide, S!Roles
    <3>5. S!Become(r, q) BY <1>5, <2>1 DEF S!LoadSurface, MeshSide
    <3>6. meshReq'[r] = q BY <1>1, <3>5, MeshBecomeOthers
    <3>7. named' = named BY <1>5 DEF S!LoadSurface
    <3>8. meshReq[r].role = "compare" =>
            meshReq[r].sides["base"].surface \in SurfaceIds /\ MeshSound(meshReq[r].sides["base"])
      BY <1>3, <1>5 DEF S!LoadSurface, MeshSidesOf, MeshReading
    <3>9. MeshSidesOf(r)'
      BY <3>3, <3>4, <3>6, <3>7, <3>8 DEF MeshSidesOf, S!Is, MeshReading, MeshSide, MeshSound
    <3>10. QED BY <1>2, <1>5, <3>4, <3>5, <3>9, MeshReadStep DEF S!LoadSurface
  <2>2. CASE ~S!Exists(s)
    BY <1>2, <1>5, <2>2, MeshAbortSafe DEF S!LoadSurface, MeshSide
  <2>3. QED BY <2>1, <2>2
<1>6. CASE S!GetMesh(r)
  <2> DEFINE s == MeshSide(r).surface
             more == meshReq[r].role = "base" /\ meshReq[r].sides["compare"].surface # None
             sides == [meshReq[r].sides EXCEPT ![meshReq[r].role].mesh = mesh[s]]
             q == [meshReq[r] EXCEPT !.at = IF more THEN "row" ELSE "volume",
                                 !.role = IF more THEN "compare" ELSE @,
                                 !.sides = sides]
  <2>1. CASE mesh[s] # 0
    <3>1. s \in SurfaceIds BY <1>1, <1>6 DEF S!GetMesh, MeshTypeInv, MeshKeyed, MeshReading
    <3>2. MeshSide(r).version \in DOMAIN named[s] /\ named[s][MeshSide(r).version] <= mesh[s]
      BY <1>1, <1>3, <1>6, <2>1, <3>1 DEF S!GetMesh, MeshSidesOf, MeshNamedOK
    <3>3. /\ q.surface = None /\ q.sides = sides
          /\ IF more THEN q.at = "row" /\ q.role = "compare" ELSE q.at = "volume"
      BY <1>3, <1>6 DEF S!GetMesh, MeshHandledOf, MeshHolding, S!Is, S!Request
    <3>4. /\ sides[meshReq[r].role].surface = s
          /\ sides[meshReq[r].role].version = MeshSide(r).version
          /\ sides[meshReq[r].role].mesh = mesh[s]
          /\ \A role \in S!Roles \ {meshReq[r].role} : sides[role] = meshReq[r].sides[role]
      BY <1>3 DEF S!Request, S!Sides, S!Use, MeshSide
    <3>5. MeshSound(sides[meshReq[r].role])
      <4>1. mesh[s] \in Nat /\ named[s] \in Seq(Nat) BY <1>1, <3>1, MeshRequestFacts
      <4>2. QED BY <3>2, <3>4, <4>1 DEF MeshSound
    <3>6. S!Become(r, q) BY <1>6, <2>1 DEF S!GetMesh, MeshSide
    <3>7. meshReq'[r] = q BY <1>1, <3>6, MeshBecomeOthers
    <3>8. named' = named BY <1>6 DEF S!GetMesh
    <3>9. CASE more
      <4>1. q.at = "row" /\ q.role = "compare" /\ meshReq[r].role = "base"
        BY <3>3, <3>9
      <4>2. sides["base"].surface \in SurfaceIds /\ MeshSound(sides["base"])
        BY <3>1, <3>4, <3>5, <4>1
      <4>3. MeshSidesOf(r)'
        BY <3>3, <3>7, <3>8, <4>1, <4>2 DEF MeshSidesOf, S!Is, MeshReading, MeshSound
      <4>4. QED BY <1>2, <1>6, <3>3, <3>6, <4>1, <4>3, MeshReadStep DEF S!GetMesh
    <3>10. CASE ~more
      <4>1. q.at = "volume" BY <3>3, <3>10
      <4>2. ASSUME NEW role \in S!Roles, sides[role].surface # None
            PROVE  MeshSound(sides[role])
        <5>1. CASE role = meshReq[r].role BY <3>5, <5>1
        <5>2. CASE role # meshReq[r].role
          <6>1. sides[role] = meshReq[r].sides[role] BY <3>4, <5>2
          <6>2. meshReq[r].role = "compare" /\ role = "base"
            BY <1>3, <3>10, <4>2, <5>2, <6>1 DEF S!Roles
          <6>3. QED BY <1>3, <1>6, <6>1, <6>2 DEF S!GetMesh, MeshSidesOf, MeshReading
        <5>3. QED BY <5>1, <5>2
      <4>3. MeshSidesOf(r)'
        BY <3>3, <3>7, <3>8, <4>1, <4>2 DEF MeshSidesOf, S!Is, MeshReading, MeshSound
      <4>4. QED BY <1>2, <1>6, <3>3, <3>6, <4>1, <4>3, MeshReadStep DEF S!GetMesh
    <3>11. QED BY <3>9, <3>10
  <2>2. CASE mesh[s] = 0
    BY <1>2, <1>6, <2>2, MeshAbortSafe DEF S!GetMesh, MeshSide
  <2>3. QED BY <2>1, <2>2
<1>7. ASSUME NEW v \in VolumeIds, S!InsertVolume(r, v) PROVE SurfacesInv'
  <2>1. S!Become(r, S!Idle) /\ S!Idle.surface = None /\ S!Idle.at = "idle"
    BY <1>7 DEF S!InsertVolume, S!Done, S!Idle
  <2>2. meshReq'[r] = S!Idle BY <1>1, <2>1, MeshBecomeOthers
  <2>3. MeshSidesOf(r)' BY <2>1, <2>2 DEF MeshSidesOf, S!Is, MeshReading
  <2>4. \A role \in S!Roles : meshReq[r].sides[role].surface # None => MeshSound(meshReq[r].sides[role])
    BY <1>3, <1>7 DEF S!InsertVolume, MeshSidesOf
  <2>5. \A w \in VolumeIds, role \in S!Roles :
          \/ volumes'[w][role] = volumes[w][role]
          \/ volumes'[w][role] \in S!Use
             /\ (volumes'[w][role].surface # None => MeshSound(volumes'[w][role]))
    BY <1>1, <1>3, <1>7, <2>4 DEF S!InsertVolume, MeshTypeInv, S!TypeOK
  <2>6. UNCHANGED <<puts, meshRows, mesh, named>> /\ used \subseteq used'
    BY <1>7 DEF S!InsertVolume
  <2>7. QED BY <1>2, <2>1, <2>3, <2>5, <2>6, MeshReadStep
<1>8. QED BY <1>4, <1>5, <1>6, <1>7 DEF S!Compute

-----------------------------------------------------------------------------
(* Theorems. *)

LEMMA MeshInitSafe == S!SurfacesAssumption /\ S!Init => SurfacesInv
<1> SUFFICES ASSUME S!SurfacesAssumption, S!Init PROVE SurfacesInv
  OBVIOUS
<1>1. MeshTypeInv
  BY MeshIdleRequest
  DEF S!SurfacesAssumption, S!Init, MeshTypeInv, S!TypeOK, S!NoRow, S!Row, MeshKeyed, MeshHolding, MeshReading, S!Is
<1>2. MeshNamedOK BY DEF S!Init, MeshNamedOK, S!Exists, S!NoRow
<1>3. MeshHandled BY MeshIdleRequest DEF S!Init, MeshHandled, MeshHandledOf, MeshHolding, S!Is
<1>4. MeshSidesOK BY MeshIdleRequest DEF S!Init, MeshSidesOK, MeshSidesOf, MeshReading, S!Is
<1>5. S!NeverOlder BY DEF S!Init, S!NeverOlder, S!NoVolume, S!Unused
<1>6. QED BY <1>1, <1>2, <1>3, <1>4, <1>5 DEF SurfacesInv

LEMMA MeshStepSafe == SurfacesInv /\ [S!Next]_(S!vars) => SurfacesInv'
<1> SUFFICES ASSUME SurfacesInv, [S!Next]_(S!vars) PROVE SurfacesInv'
  OBVIOUS
<1>1. MeshTypeInv /\ MeshNamedOK /\ MeshHandled /\ MeshSidesOK /\ S!NeverOlder BY DEF SurfacesInv
<1>2. MeshTypeInv' BY <1>1, MeshNextTypeInv
<1>3. ASSUME NEW r \in SurfaceRequests, S!Abort(r) PROVE SurfacesInv'
  BY <1>2, <1>3, MeshAbortSafe DEF S!Abort
<1>4. ASSUME NEW v \in VolumeIds, S!DeleteVolume(v) PROVE SurfacesInv'
  <2>1. UNCHANGED <<puts, meshRows, mesh, named, used, meshReq>> BY <1>4 DEF S!DeleteVolume
  <2>2. MeshNamedOK' /\ MeshHandled' /\ MeshGrows BY <1>1, <2>1, SurfacesStay
  <2>3. MeshSidesOK' BY <1>1, <2>1 DEF MeshSidesOK, MeshSidesOf, S!Is, MeshReading, MeshSide, MeshSound
  <2>4. \A w \in VolumeIds, role \in S!Roles :
          volumes'[w][role] = volumes[w][role] \/ volumes'[w][role].surface = None
    BY <1>1, <1>4 DEF S!DeleteVolume, S!NoVolume, S!Unused, MeshTypeInv, S!TypeOK
  <2>5. S!NeverOlder' BY <1>1, <2>2, <2>4, MeshNeverOlderStays
  <2>6. QED BY <1>2, <2>2, <2>3, <2>5 DEF SurfacesInv
<1>5. CASE UNCHANGED S!vars
  <2>1. UNCHANGED <<puts, meshRows, mesh, named, used, meshReq, volumes>> BY <1>5 DEF S!vars
  <2>2. MeshNamedOK' /\ MeshHandled' /\ MeshGrows BY <1>1, <2>1, SurfacesStay
  <2>3. MeshSidesOK' BY <1>1, <2>1 DEF MeshSidesOK, MeshSidesOf, S!Is, MeshReading, MeshSide, MeshSound
  <2>4. S!NeverOlder' BY <1>1, <2>1 DEF S!NeverOlder
  <2>5. QED BY <1>2, <2>2, <2>3, <2>4 DEF SurfacesInv
<1>6. QED BY <1>3, <1>4, <1>5, MeshBuildSafe, MeshComputeSafe DEF S!Next

\* The inductive invariant: whatever is built, rebuilt, deleted and read in between
\* (schema/surface), every hand holds what its step needs.
THEOREM SurfacesInvariant ==
    ASSUME S!SurfacesAssumption PROVE S!Spec => []SurfacesInv
<1>1. QED BY MeshInitSafe, MeshStepSafe, PTL DEF S!Spec

\* Rows, meshes, volumes and requests keep their shape under every handler.
THEOREM SurfacesTypeSafe ==
    ASSUME S!SurfacesAssumption PROVE S!Spec => []S!TypeOK
<1>1. SurfacesInv => S!TypeOK BY DEF SurfacesInv, MeshTypeInv
<1>2. QED BY <1>1, SurfacesInvariant, PTL

\* A surface in the table has a mesh in the store, no older than its inputs, although
\* rebuild_surface and delete_surface write the two apart.
THEOREM RowsHaveMeshes ==
    ASSUME S!SurfacesAssumption PROVE S!Spec => []S!RowHasMesh
<1>1. SurfacesInv => S!RowHasMesh
  <2> SUFFICES ASSUME SurfacesInv, NEW s \in SurfaceIds, S!Exists(s)
               PROVE  mesh[s] >= meshRows[s].mesh /\ mesh[s] > 0
    BY DEF S!RowHasMesh
  <2>1. mesh[s] \in Nat /\ meshRows[s].mesh \in Nat
    BY MeshRequestFacts DEF SurfacesInv, MeshTypeInv, S!TypeOK, S!Row
  <2>2. meshRows[s].mesh > 0 /\ meshRows[s].mesh <= mesh[s] BY DEF SurfacesInv, MeshNamedOK
  <2>3. QED BY <2>1, <2>2
<1>2. QED BY <1>1, SurfacesInvariant, PTL

\* A volume is computed from the mesh that its recorded version names or a newer one,
\* because load_surface_for_volume reads the version before the mesh.
THEOREM VolumesNeverOlder ==
    ASSUME S!SurfacesAssumption PROVE S!Spec => []S!NeverOlder
<1>1. SurfacesInv => S!NeverOlder BY DEF SurfacesInv
<1>2. QED BY <1>1, SurfacesInvariant, PTL

-----------------------------------------------------------------------------
(* Both views.                                                             *)
LEMMA FilesSide == StoredSpec => Spec
<1>1. StoredInit => Init BY DEF StoredInit
<1>2. [StoredNext]_<<surfaces, vars, surfaceVars>> => [Next]_vars
  BY DEF StoredNext
<1>3. QED BY <1>1, <1>2, PTL DEF StoredSpec, Spec

LEMMA SurfacesSide == StoredSpec => S!Spec
<1>1. StoredInit => S!Init BY DEF StoredInit
<1>2. [StoredNext]_<<surfaces, vars, surfaceVars>> => [S!Next]_(S!vars)
  BY DEF StoredNext, surfaceVars, S!vars
<1>3. QED BY <1>1, <1>2, PTL DEF StoredSpec, S!Spec

-----------------------------------------------------------------------------
\* Tables, stores and requests of both views keep their shape.
THEOREM StoredTypeSafe == StoredSpec => []StoredTypeOK
<1>1. S!Spec => []S!TypeOK BY StoredAssumption, SurfacesTypeSafe
<1>2. QED BY <1>1, FilesTypeSafe, FilesSide, SurfacesSide, PTL DEF StoredTypeOK

\* Every surface row has a mesh, and not an older one than the row names,
\* whatever overlaps or is dropped (surface/mutation.rs), files included.
THEOREM StoredMeshes == StoredSpec => []RowHasMesh
<1>1. S!Spec => []S!RowHasMesh BY StoredAssumption, RowsHaveMeshes
<1>2. QED BY <1>1, SurfacesSide, PTL DEF RowHasMesh

\* A volume is never of an older mesh than its version says.
THEOREM StoredVolumes == StoredSpec => []NeverOlder
<1>1. S!Spec => []S!NeverOlder BY StoredAssumption, VolumesNeverOlder
<1>2. QED BY <1>1, SurfacesSide, PTL DEF NeverOlder
=============================================================================
