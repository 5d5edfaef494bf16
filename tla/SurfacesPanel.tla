---------------------------- MODULE SurfacesPanel ----------------------------
(***************************************************************************)
(* The surfaces panel (surfaces-panel.tsx, over schema/surface): surfaces  *)
(* are built from the survey points, a drawing, a raster or the terrain;   *)
(* constraints and design points are captured from scene clicks, volumes   *)
(* computed on a surface.  Which surface and which volume the scene shows  *)
(* belongs to the page and outlives the panel.  Every button that calls    *)
(* the API shares one "busy", which is over when the call is answered: the *)
(* list is loaded, and the new record selected, after that.  Records are   *)
(* numbers; a capture has enough points or not; the surface a volume is    *)
(* compared with is left out.                                              *)
(***************************************************************************)
EXTENDS Requests

CONSTANT MaxChanges

VARIABLES ui, db, hist

vars == <<net, ui, db, hist>>

None == 0
Lists == [surfaces |-> {}, lines |-> {}, volumes |-> <<>>]
Panel == [mounted |-> TRUE, lists |-> Lists, base |-> None, capture |-> "none", line |-> FALSE, points |-> FALSE,
          busy |-> FALSE, pending |-> None, handler |-> "none", hint |-> FALSE]
Load(what, select) == [op |-> "load", what |-> what, select |-> select]
All == {"surfaces", "lines", "volumes"}

Init ==
    /\ \E volumes \in {<<>>, [v \in {2} |-> 1]} :
          db = [surfaces |-> {1}, lines |-> {}, volumes |-> volumes, next |-> 3, changes |-> 0]
    /\ ui = Extended(Panel, [surface |-> None, volume |-> None])
    /\ net = [NoCalls EXCEPT ![1] = Asked(Load(All, None))]
    /\ hist = [odd |-> FALSE]

-----------------------------------------------------------------------------
\* The effect of a capture: scene clicks go to it, and the hint is shown.
Render(u) ==
    LET on == IF u.mounted THEN u.capture ELSE "none"
    IN  [u EXCEPT !.handler = on, !.hint = on # "none"]

\* "odd": a request failed, or the user acted while one was under way.
Crossing == hist' = [hist EXCEPT !.odd = @ \/ ~Quiet]
Changes == {"build", "rebuild", "remove", "line", "unline", "volume", "unvolume"}
MayChange ==
    db.changes + Cardinality({s \in Slots : net[s].op \in Changes /\ net[s].st = "sent"}) < MaxChanges
Here == ui.mounted /\ ui.pending = None

-----------------------------------------------------------------------------
\* A row of the list shows its surface in the scene, or hides it.
ClickSurface(i) ==
    /\ Here /\ i \in ui.lists.surfaces
    /\ ui' = [ui EXCEPT !.surface = IF @ = i THEN None ELSE i]
    /\ Crossing
    /\ UNCHANGED <<net, db>>

ClickVolume(v) ==
    /\ Here /\ v \in DOMAIN ui.lists.volumes
    /\ ui' = [ui EXCEPT !.volume = IF @ = v THEN None ELSE v]
    /\ Crossing
    /\ UNCHANGED <<net, db>>

\* Drawing design points and digitizing a constraint give way to each other;
\* points begin anew, a constraint goes on from what was captured before.
StartCapture(what) ==
    /\ Here /\ ui.capture # what
    /\ ui' = Render([ui EXCEPT !.capture = what, !.points = @ /\ what # "points"])
    /\ Crossing
    /\ UNCHANGED <<net, db>>

Captured(u, got) ==
    IF u.capture = "line" THEN [u EXCEPT !.line = got] ELSE [u EXCEPT !.points = got]

Capture(got) ==
    /\ ui.mounted /\ ui.handler # "none"
    /\ ui' = Captured(ui, got)
    /\ UNCHANGED <<net, db, hist>>

CancelCapture ==
    /\ Here /\ ui.capture # "none"
    /\ ui' = Render([Captured(ui, FALSE) EXCEPT !.capture = "none"])
    /\ Crossing
    /\ UNCHANGED <<net, db>>

\* run of useMutation; "active" is what the scene showed when it was called.
Run(r) ==
    /\ MayChange
    /\ Send(Extended(r, [frees |-> TRUE]))
    /\ ui' = [ui EXCEPT !.busy = TRUE, !.pending = None]
    /\ Crossing
    /\ UNCHANGED db

Build == Here /\ ~ui.busy /\ Run([op |-> "build", via |-> "scope", lines |-> ui.lists.lines])
BuildDesign ==
    Here /\ ~ui.busy /\ ui.capture = "points" /\ ui.points /\ Run([op |-> "build", via |-> "points", lines |-> {}])
SnapshotTerrain == Here /\ ~ui.busy /\ Run([op |-> "build", via |-> "terrain", lines |-> {}])
Rebuild(i) == Here /\ ~ui.busy /\ i \in ui.lists.surfaces /\ Run([op |-> "rebuild", i |-> i, lines |-> ui.lists.lines])
SaveBreakline == Here /\ ~ui.busy /\ ui.capture = "line" /\ ui.line /\ Run([op |-> "line", via |-> "capture"])
AutoBoundary == Here /\ ~ui.busy /\ ui.capture # "line" /\ Run([op |-> "line", via |-> "auto"])

\* The base of a volume: the one picked, or the surface the scene shows.
BaseId(u) == IF u.base # None THEN u.base ELSE u.surface

PickBase(i) ==
    /\ Here /\ i \in ui.lists.surfaces /\ ui.base # i
    /\ ui' = [ui EXCEPT !.base = i]
    /\ Crossing
    /\ UNCHANGED <<net, db>>

ComputeVolume ==
    /\ Here /\ ~ui.busy /\ ui.lists.surfaces # {} /\ BaseId(ui) # None
    /\ Run([op |-> "volume", base |-> BaseId(ui)])

\* A deletion is confirmed, and held back by nothing.
AskDelete(i) ==
    /\ Here /\ i \in ui.lists.surfaces \cup ui.lists.lines \cup DOMAIN ui.lists.volumes
    /\ ui' = [ui EXCEPT !.pending = i]
    /\ UNCHANGED <<net, db, hist>>

CancelDelete ==
    /\ ui.pending # None
    /\ ui' = [ui EXCEPT !.pending = None]
    /\ UNCHANGED <<net, db, hist>>

ConfirmDelete ==
    /\ ui.pending # None
    /\ Run([i |-> ui.pending, active |-> ui.pending \in {ui.surface, ui.volume},
            op |-> IF ui.pending \in ui.lists.surfaces THEN "remove"
                   ELSE IF ui.pending \in ui.lists.lines THEN "unline" ELSE "unvolume"])

Export ==
    /\ Here /\ ~ui.busy /\ (ui.lists.surfaces # {} \/ ui.lists.volumes # <<>>)
    /\ Send([op |-> "export", frees |-> TRUE])
    /\ ui' = [ui EXCEPT !.busy = TRUE]
    /\ Crossing
    /\ UNCHANGED db

\* The two dialogs commit a file with a busy of their own.
Commit(op, via) ==
    /\ Here /\ MayChange
    /\ Send([op |-> op, via |-> via, lines |-> {}, frees |-> FALSE])
    /\ Crossing
    /\ UNCHANGED <<ui, db>>

UploadDem == Commit("build", "raster")
ImportBreaklines == ui.capture # "line" /\ Commit("line", "import")

Leave ==
    /\ Here
    /\ ui' = Render(Extended([Panel EXCEPT !.mounted = FALSE], ui))
    /\ net' = Orphaned
    /\ Crossing
    /\ UNCHANGED db

Return ==
    /\ ~ui.mounted
    /\ ui' = Extended(Panel, ui)
    /\ Send(Load(All, None))
    /\ Crossing
    /\ UNCHANGED db

-----------------------------------------------------------------------------
\* The server; what hangs on a deleted surface goes with it.
Refused(r) ==
    \/ r.op \in {"rebuild", "remove"} /\ r.i \notin db.surfaces
    \/ r.op = "unline" /\ r.i \notin db.lines
    \/ r.op = "unvolume" /\ r.i \notin DOMAIN db.volumes
    \/ r.op = "volume" /\ r.base \notin db.surfaces

\* Mutant: a deleted surface keeps its volumes.
OnAny(volumes, surfaces) == volumes

On(volumes, surfaces) == [v \in {w \in DOMAIN volumes : volumes[w] \in surfaces} |-> volumes[v]]

Written(r) ==
    CASE r.op = "build"    -> [db EXCEPT !.surfaces = @ \cup {db.next}]
      [] r.op = "rebuild"  -> db
      [] r.op = "remove"   -> [db EXCEPT !.surfaces = @ \ {r.i}, !.volumes = On(@, db.surfaces \ {r.i})]
      [] r.op = "line"     -> [db EXCEPT !.lines = @ \cup {db.next}]
      [] r.op = "unline"   -> [db EXCEPT !.lines = @ \ {r.i}]
      [] r.op = "volume"   -> [db EXCEPT !.volumes = Entered(db.next, r.base, @)]
      [] r.op = "unvolume" -> [db EXCEPT !.volumes = [v \in DOMAIN @ \ {r.i} |-> @[v]]]

Write(s) ==
    /\ net[s].op \in Changes /\ net[s].st = "sent" /\ ~Refused(net[s])
    /\ db' = [Written(net[s]) EXCEPT !.next = @ + 1, !.changes = @ + 1]
    /\ Answer(s, db.next)
    /\ UNCHANGED <<ui, hist>>

Read(s) ==
    /\ net[s].op \in {"load", "export"} /\ net[s].st = "sent"
    /\ Answer(s, [surfaces |-> db.surfaces, lines |-> db.lines, volumes |-> db.volumes])
    /\ UNCHANGED <<ui, db, hist>>

-----------------------------------------------------------------------------
\* What a handler sets in its panel is lost with it, the selection is not.
Set(s, u) == ui' = IF net[s].mine THEN Render(u) ELSE [ui EXCEPT !.surface = u.surface, !.volume = u.volume]
Freed(s) == [ui EXCEPT !.busy = @ /\ ~net[s].frees]
Reload(s, what, select) ==
    net' = [net EXCEPT ![s] = Extended(Load({what}, select), [st |-> "sent", mine |-> net[s].mine])]

\* The picked base goes when the list no longer has it.
Listed(u, lists) == [u EXCEPT !.lists = lists, !.base = IF @ \in lists.surfaces THEN @ ELSE None]
Shows(u, what, i) ==
    IF i = None THEN u ELSE IF what = {"volumes"} THEN [u EXCEPT !.volume = i] ELSE [u EXCEPT !.surface = i]

Loaded(s) ==
    /\ At(s, "load", "done")
    /\ Settle(s)
    /\ LET lists == [what \in All |-> IF what \in net[s].what THEN net[s].ans[what] ELSE ui.lists[what]]
       IN  Set(s, Shows(Listed(ui, lists), net[s].what, net[s].select))
    /\ UNCHANGED <<db, hist>>

\* The raster dialog selects at once what the others select once it is listed.
Built(s) ==
    /\ net[s].op \in {"build", "rebuild"} /\ net[s].st = "done"
    /\ LET i == IF net[s].op = "build" THEN net[s].ans ELSE net[s].i
           via == IF net[s].op = "build" THEN net[s].via ELSE "scope"
       IN  /\ Reload(s, "surfaces", IF via = "raster" THEN None ELSE i)
           /\ Set(s, CASE via = "points" -> [Freed(s) EXCEPT !.points = FALSE, !.capture = IF @ = "points" THEN "none" ELSE @]
                       [] via = "raster" -> [Freed(s) EXCEPT !.surface = i]
                       [] OTHER          -> Freed(s))
    /\ UNCHANGED <<db, hist>>

Constrained(s) ==
    /\ net[s].op \in {"line", "unline"} /\ net[s].st = "done"
    /\ Reload(s, "lines", None)
    /\ Set(s, IF net[s].op = "line" /\ net[s].via = "capture"
              THEN [Freed(s) EXCEPT !.line = FALSE, !.capture = IF @ = "line" THEN "none" ELSE @] ELSE Freed(s))
    /\ UNCHANGED <<db, hist>>

Computed(s) ==
    /\ At(s, "volume", "done")
    /\ Reload(s, "volumes", net[s].ans)
    /\ Set(s, Freed(s))
    /\ UNCHANGED <<db, hist>>

\* What the scene showed when its deletion was confirmed is hidden.
Removed(s) ==
    /\ net[s].op \in {"remove", "unvolume"} /\ net[s].st = "done"
    /\ Reload(s, IF net[s].op = "remove" THEN "surfaces" ELSE "volumes", None)
    /\ Set(s, IF ~net[s].active THEN Freed(s)
              ELSE IF net[s].op = "remove" THEN [Freed(s) EXCEPT !.surface = None] ELSE [Freed(s) EXCEPT !.volume = None])
    /\ UNCHANGED <<db, hist>>

Exported(s) ==
    /\ At(s, "export", "done")
    /\ Settle(s)
    /\ Set(s, Freed(s))
    /\ UNCHANGED <<db, hist>>

\* A list of surfaces that does not come leaves the old one, the other lists
\* are emptied.
Emptied(u, what) == [u EXCEPT !.lists.lines = IF "lines" \in what THEN {} ELSE @,
                              !.lists.volumes = IF "volumes" \in what THEN <<>> ELSE @]

Failed(s) ==
    /\ net[s].st \in {"sent", "done"}
    /\ Settle(s)
    /\ Set(s, IF net[s].op = "load" THEN Shows(Emptied(ui, net[s].what), net[s].what, net[s].select) ELSE Freed(s))
    /\ hist' = [hist EXCEPT !.odd = TRUE]
    /\ UNCHANGED db

OfRow(i) == ClickSurface(i) \/ ClickVolume(i) \/ Rebuild(i) \/ PickBase(i) \/ AskDelete(i)
User ==
    \/ \E i \in 1 .. db.next : OfRow(i)
    \/ \E what \in {"line", "points"} : StartCapture(what) \/ \E got \in BOOLEAN : Capture(got)
    \/ CancelCapture \/ Build \/ BuildDesign \/ SnapshotTerrain \/ SaveBreakline \/ AutoBoundary
    \/ ComputeVolume \/ CancelDelete \/ ConfirmDelete \/ Export \/ Leave \/ Return
    \/ UploadDem \/ ImportBreaklines
Settles(s) ==
    Loaded(s) \/ Built(s) \/ Constrained(s) \/ Computed(s) \/ Removed(s) \/ Exported(s) \/ Failed(s)

Next == User \/ \E s \in Slots : Write(s) \/ Read(s) \/ Settles(s)
Spec == Init /\ [][Next]_vars

-----------------------------------------------------------------------------
TypeOK ==
    /\ {ui.surface, ui.volume, ui.base, ui.pending} \subseteq 0 .. db.next
    /\ ui.busy => \E s \in Slots : net[s] # NoCall /\ net[s].mine
    /\ \A v \in DOMAIN db.volumes : db.volumes[v] \in db.surfaces

\* A scene click goes to the capture on the screen, and to none without one.
Bridge ==
    /\ ui.handler = IF ui.mounted THEN ui.capture ELSE "none"
    /\ ui.hint <=> ui.handler # "none"

\* With nothing under way the lists are the server's, unless a request failed
\* or the user did not wait for one; of the volumes one may be left whose
\* surface was deleted.
ShowsLists ==
    Quiet /\ ~hist.odd /\ ui.mounted =>
        /\ ui.lists.surfaces = db.surfaces
        /\ ui.lists.lines = db.lines
        /\ On(ui.lists.volumes, db.surfaces) = db.volumes

\* Then the scene shows a surface that exists, and the base of a volume has a
\* name in the list.
ShownExists ==
    Quiet /\ ~hist.odd =>
        /\ ui.surface \in db.surfaces \cup {None}
        /\ ui.mounted => BaseId(ui) \in ui.lists.surfaces \cup {None}
=============================================================================
