---------------------------- MODULE AnalysisPanel ----------------------------
(***************************************************************************)
(* The analysis panel (analysis-panel.tsx, over schema/analysis.rs): a     *)
(* path is drawn from scene clicks or typed coordinates and run as one of  *)
(* the kinds.  The selected analysis, the paths and the result the scene   *)
(* draws belong to the page; it draws them while the tab is active.  An    *)
(* analysis is a number, with a result once it was run; its geometry is    *)
(* its number of points, 0, 1 or enough (2).  What the panel asks for when *)
(* it mounts, the analyses and the vehicles, is one request.               *)
(***************************************************************************)
EXTENDS Requests

CONSTANT MaxChanges

VARIABLES ui, db, hist

vars == <<net, ui, db, hist>>

None == 0
Kinds == {"turning", "parking", "draft"}
Analysis(points, run) == [points |-> points, run |-> run]
Load(select) == [op |-> "load", select |-> select, first |-> FALSE]
FirstLoad == [op |-> "load", select |-> None, first |-> TRUE]
Panel == [mounted |-> TRUE, list |-> <<>>, kind |-> "turning", vehicle |-> FALSE, capturing |-> FALSE,
          points |-> 0, busy |-> FALSE, pending |-> None, handler |-> FALSE, hint |-> FALSE]
Scene == [selected |-> None, paths |-> {}, result |-> None]

-----------------------------------------------------------------------------
\* What the panel publishes: the drawing from its first point, and the path
\* and the result of the selected analysis, if the list has it.
Paths(u) ==
    (IF u.capturing /\ u.points > 0 THEN {None} ELSE {})
        \cup {a \in DOMAIN u.list \cap {u.selected} : u.list[a].points = 2}
Result(u) == IF u.selected \in DOMAIN u.list /\ u.list[u.selected].run THEN u.selected ELSE None

\* React commits, and the effects run; an unmounted panel publishes nothing.
Render(u) ==
    LET on == u.mounted /\ u.capturing
        v == [u EXCEPT !.handler = on, !.hint = on]
    IN  IF u.mounted THEN [v EXCEPT !.paths = Paths(u), !.result = Result(u)] ELSE v

Init ==
    /\ \E list \in {<<>>, <<Analysis(2, TRUE)>>} :
          db = [list |-> list, next |-> 2, changes |-> 0]
    /\ ui = Extended(Panel, Scene)
    /\ net = [NoCalls EXCEPT ![1] = Asked(FirstLoad)]
    /\ hist = [odd |-> FALSE]

\* "odd": a request failed, or the user acted while one was under way.
Crossing == hist' = [hist EXCEPT !.odd = @ \/ ~Quiet]
Changes == {"create", "duplicate", "remove"}
MayChange ==
    db.changes + Cardinality({s \in Slots : net[s].op \in Changes /\ net[s].st = "sent"}) < MaxChanges
Here == ui.mounted /\ ui.pending = None

-----------------------------------------------------------------------------
ChooseKind(kind) ==
    /\ Here /\ kind # ui.kind
    /\ ui' = [ui EXCEPT !.kind = kind]
    /\ UNCHANGED <<net, db, hist>>

\* Drawing goes on from the points that are there.
Draw ==
    /\ Here /\ ~ui.capturing
    /\ ui' = Render([ui EXCEPT !.capturing = TRUE])
    /\ Crossing
    /\ UNCHANGED <<net, db>>

AddPoint(clicked) ==
    /\ ui.mounted /\ ui.points < 2
    /\ IF clicked THEN ui.handler ELSE ui.capturing
    /\ ui' = Render([ui EXCEPT !.points = @ + 1])
    /\ UNCHANGED <<net, db, hist>>

DropPoint ==
    /\ Here /\ ui.capturing /\ ui.points > 0
    /\ ui' = Render([ui EXCEPT !.points = @ - 1])
    /\ UNCHANGED <<net, db, hist>>

CancelDraw ==
    /\ Here /\ ui.capturing
    /\ ui' = Render([ui EXCEPT !.capturing = FALSE, !.points = 0])
    /\ Crossing
    /\ UNCHANGED <<net, db>>

Run(r) ==
    /\ MayChange
    /\ Send(r)
    /\ ui' = [ui EXCEPT !.busy = TRUE, !.pending = None]
    /\ Crossing
    /\ UNCHANGED db

\* A draft may be saved without a point, a run needs a path, and a turning
\* run a vehicle.
RunDrawing ==
    /\ Here /\ ui.capturing /\ ~ui.busy
    /\ ui.kind # "draft" => ui.points = 2
    /\ ui.kind = "turning" => ui.vehicle
    /\ Run([op |-> "create", a |-> Analysis(ui.points, ui.kind # "draft")])

Duplicate(a) == Here /\ ~ui.busy /\ a \in DOMAIN ui.list /\ Run([op |-> "duplicate", i |-> a])

Select(a) ==
    /\ Here /\ a \in DOMAIN ui.list
    /\ ui' = Render([ui EXCEPT !.selected = IF @ = a THEN None ELSE a])
    /\ Crossing
    /\ UNCHANGED <<net, db>>

AskDelete(a) ==
    /\ Here /\ a \in DOMAIN ui.list
    /\ ui' = [ui EXCEPT !.pending = a]
    /\ UNCHANGED <<net, db, hist>>

CancelDelete ==
    /\ ui.pending # None
    /\ ui' = [ui EXCEPT !.pending = None]
    /\ UNCHANGED <<net, db, hist>>

ConfirmDelete ==
    /\ ui.pending # None
    /\ Run([op |-> "remove", i |-> ui.pending, active |-> ui.pending = ui.selected])

Leave ==
    /\ Here
    /\ ui' = Render(Extended([Panel EXCEPT !.mounted = FALSE], ui))
    /\ net' = Orphaned
    /\ Crossing
    /\ UNCHANGED db

Return ==
    /\ ~ui.mounted
    /\ ui' = Render(Extended(Panel, ui))
    /\ Send(FirstLoad)
    /\ Crossing
    /\ UNCHANGED db

-----------------------------------------------------------------------------
\* The server; a copy is a fresh draft of the same path.
Refused(r) == r.op \in {"duplicate", "remove"} /\ r.i \notin DOMAIN db.list

Written(r) ==
    CASE r.op = "create"    -> Entered(db.next, r.a, db.list)
      [] r.op = "duplicate" -> Entered(db.next, Analysis(db.list[r.i].points, FALSE), db.list)
      [] OTHER              -> [a \in DOMAIN db.list \ {r.i} |-> db.list[a]]

Write(s) ==
    /\ net[s].op \in Changes /\ net[s].st = "sent" /\ ~Refused(net[s])
    /\ db' = [list |-> Written(net[s]), next |-> db.next + 1, changes |-> db.changes + 1]
    /\ Answer(s, db.next)
    /\ UNCHANGED <<ui, hist>>

Read(s) ==
    /\ At(s, "load", "sent")
    /\ Answer(s, db.list)
    /\ UNCHANGED <<ui, db, hist>>

-----------------------------------------------------------------------------
\* What a handler sets in its panel is lost with it, the selection is not.
Set(s, u) == ui' = IF net[s].mine THEN Render(u) ELSE Render([ui EXCEPT !.selected = u.selected])
Reload(s, select) == net' = [net EXCEPT ![s] = Extended(Load(select), [st |-> "sent", mine |-> net[s].mine])]

\* The new analysis is selected once the list is there, or has failed.
Listed(s, list, vehicle) ==
    Set(s, [ui EXCEPT !.list = list, !.vehicle = vehicle,
                      !.selected = IF net[s].select = None THEN @ ELSE net[s].select])

Loaded(s) ==
    /\ At(s, "load", "done")
    /\ Settle(s)
    /\ Listed(s, net[s].ans, ui.vehicle \/ net[s].first)
    /\ UNCHANGED <<db, hist>>

Created(s) ==
    /\ At(s, "create", "done")
    /\ Reload(s, net[s].ans)
    /\ Set(s, [ui EXCEPT !.capturing = FALSE, !.points = 0, !.busy = FALSE])
    /\ UNCHANGED <<db, hist>>

Duplicated(s) ==
    /\ At(s, "duplicate", "done")
    /\ Reload(s, net[s].ans)
    /\ Set(s, [ui EXCEPT !.busy = FALSE])
    /\ UNCHANGED <<db, hist>>

\* What was selected when its deletion was confirmed is selected no longer.
Removed(s) ==
    /\ At(s, "remove", "done")
    /\ Reload(s, None)
    /\ Set(s, [ui EXCEPT !.busy = FALSE, !.selected = IF net[s].active THEN None ELSE @])
    /\ UNCHANGED <<db, hist>>

Failed(s) ==
    /\ net[s].st \in {"sent", "done"}
    /\ Settle(s)
    /\ IF net[s].op = "load" THEN Listed(s, ui.list, ui.vehicle) ELSE Set(s, [ui EXCEPT !.busy = FALSE])
    /\ hist' = [hist EXCEPT !.odd = TRUE]
    /\ UNCHANGED db

User ==
    \/ \E kind \in Kinds : ChooseKind(kind)
    \/ \E a \in DOMAIN ui.list : Duplicate(a) \/ Select(a) \/ AskDelete(a)
    \/ \E clicked \in BOOLEAN : AddPoint(clicked)
    \/ Draw \/ DropPoint \/ CancelDraw \/ RunDrawing \/ CancelDelete \/ ConfirmDelete \/ Leave \/ Return
Settles(s) == Loaded(s) \/ Created(s) \/ Duplicated(s) \/ Removed(s) \/ Failed(s)

Next == User \/ \E s \in Slots : Write(s) \/ Read(s) \/ Settles(s)
Spec == Init /\ [][Next]_vars

-----------------------------------------------------------------------------
TypeOK ==
    /\ {ui.selected, ui.result, ui.pending} \cup ui.paths \subseteq 0 .. db.next
    /\ ui.kind \in Kinds /\ ui.points \in 0 .. 2
    /\ ui.busy => \E s \in Slots : net[s] # NoCall /\ net[s].mine

\* A scene click goes to the drawing on the screen, and to none without one.
Bridge == (ui.handler <=> ui.mounted /\ ui.capturing) /\ (ui.hint <=> ui.handler)

\* The scene draws what the panel holds: its drawing, and of the selected
\* analysis the path and, once it was run, the result.
Published == ui.mounted => ui.paths = Paths(ui) /\ ui.result = Result(ui)

\* With nothing under way the list is the server's and what is selected and
\* drawn exists, unless a request failed or the user did not wait for one.
ShowsAnalyses ==
    Quiet /\ ~hist.odd =>
        /\ ui.mounted => ui.list = db.list
        /\ {ui.selected, ui.result} \subseteq DOMAIN db.list \cup {None}
=============================================================================
