---------------------------- MODULE OverlaysPanel ----------------------------
(***************************************************************************)
(* The DXF overlays of a project (cad-overlay-panel.tsx and its rows, over *)
(* schema/overlays.rs).  A row keeps its own copy of the placement, which  *)
(* it fine-tunes, fits to the survey points, or aligns to the grid from    *)
(* four clicks in the scene.  All rows share one bridge to the scene: the  *)
(* click handler, the hint and the markers, held by the row that aligns.   *)
(* A placement is known by how it came about; an alignment is "skewed"     *)
(* when its points were not picked under the placement it is composed      *)
(* onto.  The scene is taken to draw the saved placement.                  *)
(***************************************************************************)
EXTENDS Requests, Sequences

CONSTANTS Overlays, MaxChanges

VARIABLES ui, db, hist

vars == <<net, ui, db, hist>>

Placements == {"start", "typed", "fitted", "aligned", "skewed"}
None == "none"
Row(place) == [place |-> place, picks |-> <<>>, saving |-> FALSE, placing |-> FALSE]
Load == [op |-> "load"]

Init ==
    /\ \E os \in SUBSET Overlays :
          /\ db = [os |-> [o \in os |-> "start"], changes |-> 0]
          /\ ui = [mounted |-> TRUE, os |-> db.os, rows |-> [o \in os |-> Row("start")], busy |-> FALSE,
                   aligning |-> None, handler |-> None, hint |-> FALSE, markers |-> 0]
    /\ net = NoCalls
    /\ hist = [odd |-> FALSE, seen |-> 0]

-----------------------------------------------------------------------------
\* The row whose effects hold the bridge.
Active(u) == IF u.mounted /\ u.aligning \in DOMAIN u.rows THEN u.aligning ELSE None

\* Mutant: the effect of a capture does not clean up.
RenderOver(u) ==
    IF Active(u) = None THEN u
    ELSE [u EXCEPT !.handler = Active(u), !.hint = TRUE, !.markers = Len(u.rows[Active(u)].picks)]

\* React commits: the effects of a row that no longer aligns are cleaned up,
\* then those of the row that aligns run.
Render(u) ==
    LET left == IF Active(ui) \notin {None, Active(u)}
                THEN [u EXCEPT !.handler = None, !.hint = FALSE, !.markers = 0] ELSE u
    IN  IF Active(u) = None THEN left
        ELSE [left EXCEPT !.handler = Active(u), !.hint = TRUE, !.markers = Len(u.rows[Active(u)].picks)]

\* "odd": a request failed, an answer was overtaken, or the user did a second
\* thing while the first was under way.
Crossing == hist' = [hist EXCEPT !.odd = @ \/ ~Quiet]
SetRow(o, r) == ui' = Render([ui EXCEPT !.rows[o] = r])

MayChange ==
    db.changes + Cardinality({s \in Slots : net[s].op \notin {"none", "load"} /\ net[s].st = "sent"}) < MaxChanges

\* A slider or its input.
Type(o) ==
    /\ SetRow(o, [ui.rows[o] EXCEPT !.place = "typed"])
    /\ Crossing
    /\ UNCHANGED <<net, db>>

\* Align to grid: this row takes the capture over, or gives it up.
ToggleAlign(o) ==
    /\ ui' = Render([ui EXCEPT !.aligning = IF @ = o THEN None ELSE o])
    /\ Crossing
    /\ UNCHANGED <<net, db>>

\* A snapped click: a vertex of a drawing (any drawing's will do), then the
\* intersection it belongs on, twice; any other click is ignored.
Expected(picks) == IF Len(picks) % 2 = 0 THEN "vertex" ELSE "grid"

Pick(kind, o) ==
    /\ ui.handler # None
    /\ LET row == ui.rows[ui.handler]
       IN  /\ Len(row.picks) < 4 /\ kind = Expected(row.picks)
           /\ kind = "vertex" => o \in DOMAIN db.os
           /\ SetRow(ui.handler, [row EXCEPT !.picks = Append(@, CASE kind = "grid"     -> "grid"
                                                                  [] o # ui.handler   -> "other"
                                                                  [] OTHER            -> db.os[o])])
    /\ UNCHANGED <<net, db, hist>>

Undo(o) ==
    /\ ui.aligning = o /\ ui.rows[o].picks # <<>>
    /\ SetRow(o, [ui.rows[o] EXCEPT !.picks = SubSeq(@, 1, Len(@) - 1)])
    /\ UNCHANGED <<net, db, hist>>

CancelAlign(o) ==
    /\ ui.aligning = o
    /\ ui' = Render([ui EXCEPT !.rows[o].picks = <<>>, !.aligning = None])
    /\ Crossing
    /\ UNCHANGED <<net, db>>

ApplyAlign(o) ==
    /\ ui.aligning = o /\ ~ui.rows[o].saving /\ Len(ui.rows[o].picks) = 4 /\ MayChange
    /\ Send([op |-> "align", o |-> o, from |-> {ui.rows[o].picks[i] : i \in {1, 3}}, cur |-> None])
    /\ SetRow(o, [ui.rows[o] EXCEPT !.saving = TRUE])
    /\ Crossing
    /\ UNCHANGED db

\* Apply sends all of the row's placement, and so does the Visible switch,
\* which is never disabled.
Geo(o, place, frees) == [op |-> "geo", o |-> o, place |-> place, frees |-> frees]

Apply(o, switch) ==
    /\ switch \/ ~ui.rows[o].saving
    /\ MayChange
    /\ Send(Geo(o, ui.rows[o].place, "saving"))
    /\ SetRow(o, [ui.rows[o] EXCEPT !.saving = TRUE])
    /\ Crossing
    /\ UNCHANGED db

AutoPlace(o) ==
    /\ ~ui.rows[o].placing /\ MayChange
    /\ Send([op |-> "fit", o |-> o])
    /\ SetRow(o, [ui.rows[o] EXCEPT !.placing = TRUE])
    /\ Crossing
    /\ UNCHANGED db

\* The drop zone opens the file input whether busy or not.
Upload(o) ==
    /\ ui.mounted /\ o \notin DOMAIN db.os /\ MayChange
    /\ \A s \in Flying("upload") : net[s].o # o
    /\ Send([op |-> "upload", o |-> o])
    /\ ui' = [ui EXCEPT !.busy = TRUE]
    /\ Crossing
    /\ UNCHANGED db

Remove(o) ==
    /\ MayChange
    /\ Send([op |-> "remove", o |-> o])
    /\ Crossing
    /\ UNCHANGED <<ui, db>>

Leave ==
    /\ ui.mounted
    /\ ui' = Render([ui EXCEPT !.mounted = FALSE, !.rows = <<>>, !.aligning = None, !.busy = FALSE])
    /\ net' = [s \in Slots |-> IF net[s].op = "load" THEN net[s] ELSE Orphaned[s]]
    /\ Crossing
    /\ UNCHANGED db

Return ==
    /\ ~ui.mounted
    /\ ui' = [ui EXCEPT !.mounted = TRUE, !.rows = [o \in DOMAIN ui.os |-> Row(ui.os[o])]]
    /\ UNCHANGED <<net, db, hist>>

-----------------------------------------------------------------------------
\* The server: what is gone is refused.
Refused(r) == r.op \in {"geo", "align", "fit", "remove"} /\ r.o \notin DOMAIN db.os

\* align_cad_overlay reads the placement, then writes the solved one.
ReadPlacement(s) ==
    /\ At(s, "align", "sent") /\ ~Refused(net[s])
    /\ net' = [net EXCEPT ![s].st = "read", ![s].cur = db.os[net[s].o]]
    /\ UNCHANGED <<ui, db, hist>>

Composed(from, cur) == IF from = {cur} THEN "aligned" ELSE "skewed"

Align(s) ==
    /\ At(s, "align", "read") /\ ~Refused(net[s])
    /\ LET place == Composed(net[s].from, net[s].cur)
       IN  db' = [db EXCEPT !.os[net[s].o] = place, !.changes = @ + 1] /\ Answer(s, place)
    /\ UNCHANGED <<ui, hist>>

Write(s) ==
    /\ net[s].op \in {"geo", "upload", "remove"} /\ net[s].st = "sent" /\ ~Refused(net[s])
    /\ LET r == net[s]
           os == db.os
       IN  db' = [db EXCEPT !.changes = @ + 1,
                            !.os = CASE r.op = "geo"    -> [os EXCEPT ![r.o] = r.place]
                                     [] r.op = "upload" -> Entered(r.o, "start", os)
                                     [] OTHER           -> [o \in DOMAIN os \ {r.o} |-> os[o]]]
    /\ Answer(s, TRUE)
    /\ UNCHANGED <<ui, hist>>

Read(s) ==
    /\ net[s].op \in {"load", "fit"} /\ net[s].st = "sent" /\ ~Refused(net[s])
    /\ IF net[s].op = "load" THEN Answer(s, db) ELSE \E points \in BOOLEAN : Answer(s, points)
    /\ UNCHANGED <<ui, db, hist>>

-----------------------------------------------------------------------------
\* What a handler sets in its row is lost with the row.
Here(s) == net[s].mine /\ net[s].o \in DOMAIN ui.rows
Freed(row, how) == IF how = "saving" THEN [row EXCEPT !.saving = FALSE] ELSE [row EXCEPT !.placing = FALSE]

\* onChanged: the page loads again.
Changed(s) == Follow(s, Load)

\* The page's answer; a row that appears starts from it, the others keep
\* what they hold.
Loaded(s) ==
    /\ At(s, "load", "done")
    /\ Settle(s)
    /\ LET os == net[s].ans.os
           Kept(o) == IF o \in DOMAIN ui.rows THEN ui.rows[o] ELSE Row(os[o])
       IN  ui' = Render([ui EXCEPT !.os = os, !.rows = IF ui.mounted THEN [o \in DOMAIN os |-> Kept(o)] ELSE <<>>])
    /\ hist' = [hist EXCEPT !.odd = @ \/ net[s].ans.changes < hist.seen, !.seen = net[s].ans.changes]
    /\ UNCHANGED db

\* An alignment ends the capture, whichever row has it by now.
Aligned(s) ==
    /\ At(s, "align", "done")
    /\ Changed(s)
    /\ ui' = IF ~net[s].mine THEN ui
             ELSE LET u == IF Here(s) THEN [ui EXCEPT !.rows[net[s].o] =
                               [@ EXCEPT !.place = net[s].ans, !.picks = <<>>, !.saving = FALSE]] ELSE ui
                  IN  Render([u EXCEPT !.aligning = None])
    /\ UNCHANGED <<db, hist>>

Applied(s) ==
    /\ At(s, "geo", "done")
    /\ Changed(s)
    /\ IF Here(s) THEN SetRow(net[s].o, Freed(ui.rows[net[s].o], net[s].frees)) ELSE UNCHANGED ui
    /\ UNCHANGED <<db, hist>>

\* Auto-place shows the fitted placement, then saves it; without points or an
\* origin there is nothing to fit to.
Fitted(s) ==
    /\ At(s, "fit", "done")
    /\ IF net[s].ans
       THEN /\ net' = [net EXCEPT ![s] = Extended(Geo(net[s].o, "fitted", "placing"),
                                                   [st |-> "sent", mine |-> net[s].mine])]
            /\ IF Here(s) THEN SetRow(net[s].o, [ui.rows[net[s].o] EXCEPT !.place = "fitted"])
               ELSE UNCHANGED ui
       ELSE /\ Settle(s)
            /\ IF Here(s) THEN SetRow(net[s].o, Freed(ui.rows[net[s].o], "placing")) ELSE UNCHANGED ui
    /\ UNCHANGED <<db, hist>>

Moved(s) ==
    /\ net[s].op \in {"upload", "remove"} /\ net[s].st = "done"
    /\ Changed(s)
    /\ ui' = [ui EXCEPT !.busy = @ /\ ~(net[s].op = "upload" /\ net[s].mine)]
    /\ UNCHANGED <<db, hist>>

Failed(s) ==
    /\ net[s].st \in {"sent", "done"}
    /\ Settle(s)
    /\ IF net[s].op \in {"align", "geo", "fit"}
       THEN LET how == CASE net[s].op = "geo" -> net[s].frees [] net[s].op = "fit" -> "placing" [] OTHER -> "saving"
            IN  IF Here(s) THEN SetRow(net[s].o, Freed(ui.rows[net[s].o], how)) ELSE UNCHANGED ui
       ELSE ui' = [ui EXCEPT !.busy = @ /\ ~(net[s].op = "upload" /\ net[s].mine)]
    /\ hist' = [hist EXCEPT !.odd = TRUE]
    /\ UNCHANGED db

OfRow(o) ==
    \/ Type(o) \/ ToggleAlign(o) \/ Undo(o) \/ CancelAlign(o) \/ ApplyAlign(o) \/ AutoPlace(o) \/ Remove(o)
    \/ \E switch \in BOOLEAN : Apply(o, switch)
User ==
    \/ \E o \in DOMAIN ui.rows : OfRow(o)
    \/ \E o \in Overlays : Upload(o) \/ \E kind \in {"vertex", "grid"} : Pick(kind, o)
    \/ Leave \/ Return
Serve(s) == ReadPlacement(s) \/ Align(s) \/ Write(s) \/ Read(s)
Settles(s) == Loaded(s) \/ Aligned(s) \/ Applied(s) \/ Fitted(s) \/ Moved(s) \/ Failed(s)

Next == User \/ \E s \in Slots : Serve(s) \/ Settles(s)
Spec == Init /\ [][Next]_vars

-----------------------------------------------------------------------------
TypeOK ==
    /\ \A o \in DOMAIN db.os : db.os[o] \in Placements
    /\ \A o \in DOMAIN ui.rows : ui.rows[o].place \in Placements /\ Len(ui.rows[o].picks) <= 4
    /\ DOMAIN ui.rows \subseteq Overlays

\* The scene's clicks, hint and markers are those of the one row that shows
\* its capture, and of none when no row does.
Bridge ==
    /\ ui.handler = Active(ui)
    /\ ui.hint <=> Active(ui) # None
    /\ ui.markers = IF Active(ui) = None THEN 0 ELSE Len(ui.rows[Active(ui)].picks)

\* With nothing under way a row holds the saved placement, unless it was fine
\* tuned since, a request failed, or the user acted while one was under way.
RowTruth ==
    Quiet /\ ~hist.odd =>
        /\ ui.os = db.os
        /\ \A o \in DOMAIN ui.rows : ui.rows[o].place \in {"typed", db.os[o]}

\* schema/overlays.rs:239: the placement an alignment is composed onto is the
\* one its points were picked under.  It does not hold when the placement is
\* saved anew between the picks and the alignment.
PickedUnder == \A o \in DOMAIN db.os : db.os[o] # "skewed"
=============================================================================
