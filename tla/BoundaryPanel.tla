---------------------------- MODULE BoundaryPanel ----------------------------
(***************************************************************************)
(* The property boundary card (boundary-panel.tsx): a ring drawn by picks  *)
(* in the scene, found from a parcel service, saved and cleared, over      *)
(* set_project_boundary.  The scene hands a pick to whichever panel has    *)
(* put its handler into the page's pickRef, and hints at it while          *)
(* digitizing is set.  A ring is the sequence of its vertices.             *)
(***************************************************************************)
EXTENDS Requests, Sequences

CONSTANTS Verts, MaxRing, MaxSaves

VARIABLES ui, db, hist

vars == <<net, ui, db, hist>>

Load == [op |-> "load"]
Parcel == [i \in 1 .. 3 |-> CHOOSE v \in Verts : TRUE]
NoDraft == <<"none">>

\* A panel as it mounts, and the page's side of it: the boundary it loaded,
\* the hint, the handler, and the draft the scene draws.
Fresh(page) == [mounted |-> TRUE, editing |-> FALSE, verts |-> <<>>, finding |-> FALSE, busy |-> FALSE,
                page |-> page, digitizing |-> FALSE, pick |-> FALSE, draft |-> NoDraft]

Init ==
    /\ net = NoCalls
    /\ \E ring \in {<<>>, Parcel} :
          db = [ring |-> ring, saves |-> 0] /\ ui = Fresh(ring)
    /\ hist = [faulty |-> FALSE, seen |-> 0]

\* The three effects, run after each change of editing or verts: the bridge
\* to the scene and the draft it draws.
Effects(u) == [u EXCEPT !.pick = u.editing, !.digitizing = u.editing,
                        !.draft = IF u.editing THEN u.verts ELSE NoDraft]

Set(u) == ui' = Effects(u)

StartEdit ==
    /\ ui.mounted /\ ~ui.editing
    /\ Set([ui EXCEPT !.editing = TRUE, !.verts = ui.page])
    /\ UNCHANGED <<net, db, hist>>

\* A vertex typed in, or a point of the scene clicked while a handler is there.
AddVertex(v) ==
    /\ ui.pick \/ (ui.mounted /\ ui.editing)
    /\ Len(ui.verts) < MaxRing
    /\ Set([ui EXCEPT !.verts = Append(@, v)])
    /\ UNCHANGED <<net, db, hist>>

RemoveVertex(i) ==
    /\ ui.mounted /\ ui.editing
    /\ Set([ui EXCEPT !.verts = SubSeq(@, 1, i - 1) \o SubSeq(@, i + 1, Len(@))])
    /\ UNCHANGED <<net, db, hist>>

Cancel ==
    /\ ui.mounted /\ ui.editing
    /\ Set([ui EXCEPT !.editing = FALSE, !.verts = <<>>])
    /\ UNCHANGED <<net, db, hist>>

FindParcel ==
    /\ ui.mounted /\ ~ui.editing /\ ~ui.finding
    /\ Send([op |-> "parcel"])
    /\ ui' = [ui EXCEPT !.finding = TRUE]
    /\ UNCHANGED <<db, hist>>

Put(ring) ==
    /\ ui.mounted /\ ~ui.busy
    /\ db.saves + Cardinality({s \in Slots : At(s, "set", "sent")}) < MaxSaves
    /\ Send([op |-> "set", ring |-> ring])
    /\ ui' = [ui EXCEPT !.busy = TRUE]
    /\ UNCHANGED <<db, hist>>

Save == ui.editing /\ Len(ui.verts) >= 3 /\ Put(ui.verts)
Clear == ~ui.editing /\ Len(ui.page) >= 3 /\ Put(<<>>)

\* Another tab and back: cleanup takes the handler, the hint and the draft
\* with it; requests go on without their panel.
Leave ==
    /\ ui.mounted
    /\ ui' = [Fresh(ui.page) EXCEPT !.mounted = FALSE]
    /\ net' = Orphaned
    /\ UNCHANGED <<db, hist>>

Return ==
    /\ ~ui.mounted
    /\ ui' = Fresh(ui.page)
    /\ UNCHANGED <<net, db, hist>>

-----------------------------------------------------------------------------
\* set_project_boundary: at least three vertices, or none.
Store(s) ==
    /\ At(s, "set", "sent")
    /\ net[s].ring = <<>> \/ Len(net[s].ring) >= 3
    /\ db' = [ring |-> net[s].ring, saves |-> db.saves + 1]
    /\ Answer(s, TRUE)
    /\ UNCHANGED <<ui, hist>>

ReadPage(s) ==
    /\ At(s, "load", "sent")
    /\ Answer(s, db)
    /\ UNCHANGED <<ui, db, hist>>

AskService(s) ==
    /\ At(s, "parcel", "sent")
    /\ \E found \in {<<>>, Parcel} : Answer(s, found)
    /\ UNCHANGED <<ui, db, hist>>

Fail(s) ==
    /\ net[s].st \in {"sent", "done"} /\ ~hist.faulty
    /\ Throw(s)
    /\ hist' = [hist EXCEPT !.faulty = TRUE]
    /\ UNCHANGED <<ui, db>>

-----------------------------------------------------------------------------
\* A parcel becomes the drawing, whatever was drawn since it was asked for.
ParcelCame(s) ==
    /\ At(s, "parcel", "done")
    /\ Settle(s)
    /\ IF ~net[s].mine THEN UNCHANGED ui
       ELSE IF net[s].ans = <<>> THEN ui' = [ui EXCEPT !.finding = FALSE]
       ELSE Set([ui EXCEPT !.finding = FALSE, !.verts = net[s].ans, !.editing = TRUE])
    /\ UNCHANGED <<db, hist>>

\* The ring is saved or cleared: the drawing ends, the page loads.
Stored(s) ==
    /\ At(s, "set", "done")
    /\ Follow(s, Load)
    /\ IF net[s].mine THEN Set([ui EXCEPT !.busy = FALSE, !.editing = FALSE, !.verts = <<>>])
                      ELSE UNCHANGED ui
    /\ UNCHANGED <<db, hist>>

Loaded(s) ==
    /\ At(s, "load", "done")
    /\ Settle(s)
    /\ ui' = [ui EXCEPT !.page = net[s].ans.ring]
    /\ hist' = [hist EXCEPT !.faulty = @ \/ net[s].ans.saves < hist.seen, !.seen = net[s].ans.saves]
    /\ UNCHANGED db

Failed(s) ==
    /\ net[s].st = "failed"
    /\ Settle(s)
    /\ ui' = CASE net[s].op = "set" /\ net[s].mine    -> [ui EXCEPT !.busy = FALSE]
               [] net[s].op = "parcel" /\ net[s].mine -> [ui EXCEPT !.finding = FALSE]
               [] OTHER                               -> ui
    /\ UNCHANGED <<db, hist>>

User ==
    \/ StartEdit \/ Cancel \/ FindParcel \/ Save \/ Clear \/ Leave \/ Return
    \/ \E v \in Verts : AddVertex(v)
    \/ \E i \in DOMAIN ui.verts : RemoveVertex(i)
Serve(s) == Store(s) \/ ReadPage(s) \/ AskService(s)
Settles(s) == ParcelCame(s) \/ Stored(s) \/ Loaded(s) \/ Failed(s)

Next == User \/ \E s \in Slots : Serve(s) \/ Settles(s) \/ Fail(s)
Spec == Init /\ [][Next]_vars

-----------------------------------------------------------------------------
TypeOK ==
    /\ Len(ui.verts) <= MaxRing
    /\ ui.page \in {<<>>} \cup UNION {[1 .. n -> Verts] : n \in 3 .. MaxRing}
    /\ ui.busy => \E s \in Flying("set") : net[s].mine

\* With nothing in flight the page shows the server's ring, unless a request failed
\* or an older answer was applied last.
ShowsBoundary == Quiet /\ ~hist.faulty => ui.page = db.ring

\* The hint, the handler and the draft are there for a drawing on screen, and
\* for nothing else, through tab changes and late answers.
Bridge == /\ ui.pick <=> ui.mounted /\ ui.editing
          /\ ui.digitizing <=> ui.pick
          /\ ui.draft = IF ui.pick THEN ui.verts ELSE NoDraft
=============================================================================
