------------------------------ MODULE GeorefCard ------------------------------
(***************************************************************************)
(* The georeference card (georeference-card.tsx over update_project): a    *)
(* draft of the project's scale, origin and rotation, taken together as    *)
(* one value (NoOrigin: no latitude or longitude yet).  The draft starts   *)
(* over when the project the page holds has changed, and only then: the    *)
(* page also loads again for other reasons.                                *)
(***************************************************************************)
EXTENDS Requests

CONSTANTS Values, NoOrigin, MaxChanges

VARIABLES ui, db, hist

vars == <<net, ui, db, hist>>

Load == [op |-> "load"]
Card(v) == [mounted |-> TRUE, project |-> v, synced |-> v, draft |-> v, dirty |-> FALSE, saving |-> FALSE]

Init ==
    /\ db = [v |-> NoOrigin, changes |-> 0]
    /\ ui = Card(NoOrigin)
    /\ net = NoCalls
    /\ hist = [odd |-> FALSE, seen |-> 0]

\* Mutants: a new project leaves the draft as it was; every load resets it.
RenderOnce(u) == IF u.mounted /\ u.project # u.synced THEN [u EXCEPT !.synced = u.project] ELSE u
RenderAlways(u) == IF u.mounted THEN [u EXCEPT !.synced = u.project, !.draft = u.project, !.dirty = FALSE] ELSE u

\* Adjusted during render: the draft follows a project that is not the one
\* it was made from.
Render(u) ==
    IF u.mounted /\ u.project # u.synced
    THEN [u EXCEPT !.synced = u.project, !.draft = u.project, !.dirty = FALSE] ELSE u

MayChange == db.changes + Cardinality(Flying("save")) < MaxChanges
Crossing == hist' = [hist EXCEPT !.odd = @ \/ ~Quiet]

-----------------------------------------------------------------------------
\* A slider is disabled until its value is there; the input always works.
Edit(v, slider) ==
    /\ ui.mounted /\ v # NoOrigin
    /\ slider => ui.draft # NoOrigin
    /\ ui' = [ui EXCEPT !.draft = v, !.dirty = TRUE]
    /\ Crossing
    /\ UNCHANGED <<net, db>>

Reset ==
    /\ ui.mounted /\ ui.dirty /\ ~ui.saving
    /\ ui' = [ui EXCEPT !.draft = ui.project, !.dirty = FALSE]
    /\ UNCHANGED <<net, db, hist>>

Save ==
    /\ ui.mounted /\ ui.dirty /\ ~ui.saving /\ MayChange
    /\ Send([op |-> "save", v |-> ui.draft])
    /\ ui' = [ui EXCEPT !.saving = TRUE]
    /\ Crossing
    /\ UNCHANGED db

\* Something else on the page has changed, and the page loads again.
Reload ==
    /\ Flying("load") = {}
    /\ Send(Load)
    /\ UNCHANGED <<ui, db, hist>>

Leave ==
    /\ ui.mounted
    /\ ui' = [ui EXCEPT !.mounted = FALSE, !.draft = ui.project, !.synced = ui.project, !.dirty = FALSE,
                        !.saving = FALSE]
    /\ net' = [s \in Slots |-> IF net[s].op = "load" THEN net[s] ELSE Orphaned[s]]
    /\ Crossing
    /\ UNCHANGED db

Return ==
    /\ ~ui.mounted
    /\ ui' = Card(ui.project)
    /\ UNCHANGED <<net, db, hist>>

-----------------------------------------------------------------------------
\* update_project keeps what is sent as null: an origin is never taken away.
Write(s) ==
    /\ At(s, "save", "sent")
    /\ db' = [v |-> IF net[s].v = NoOrigin THEN db.v ELSE net[s].v, changes |-> db.changes + 1]
    /\ Answer(s, TRUE)
    /\ UNCHANGED <<ui, hist>>

Read(s) ==
    /\ At(s, "load", "sent")
    /\ Answer(s, db)
    /\ UNCHANGED <<ui, db, hist>>

\* Another session's change.
Elsewhere(v) ==
    /\ MayChange
    /\ db' = [v |-> v, changes |-> db.changes + 1]
    /\ hist' = [hist EXCEPT !.odd = TRUE]
    /\ UNCHANGED <<net, ui>>

-----------------------------------------------------------------------------
Saved(s) ==
    /\ At(s, "save", "done")
    /\ Follow(s, Load)
    /\ ui' = [ui EXCEPT !.saving = @ /\ ~net[s].mine]
    /\ UNCHANGED <<db, hist>>

Loaded(s) ==
    /\ At(s, "load", "done")
    /\ Settle(s)
    /\ LET v == net[s].ans.v
       IN  ui' = IF ui.mounted THEN Render([ui EXCEPT !.project = v])
                 ELSE [ui EXCEPT !.project = v, !.synced = v, !.draft = v]
    /\ hist' = [hist EXCEPT !.odd = @ \/ net[s].ans.changes < hist.seen, !.seen = net[s].ans.changes]
    /\ UNCHANGED db

Failed(s) ==
    /\ net[s].st \in {"sent", "done"}
    /\ Settle(s)
    /\ ui' = [ui EXCEPT !.saving = @ /\ ~(net[s].op = "save" /\ net[s].mine)]
    /\ hist' = [hist EXCEPT !.odd = TRUE]
    /\ UNCHANGED db

Next ==
    \/ \E v \in Values, slider \in BOOLEAN : Edit(v, slider)
    \/ Reset \/ Save \/ Reload \/ Leave \/ Return
    \/ \E v \in Values \ {NoOrigin} : Elsewhere(v)
    \/ \E s \in Slots : Write(s) \/ Read(s) \/ Saved(s) \/ Loaded(s) \/ Failed(s)
Spec == Init /\ [][Next]_vars

-----------------------------------------------------------------------------
TypeOK ==
    /\ {db.v, ui.project, ui.synced, ui.draft} \subseteq Values
    /\ ui.saving <=> \E s \in Flying("save") : net[s].mine

\* What the card does not mark as edited is what the page holds of the
\* project, so that a difference can always be saved or reset.
EditsMarked == ~ui.dirty => ui.draft = ui.project

\* With nothing under way and nothing edited the card shows the saved project,
\* unless an answer was lost or overtaken, or the user did two things at once.
ShowsProject == Quiet /\ ~hist.odd => ui.project = db.v /\ (~ui.dirty => ui.draft = db.v)
=============================================================================
