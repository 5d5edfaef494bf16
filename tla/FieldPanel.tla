----------------------------- MODULE FieldPanel -----------------------------
(***************************************************************************)
(* The field panel (field-panel.tsx): as-built files are imported and      *)
(* compared with the design, one comparison is open at a time, and its     *)
(* markers lie over the scene.  The markers belong to the page: a handler  *)
(* publishes them whether its panel is still mounted or not.  A batch is   *)
(* an imported file with its comparison; "busy" is shared by all buttons.  *)
(***************************************************************************)
EXTENDS Requests

CONSTANTS Batches, MaxChanges

VARIABLES ui, db, hist

vars == <<net, ui, db, hist>>

None == "none"
Fresh(overlay) == [mounted |-> TRUE, batches |-> {}, selected |-> None, rows |-> None,
                   busy |-> FALSE, pending |-> None, overlay |-> overlay]
List(then, frees) == [op |-> "list", b |-> then, frees |-> frees]

Init ==
    /\ \E batches \in SUBSET Batches : db = [batches |-> batches, changes |-> 0]
    /\ ui = Fresh(None)
    /\ net = [NoCalls EXCEPT ![1] = Asked(List(None, FALSE))]
    /\ hist = [faulty |-> FALSE, crossed |-> FALSE, seen |-> 0]

-----------------------------------------------------------------------------
\* What the user does while something other than the list is on its way.
Crossed == \E s \in Slots : net[s].op \notin {"none", "list"} \/ (net[s].op = "list" /\ net[s].b # None)
Notes == hist' = [hist EXCEPT !.crossed = @ \/ Crossed]

Panel == ui.mounted /\ ui.pending = None

\* A click on a comparison opens it, or closes it if it is the open one.
ToggleComparison(b) ==
    /\ Panel /\ b \in ui.batches
    /\ IF ui.selected = b
       THEN ui' = [ui EXCEPT !.selected = None, !.rows = None, !.overlay = None] /\ UNCHANGED net
       ELSE ui' = [ui EXCEPT !.selected = b] /\ Send([op |-> "open", b |-> b, frees |-> FALSE])
    /\ Notes
    /\ UNCHANGED db

\* A handler that sets busy until it is through.  It remembers which
\* comparison was open when it was called.
Run(op, b) ==
    /\ ui.mounted /\ ~ui.busy
    /\ Send([op |-> op, b |-> b, frees |-> TRUE, open |-> ui.selected])
    /\ ui' = [ui EXCEPT !.busy = TRUE, !.pending = None]
    /\ Notes
    /\ UNCHANGED db

MayChange == db.changes + Cardinality({s \in Slots : net[s].op \in {"import", "delete"}}) < MaxChanges
Results == Panel /\ ui.selected # None /\ ui.rows # None

Import(b) == Panel /\ b \notin db.batches /\ MayChange /\ Run("import", b)
Repair == Results /\ Run("repair", ui.selected)
Export == Panel /\ Run("download", None)
DownloadReport == Results /\ Run("download", ui.selected)

AskDelete(b) ==
    /\ Panel /\ ~ui.busy /\ b \in ui.batches
    /\ ui' = [ui EXCEPT !.pending = b]
    /\ UNCHANGED <<net, db, hist>>

CancelDelete ==
    /\ ui.pending # None
    /\ ui' = [ui EXCEPT !.pending = None]
    /\ UNCHANGED <<net, db, hist>>

DeleteBatch == ui.pending # None /\ MayChange /\ Run("delete", ui.pending)

\* Another tab: the panel takes its markers with it.  And back.
Leave ==
    /\ ui.mounted
    /\ ui' = [Fresh(None) EXCEPT !.mounted = FALSE]
    /\ net' = Orphaned
    /\ Notes
    /\ UNCHANGED db

Return ==
    /\ ~ui.mounted
    /\ ui' = Fresh(ui.overlay)
    /\ Send(List(None, FALSE))
    /\ UNCHANGED <<db, hist>>

-----------------------------------------------------------------------------
\* The server: a comparison that is gone can be neither read nor changed.
Refused(r) == r.op \in {"open", "delete", "repair"} /\ r.b \notin db.batches

Serve(s) ==
    /\ net[s].st = "sent" /\ ~Refused(net[s])
    /\ net[s].op # "none"
    /\ Answer(s, db)
    /\ db' = CASE net[s].op = "import" -> [batches |-> db.batches \cup {net[s].b}, changes |-> db.changes + 1]
               [] net[s].op = "delete" -> [batches |-> db.batches \ {net[s].b}, changes |-> db.changes + 1]
               [] OTHER                -> db
    /\ UNCHANGED <<ui, hist>>

-----------------------------------------------------------------------------
\* What a handler sets in its own panel is lost with it, the markers are not.
Set(s, u) == ui' = IF net[s].mine THEN u ELSE [ui EXCEPT !.overlay = u.overlay]

\* openComparison's answer, of whichever comparison was asked for.
Opened(s) ==
    /\ At(s, "open", "done")
    /\ Settle(s)
    /\ Set(s, [ui EXCEPT !.rows = net[s].b, !.overlay = net[s].b, !.busy = @ /\ ~net[s].frees])
    /\ UNCHANGED <<db, hist>>

\* An import loads the list and then opens the new comparison.
Imported(s) ==
    /\ At(s, "import", "done")
    /\ net' = [net EXCEPT ![s] = Extended(List(net[s].b, TRUE), [st |-> "sent", mine |-> net[s].mine])]
    /\ UNCHANGED <<ui, db, hist>>

Repaired(s) ==
    /\ At(s, "repair", "done")
    /\ net' = [net EXCEPT ![s] = [op |-> "open", b |-> @.b, frees |-> TRUE, st |-> "sent", mine |-> @.mine]]
    /\ Set(s, [ui EXCEPT !.selected = net[s].b])
    /\ UNCHANGED <<db, hist>>

\* The comparison that was open when its deletion was confirmed is closed.
Deleted(s) ==
    /\ At(s, "delete", "done")
    /\ net' = [net EXCEPT ![s] = Extended(List(None, TRUE), [st |-> "sent", mine |-> @.mine])]
    /\ Set(s, IF net[s].open = net[s].b
              THEN [ui EXCEPT !.selected = None, !.rows = None, !.overlay = None] ELSE ui)
    /\ UNCHANGED <<db, hist>>

Downloaded(s) ==
    /\ At(s, "download", "done")
    /\ Settle(s)
    /\ Set(s, [ui EXCEPT !.busy = FALSE])
    /\ UNCHANGED <<db, hist>>

\* The list, answered or not (its own catch ends a failure).
Listed(s, u) ==
    IF net[s].b = None
    THEN Settle(s) /\ Set(s, [u EXCEPT !.busy = @ /\ ~net[s].frees])
    ELSE /\ net' = [net EXCEPT ![s] = [op |-> "open", b |-> @.b, frees |-> FALSE, st |-> "sent", mine |-> @.mine]]
         /\ Set(s, [u EXCEPT !.selected = net[s].b, !.busy = FALSE])

ListCame(s) ==
    /\ At(s, "list", "done")
    /\ Listed(s, [ui EXCEPT !.batches = net[s].ans.batches])
    /\ hist' = [hist EXCEPT !.faulty = @ \/ (net[s].mine /\ net[s].ans.changes < hist.seen),
                            !.seen = IF net[s].mine THEN net[s].ans.changes ELSE @]
    /\ UNCHANGED db

Failed(s) ==
    /\ net[s].st \in {"sent", "done"} /\ (~hist.faulty \/ (net[s].st = "sent" /\ Refused(net[s])))
    /\ IF net[s].op = "list" THEN Listed(s, ui)
       ELSE Settle(s) /\ Set(s, [ui EXCEPT !.busy = @ /\ ~net[s].frees])
    /\ hist' = [hist EXCEPT !.faulty = TRUE]
    /\ UNCHANGED db

User ==
    \/ Repair \/ Export \/ DownloadReport \/ CancelDelete \/ DeleteBatch \/ Leave \/ Return
    \/ \E b \in Batches : ToggleComparison(b) \/ Import(b) \/ AskDelete(b)
Settles(s) ==
    Opened(s) \/ Imported(s) \/ Repaired(s) \/ Deleted(s) \/ Downloaded(s) \/ ListCame(s) \/ Failed(s)

Next == User \/ \E s \in Slots : Serve(s) \/ Settles(s)
Spec == Init /\ [][Next]_vars

-----------------------------------------------------------------------------
TypeOK ==
    /\ {ui.selected, ui.rows, ui.overlay, ui.pending} \subseteq Batches \cup {None}
    /\ ui.busy <=> \E s \in Slots : net[s] # NoCall /\ net[s].frees /\ net[s].mine
    /\ ~ui.mounted => ui.batches = {} /\ ui.selected = None

\* With nothing under way the results and the markers are those of the open
\* comparison, and the list is the server's, if no request failed and the
\* user did one thing at a time.
ShowsComparison ==
    Quiet /\ ~hist.faulty /\ ~hist.crossed =>
        /\ ui.overlay = ui.selected
        /\ ui.rows = ui.selected
        /\ ui.mounted => ui.batches = db.batches

\* field-panel.tsx:120: the scene overlay is cleared when the panel unmounts.
\* It does not hold: an answer that comes later puts one there.
OverlayCleared == Quiet /\ ~ui.mounted => ui.overlay = None
=============================================================================
