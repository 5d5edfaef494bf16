--------------------------- MODULE UtilitiesPanel ---------------------------
(***************************************************************************)
(* The utility records of a project (utilities-panel.tsx and its import    *)
(* dialog, over schema/utilities.rs).  A builder takes the place of the    *)
(* start card and collects scene clicks or typed coordinates; the          *)
(* inventory lists runs and structures together, filtered and paged by the *)
(* server in the order of their capture.  A handler reloads the inventory  *)
(* with the filter and the page of the moment it was called.  A record is  *)
(* the number of its capture and its type, a type draws lines or           *)
(* structures; attributes and units are left out.                          *)
(***************************************************************************)
EXTENDS Requests

CONSTANTS MaxItems, PageSize, MaxChanges

VARIABLES ui, db, hist

vars == <<net, ui, db, hist>>

Types == {"line", "structure"}
Closed == [open |-> FALSE, at |-> "file", busy |-> FALSE, mapped |-> FALSE]
NoRows == [rows |-> {}, total |-> 0]
Load(u) == [op |-> "load", page |-> u.page, filter |-> u.filter, frees |-> FALSE]
Panel == [mounted |-> TRUE, list |-> NoRows, page |-> 0, filter |-> "all", mode |-> "idle", type |-> "none",
          got |-> 0, busy |-> FALSE, dialog |-> Closed, handler |-> "none", hint |-> FALSE]

Init ==
    /\ \E n \in 0 .. MaxItems, t \in Types : db = [items |-> [i \in 1 .. n |-> t], next |-> n + 1, changes |-> 0]
    /\ ui = Panel
    /\ net = [NoCalls EXCEPT ![1] = Asked(Load(Panel))]
    /\ hist = [odd |-> FALSE]

-----------------------------------------------------------------------------
\* The inventory of the server: the records of the filter, a page of them.
Matches(items, filter) == {i \in DOMAIN items : filter = "all" \/ items[i] = filter}
PageOf(items, filter, page) ==
    LET found == Matches(items, filter)
        Place(i) == Cardinality({j \in found : j < i})
    IN  [rows |-> {i \in found : Place(i) \div PageSize = page}, total |-> Cardinality(found)]

\* The effect of the mode: the click handler and the hint follow it.
Render(u) ==
    [u EXCEPT !.handler = IF u.mounted /\ u.mode # "idle" THEN u.mode ELSE "none",
              !.hint = u.mounted /\ u.mode # "idle"]

\* "odd": a request failed, or the user acted while one was under way.
Crossing == hist' = [hist EXCEPT !.odd = @ \/ ~Quiet]
Changes == {"run", "structure", "remove", "import"}
MayChange ==
    db.changes + Cardinality({s \in Slots : net[s].op \in Changes /\ net[s].st = "sent"}) < MaxChanges
Page == ui.mounted /\ ~ui.dialog.open

-----------------------------------------------------------------------------
\* The start card; a builder takes its place, and the import dialog's.
ChooseType(t) ==
    /\ Page /\ ui.mode = "idle"
    /\ ui' = [ui EXCEPT !.type = t]
    /\ UNCHANGED <<net, db, hist>>

Start(mode) ==
    /\ Page /\ ui.mode = "idle"
    /\ ui.type = (IF mode = "run" THEN "line" ELSE "structure")
    /\ ui' = Render([ui EXCEPT !.mode = mode, !.got = 0, !.dialog = Closed])
    /\ net' = [s \in Slots |-> IF net[s].op \in {"preview", "import"} THEN [net[s] EXCEPT !.dialog = FALSE]
                              ELSE net[s]]
    /\ Crossing
    /\ UNCHANGED db

\* The builders: a run collects vertices, a structure has one position.
Enough == IF ui.mode = "run" THEN 2 ELSE 1

Capture(clicked) ==
    /\ ui.mounted /\ ui.got < Enough
    /\ IF clicked THEN ui.handler # "none" ELSE ui.mode # "idle"
    /\ ui' = [ui EXCEPT !.got = @ + 1]
    /\ UNCHANGED <<net, db, hist>>

DropCapture ==
    /\ ui.mounted /\ ui.mode # "idle" /\ ui.got > 0
    /\ ui' = [ui EXCEPT !.got = @ - 1]
    /\ UNCHANGED <<net, db, hist>>

\* Mutant: a builder can be left while it saves.
CancelBusy ==
    /\ ui.mounted /\ ui.mode # "idle"
    /\ ui' = Render([ui EXCEPT !.mode = "idle"])
    /\ UNCHANGED <<net, db, hist>>

Cancel ==
    /\ ui.mounted /\ ui.mode # "idle" /\ ~ui.busy
    /\ ui' = Render([ui EXCEPT !.mode = "idle"])
    /\ UNCHANGED <<net, db, hist>>

Save ==
    /\ ui.mounted /\ ui.mode # "idle" /\ ~ui.busy /\ ui.got >= Enough /\ MayChange
    /\ Send([op |-> ui.mode, type |-> ui.type, then |-> Load(ui)])
    /\ ui' = [ui EXCEPT !.busy = TRUE]
    /\ Crossing
    /\ UNCHANGED db

Remove(i) ==
    /\ Page /\ i \in ui.list.rows /\ MayChange
    /\ Send([op |-> "remove", i |-> i, then |-> Load(ui)])
    /\ Crossing
    /\ UNCHANGED <<ui, db>>

\* The export of what the filter shows.
Export ==
    /\ Page /\ ui.list.total > 0
    /\ Send([op |-> "export"])
    /\ Crossing
    /\ UNCHANGED <<ui, db>>

\* A new filter starts on the first page; every new filter or page is loaded.
Show(u) == ui' = u /\ Send(Load(u)) /\ Crossing /\ UNCHANGED db

SetFilter(filter) == Page /\ filter # ui.filter /\ Show([ui EXCEPT !.filter = filter, !.page = 0])
Previous == Page /\ ui.list.total > PageSize /\ ui.page > 0 /\ Show([ui EXCEPT !.page = @ - 1])
NextPage == Page /\ (ui.page + 1) * PageSize < ui.list.total /\ Show([ui EXCEPT !.page = @ + 1])

\* The import dialog: a file is previewed, its layers are mapped or skipped.
\* It opens with what it holds: closing it forgets the file, but a preview
\* may come after that.
OpenImport ==
    /\ Page /\ ui.mode = "idle"
    /\ ui' = [ui EXCEPT !.dialog.open = TRUE]
    /\ UNCHANGED <<net, db, hist>>

CloseImport ==
    /\ ui.dialog.open
    /\ ui' = [ui EXCEPT !.dialog = [Closed EXCEPT !.busy = ui.dialog.busy]]
    /\ UNCHANGED <<net, db, hist>>

ChooseFile ==
    /\ ui.dialog.open /\ ui.dialog.at = "file" /\ ~ui.dialog.busy
    /\ Send([op |-> "preview", dialog |-> TRUE])
    /\ ui' = [ui EXCEPT !.dialog.busy = TRUE]
    /\ Crossing
    /\ UNCHANGED db

MapLayer ==
    /\ ui.dialog.open /\ ui.dialog.at = "layers"
    /\ ui' = [ui EXCEPT !.dialog.mapped = ~@]
    /\ UNCHANGED <<net, db, hist>>

OtherFile ==
    /\ ui.dialog.open /\ ui.dialog.at = "layers" /\ ~ui.dialog.busy
    /\ ui' = [ui EXCEPT !.dialog = [Closed EXCEPT !.open = TRUE]]
    /\ UNCHANGED <<net, db, hist>>

CommitImport ==
    /\ ui.dialog.open /\ ui.dialog.at = "layers" /\ ~ui.dialog.busy /\ ui.dialog.mapped /\ MayChange
    /\ \E t \in Types : Send([op |-> "import", type |-> t, dialog |-> TRUE, then |-> Load(ui)])
    /\ ui' = [ui EXCEPT !.dialog.busy = TRUE]
    /\ Crossing
    /\ UNCHANGED db

Leave ==
    /\ Page
    /\ ui' = Render([Panel EXCEPT !.mounted = FALSE])
    /\ net' = Orphaned
    /\ Crossing
    /\ UNCHANGED db

Return ==
    /\ ~ui.mounted
    /\ ui' = Panel
    /\ Send(Load(Panel))
    /\ Crossing
    /\ UNCHANGED db

-----------------------------------------------------------------------------
\* The server.  What was deleted before is refused; an import makes
\* its records in one transaction, here a single one.
Refused(r) == r.op = "remove" /\ r.i \notin DOMAIN db.items

Captured(r) ==
    CASE r.op = "remove" -> [i \in DOMAIN db.items \ {r.i} |-> db.items[i]]
      [] OTHER           -> Extended([i \in {db.next} |-> r.type], db.items)

Write(s) ==
    /\ net[s].op \in Changes /\ net[s].st = "sent" /\ ~Refused(net[s])
    /\ db' = [items |-> Captured(net[s]), changes |-> db.changes + 1,
              next |-> IF net[s].op = "remove" THEN db.next ELSE db.next + 1]
    /\ Answer(s, TRUE)
    /\ UNCHANGED <<ui, hist>>

Read(s) ==
    /\ net[s].op \in {"load", "preview", "export"} /\ net[s].st = "sent"
    /\ IF net[s].op = "load" THEN Answer(s, PageOf(db.items, net[s].filter, net[s].page)) ELSE Answer(s, TRUE)
    /\ UNCHANGED <<ui, db, hist>>

-----------------------------------------------------------------------------
Set(s, u) == ui' = IF net[s].mine THEN Render(u) ELSE ui

SetDialog(s, d) == Set(s, IF net[s].dialog THEN [ui EXCEPT !.dialog = d] ELSE ui)

Loaded(s) ==
    /\ At(s, "load", "done")
    /\ Settle(s)
    /\ Set(s, [ui EXCEPT !.list = net[s].ans])
    /\ UNCHANGED <<db, hist>>

\* The inventory is loaded again as it was when the handler was called.
Reload(s) == net' = [net EXCEPT ![s] = Extended(net[s].then, [st |-> "sent", mine |-> net[s].mine])]

\* A capture ends the builder.
Saved(s) ==
    /\ net[s].op \in {"run", "structure"} /\ net[s].st = "done"
    /\ Reload(s)
    /\ Set(s, [ui EXCEPT !.mode = "idle", !.busy = FALSE])
    /\ UNCHANGED <<db, hist>>

Removed(s) ==
    /\ At(s, "remove", "done")
    /\ Reload(s)
    /\ UNCHANGED <<ui, db, hist>>

Imported(s) ==
    /\ At(s, "import", "done")
    /\ Reload(s)
    /\ SetDialog(s, Closed)
    /\ UNCHANGED <<db, hist>>

\* Every layer starts with the type suggested for it, if there is one; an
\* import needs a layer that is mapped.
Previewed(s) ==
    /\ At(s, "preview", "done")
    /\ Settle(s)
    /\ \E suggested \in BOOLEAN :
          SetDialog(s, [ui.dialog EXCEPT !.at = "layers", !.busy = FALSE, !.mapped = suggested])
    /\ UNCHANGED <<db, hist>>

Exported(s) ==
    /\ At(s, "export", "done")
    /\ Settle(s)
    /\ UNCHANGED <<ui, db, hist>>

Failed(s) ==
    /\ net[s].st \in {"sent", "done"}
    /\ Settle(s)
    /\ CASE net[s].op \in {"run", "structure"}  -> Set(s, [ui EXCEPT !.busy = FALSE])
         [] net[s].op \in {"preview", "import"} -> SetDialog(s, [ui.dialog EXCEPT !.busy = FALSE])
         [] OTHER                               -> UNCHANGED ui
    /\ hist' = [hist EXCEPT !.odd = TRUE]
    /\ UNCHANGED db

User ==
    \/ DropCapture \/ Cancel \/ Save \/ Export \/ Previous \/ NextPage
    \/ MapLayer \/ OpenImport \/ CloseImport \/ ChooseFile \/ OtherFile \/ CommitImport \/ Leave \/ Return
    \/ \E t \in Types : ChooseType(t)
    \/ \E mode \in {"run", "structure"} : Start(mode)
    \/ \E clicked \in BOOLEAN : Capture(clicked)
    \/ \E i \in ui.list.rows : Remove(i)
    \/ \E filter \in Types \cup {"all"} : SetFilter(filter)
Settles(s) ==
    Loaded(s) \/ Saved(s) \/ Removed(s) \/ Imported(s) \/ Previewed(s) \/ Exported(s) \/ Failed(s)

Next == User \/ \E s \in Slots : Write(s) \/ Read(s) \/ Settles(s)
Spec == Init /\ [][Next]_vars

-----------------------------------------------------------------------------
TypeOK ==
    /\ ui.mode \in {"idle", "run", "structure"}
    /\ ui.list.rows \subseteq 1 .. db.next
    /\ \A i \in DOMAIN db.items : i < db.next /\ db.items[i] \in Types

\* A scene click goes to the builder on the screen, and to nobody without one.
Bridge ==
    /\ ui.handler = IF ui.mounted /\ ui.mode # "idle" THEN ui.mode ELSE "none"
    /\ ui.hint <=> ui.handler # "none"

\* While a capture is being saved its builder stays: its answer ends no other.
SaveHoldsBuilder ==
    \A s \in Slots : net[s].op \in {"run", "structure"} /\ net[s].mine => ui.mode = net[s].op /\ ui.busy

\* With nothing under way the inventory shows its page of the server's
\* records, unless a request failed or the user did not wait for one.
ShowsInventory ==
    Quiet /\ ~hist.odd /\ ui.mounted => ui.list = PageOf(db.items, ui.filter, ui.page)
=============================================================================
