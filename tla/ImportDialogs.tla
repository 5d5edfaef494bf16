---------------------------- MODULE ImportDialogs ----------------------------
(***************************************************************************)
(* The dialogs that import a file: survey points (import-dialog.tsx over   *)
(* import_points), a GeoTIFF (surfaces/upload-dem-dialog.tsx over          *)
(* build_dem_surface) and breaklines (surfaces/import-breaklines-dialog    *)
(* over import_breaklines).  The browser reads a chosen file in its own    *)
(* time and nothing takes a reading back; the points dialog shows the name *)
(* of a file before it has read it, the others name what they have read.   *)
(* The units, columns, layers and categories sent along are left out; of   *)
(* the layers one at least is taken to be kept.                            *)
(***************************************************************************)
EXTENDS Requests

CONSTANTS
    Files, Xml,         \* the files at hand, and those that end in .xml
    MaxImports          \* bound: records that get imported

VARIABLES ui, db, hist

vars == <<net, ui, db, hist>>

None == "none"
Pasted == "pasted"
Dialogs == {"points", "dem", "breaklines"}

\* "shown" is the file that the browser's own input names.
Fresh(dialog) ==
    [dialog |-> dialog, open |-> FALSE, format |-> "csv", name |-> None, content |-> None,
     shown |-> None, busy |-> FALSE]
Points == ui.dialog = "points"

\* An import, as it is filed: the database keeps all of them, the model the last.
Filed(q) == [name |-> q.name, content |-> q.content, shown |-> q.shown]
Nothing == [name |-> None, content |-> None, shown |-> None]
Init ==
    /\ \E dialog \in Dialogs : ui = Fresh(dialog)
    /\ db = [last |-> Nothing, n |-> 0]
    /\ net = NoCalls
    /\ hist = [odd |-> FALSE]

\* "odd": something was done while a file was being read, or a reading failed.
Reading == Flying("read") # {}
Notes == hist' = [hist EXCEPT !.odd = @ \/ Reading]

-----------------------------------------------------------------------------
Open == ~ui.open /\ ui' = [ui EXCEPT !.open = TRUE] /\ Notes /\ UNCHANGED <<net, db>>

\* Closing unmounts the input; the two surface dialogs forget their file, too.
Close ==
    /\ ui.open
    /\ ui' = IF Points THEN [ui EXCEPT !.open = FALSE, !.shown = None]
             ELSE [ui EXCEPT !.open = FALSE, !.shown = None, !.name = None, !.content = None]
    /\ Notes /\ UNCHANGED <<net, db>>

\* onFile, up to the reading: no input is disabled meanwhile.
Pick(f) ==
    /\ ui.open
    /\ Send([op |-> "read", file |-> f])
    /\ ui' = IF Points THEN [ui EXCEPT !.shown = f, !.name = f]
             ELSE [ui EXCEPT !.shown = f, !.busy = TRUE]
    /\ Notes /\ UNCHANGED db

Paste ==
    /\ ui.open /\ Points
    /\ ui' = [ui EXCEPT !.content = Pasted]
    /\ Notes /\ UNCHANGED <<net, db>>
PickFormat ==
    /\ ui.open /\ Points
    /\ \E format \in {"csv", "landxml"} : ui' = [ui EXCEPT !.format = format]
    /\ UNCHANGED <<net, db, hist>>

\* onImport and commit send what the dialog holds at that moment.
Import ==
    /\ ui.open /\ ~ui.busy /\ ui.content # None
    /\ Send(Extended(Filed(ui), [op |-> "import", format |-> ui.format]))
    /\ ui' = [ui EXCEPT !.busy = TRUE]
    /\ Notes /\ UNCHANGED db

-----------------------------------------------------------------------------
\* The browser has the file's text; the breaklines' layers are asked of the
\* server, preview_breakline_import, which stores nothing.
ReadFile(s) == At(s, "read", "sent") /\ Answer(s, net[s].file) /\ UNCHANGED <<ui, db, hist>>

\* A file of the wrong format has no points in it, and is refused.
Fits(q) == q.content = Pasted \/ ui.dialog # "points" \/ (q.format = "landxml" <=> q.content \in Xml)
Store(s) ==
    /\ At(s, "import", "sent") /\ Fits(net[s]) /\ db.n < MaxImports
    /\ db' = [last |-> Filed(net[s]), n |-> db.n + 1]
    /\ Answer(s, TRUE)
    /\ UNCHANGED <<ui, hist>>

\* Mutant: the surface dialogs, too, take the name from the input.
NamedByInput(s) ==
    /\ At(s, "read", "done")
    /\ Settle(s)
    /\ ui' = [ui EXCEPT !.content = net[s].file, !.name = ui.shown, !.busy = FALSE]
    /\ UNCHANGED <<db, hist>>
\* onFile, from the reading on; only a .xml file sets the format.
FileRead(s) ==
    /\ At(s, "read", "done")
    /\ Settle(s)
    /\ LET f == net[s].file
       IN  ui' = IF Points
                 THEN [ui EXCEPT !.content = f, !.format = IF f \in Xml THEN "landxml" ELSE @]
                 ELSE [ui EXCEPT !.content = f, !.name = f, !.busy = FALSE]
    /\ UNCHANGED <<db, hist>>

\* Done: the dialog closes and forgets, whatever was chosen in it meanwhile.
Imported(s) ==
    /\ At(s, "import", "done")
    /\ Settle(s)
    /\ ui' = [ui EXCEPT !.open = FALSE, !.shown = None, !.name = None, !.content = None, !.busy = FALSE]
    /\ Notes /\ UNCHANGED db

\* Refused, lost, or a file that cannot be read: the dialog stays as it is.
Failed(s) ==
    /\ net[s].st \in {"sent", "done"} /\ net[s] # NoCall
    /\ Settle(s)
    /\ ui' = IF net[s].op = "read" /\ Points THEN ui ELSE [ui EXCEPT !.busy = FALSE]
    /\ hist' = [hist EXCEPT !.odd = @ \/ net[s].op = "read"]
    /\ UNCHANGED db

Next ==
    \/ Open \/ Close \/ Paste \/ PickFormat \/ Import
    \/ \E f \in Files : Pick(f)
    \/ \E s \in Slots : ReadFile(s) \/ FileRead(s) \/ Store(s) \/ Imported(s) \/ Failed(s)
Spec == Init /\ [][Next]_vars

-----------------------------------------------------------------------------
\* Everything keeps its shape.
TypeOK ==
    /\ Slots = DOMAIN net
    /\ ui \in [dialog : Dialogs, open : BOOLEAN, format : {"csv", "landxml"}, name : Files \cup {None},
               content : Files \cup {None, Pasted}, shown : Files \cup {None}, busy : BOOLEAN]
    /\ db.last \in [name : Files \cup {None}, content : Files \cup {None, Pasted}, shown : Files \cup {None}]
    /\ db.n \in 0 .. MaxImports
    /\ hist.odd \in BOOLEAN

\* What was imported is under its own name: always from the surface dialogs,
\* though readings overtake each other, and from the points dialog unless a file
\* was still being read; and it is what the dialog's input showed.
FiledAsNamed ==
    LET i == db.last
    IN  \/ i.content = Pasted
        \/ Points /\ hist.odd
        \/ i.content = i.name /\ (Points \/ hist.odd \/ i.content = i.shown)
=============================================================================
