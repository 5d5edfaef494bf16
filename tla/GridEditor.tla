----------------------------- MODULE GridEditor -----------------------------
(***************************************************************************)
(* The building grid card of the project page (grid-editor.tsx and its two *)
(* dialogs) over setGridAxes (schema/grid.rs).  The API only replaces the  *)
(* whole grid, so every change sends the complete list, rebuilt from the   *)
(* axes the page loaded last; the page loads again when a change is done.  *)
(* Two replacements run as two READ COMMITTED transactions: the second     *)
(* DELETE waits for the rows it has seen, and never sees the rows the      *)
(* first one inserts.                                                      *)
(***************************************************************************)
EXTENDS Requests, SequencesExt

CONSTANTS Labels, MaxSaves

VARIABLES ui, db, hist

vars == <<net, ui, db, hist>>

None == [id |-> <<0, 0>>, l |-> "none"]
Blank == [open |-> FALSE, axis |-> None]

Init ==
    /\ net = NoCalls
    /\ \E start \in SUBSET Labels :
          LET rows == {[id |-> <<0, i>>, l |-> SetToSeq(start)[i]] : i \in DOMAIN SetToSeq(start)}
          IN  /\ db = [rows |-> rows, saves |-> 0]
              /\ ui = [axes |-> rows, form |-> Blank, pending |-> None, import |-> FALSE,
                       busy |-> FALSE, busyImport |-> FALSE]
    /\ hist = [faulty |-> FALSE, stale |-> FALSE, seen |-> 0]

LabelList(rows) == LET q == SetToSeq(rows) IN [i \in DOMAIN q |-> q[i].l]
Load == [op |-> "load"]

\* A save is stale when it is built beside another one, or from a list that
\* is no longer the server's.
Save(via, labels, changes) ==
    /\ db.saves + Cardinality(Flying("set")) < MaxSaves
    /\ Send([op |-> "set", via |-> via, axes |-> labels, snap |-> {}, changes |-> changes])
    /\ hist' = [hist EXCEPT !.stale = @ \/ Flying("set") # {} \/ ui.axes # db.rows]
    /\ UNCHANGED db

-----------------------------------------------------------------------------
\* The card: a dialog covers it, and there is one at a time.
Card == ~ui.form.open /\ ui.pending = None /\ ~ui.import

OpenAdd ==
    /\ Card
    /\ ui' = [ui EXCEPT !.form = [open |-> TRUE, axis |-> None]]
    /\ UNCHANGED <<net, db, hist>>

OpenEdit(a) ==
    /\ Card
    /\ ui' = [ui EXCEPT !.form = [open |-> TRUE, axis |-> a]]
    /\ UNCHANGED <<net, db, hist>>

CloseForm ==
    /\ ui.form.open
    /\ ui' = [ui EXCEPT !.form = Blank]
    /\ UNCHANGED <<net, db, hist>>

\* Mutant: the dialog sends a new axis without the saved ones.
NextAxesNew(l) ==
    IF ui.form.axis = None
    THEN <<l>>
    ELSE LabelList({IF a.id = ui.form.axis.id THEN [a EXCEPT !.l = l] ELSE a : a \in ui.axes})

\* The dialog's list: the saved axes with the one added or changed.
NextAxes(l) ==
    IF ui.form.axis = None
    THEN Append(LabelList(ui.axes), l)
    ELSE LabelList({IF a.id = ui.form.axis.id THEN [a EXCEPT !.l = l] ELSE a : a \in ui.axes})

SubmitForm(l) ==
    /\ ui.form.open
    /\ ~ui.busy
    /\ Save("form", NextAxes(l), {l, ui.form.axis.l})
    /\ ui' = [ui EXCEPT !.busy = TRUE]

AskDelete(a) ==
    /\ Card
    /\ ui' = [ui EXCEPT !.pending = a]
    /\ UNCHANGED <<net, db, hist>>

\* The confirm dialog closes at once; nothing holds back the next delete.
ConfirmDelete ==
    /\ ui.pending # None
    /\ Save("delete", LabelList({a \in ui.axes : a.id # ui.pending.id}), {ui.pending.l})
    /\ ui' = [ui EXCEPT !.pending = None]

CancelDelete ==
    /\ ui.pending # None
    /\ ui' = [ui EXCEPT !.pending = None]
    /\ UNCHANGED <<net, db, hist>>

OpenImport ==
    /\ Card
    /\ ui' = [ui EXCEPT !.import = TRUE]
    /\ UNCHANGED <<net, db, hist>>

CloseImport ==
    /\ ui.import
    /\ ui' = [ui EXCEPT !.import = FALSE]
    /\ UNCHANGED <<net, db, hist>>

\* parseGridCsv: blank lines are skipped, and with hasHeader the first line
\* that is not blank.
Parsed(text, hasHeader) ==
    LET lines == SelectSeq(text, LAMBDA line : line # "blank")
    IN  IF hasHeader /\ lines # <<>> THEN Tail(lines) ELSE lines

\* The file as pasted: a header and blank lines among the axes.
Texts == {<<"axis">>, <<"blank", "bad", "axis">>, <<"bad">>}

\* One bad line refuses the whole import; the parsed axes come after the
\* existing ones, or instead of them.
SubmitImport(l, text, hasHeader, replace) ==
    /\ ui.import
    /\ ~ui.busyImport
    /\ Range(Parsed(text, hasHeader)) = {"axis"}
    /\ Save("import", IF replace THEN <<l>> ELSE Append(LabelList(ui.axes), l),
            IF replace THEN Labels ELSE {l})
    /\ ui' = [ui EXCEPT !.busyImport = TRUE]

-----------------------------------------------------------------------------
\* set_grid_axes: the DELETE takes its snapshot ...
Delete(s) ==
    /\ At(s, "set", "sent")
    /\ net' = [net EXCEPT ![s].st = "wait", ![s].snap = db.rows]
    /\ UNCHANGED <<ui, db, hist>>

\* ... waits while another transaction holds one of its rows ...
Hold(s) ==
    /\ At(s, "set", "wait")
    /\ \A t \in Flying("set") : net[t].st = "hold" => net[t].snap \cap net[s].snap = {}
    /\ net' = [net EXCEPT ![s].st = "hold", ![s].snap = @ \cap db.rows]
    /\ UNCHANGED <<ui, db, hist>>

\* ... and commits with the new rows, which get new ids.
NewRows(s) == {[id |-> <<db.saves + 1, i>>, l |-> net[s].axes[i]] : i \in DOMAIN net[s].axes}

Commit(s) ==
    /\ At(s, "set", "hold")
    /\ db' = [rows |-> (db.rows \ net[s].snap) \cup NewRows(s), saves |-> db.saves + 1]
    /\ Answer(s, TRUE)
    /\ UNCHANGED <<ui, hist>>

Read(s) ==
    /\ At(s, "load", "sent")
    /\ Answer(s, [rows |-> db.rows, saves |-> db.saves])
    /\ UNCHANGED <<ui, db, hist>>

\* Refused, rolled back, or answered to nobody.
Fail(s) ==
    /\ net[s].st \in {"sent", "done"} /\ ~hist.faulty
    /\ Throw(s)
    /\ hist' = [hist EXCEPT !.faulty = TRUE]
    /\ UNCHANGED <<ui, db>>

-----------------------------------------------------------------------------
\* useMutation: onDone of each of the three, and the reload it asks for.
Idle(via) ==
    CASE via = "form"   -> [ui EXCEPT !.busy = FALSE]
      [] via = "import" -> [ui EXCEPT !.busyImport = FALSE]
      [] OTHER          -> ui

Saved(s) ==
    /\ At(s, "set", "done")
    /\ Follow(s, Load)
    /\ ui' = CASE net[s].via = "form"   -> [Idle("form") EXCEPT !.form = Blank]
               [] net[s].via = "import" -> [Idle("import") EXCEPT !.import = FALSE]
               [] OTHER                 -> ui
    /\ UNCHANGED <<db, hist>>

\* An answer that was read before one already applied puts the page back.
Loaded(s) ==
    /\ At(s, "load", "done")
    /\ Settle(s)
    /\ ui' = [ui EXCEPT !.axes = net[s].ans.rows]
    /\ hist' = [hist EXCEPT !.faulty = @ \/ net[s].ans.saves < hist.seen,
                            !.seen = net[s].ans.saves]
    /\ UNCHANGED db

Failed(s) ==
    /\ net[s].st = "failed"
    /\ Settle(s)
    /\ ui' = IF net[s].op = "set" THEN Idle(net[s].via) ELSE ui
    /\ UNCHANGED <<db, hist>>

User ==
    \/ OpenAdd \/ CloseForm \/ ConfirmDelete \/ CancelDelete \/ OpenImport \/ CloseImport
    \/ \E a \in ui.axes : OpenEdit(a) \/ AskDelete(a)
    \/ \E l \in Labels : SubmitForm(l) \/ \E text \in Texts, h, r \in BOOLEAN : SubmitImport(l, text, h, r)
Serve(s) == Delete(s) \/ Hold(s) \/ Commit(s) \/ Read(s)
Settles(s) == Saved(s) \/ Loaded(s) \/ Failed(s)

Next == User \/ \E s \in Slots : Serve(s) \/ Settles(s) \/ Fail(s)
Spec == Init /\ [][Next]_vars

-----------------------------------------------------------------------------
TypeOK ==
    /\ db.saves \in 0 .. MaxSaves
    /\ \A a \in db.rows \cup ui.axes : a.l \in Labels
    /\ ui.busy => Flying("set") # {}

\* With nothing in flight the card shows the server's grid, unless an answer
\* was lost or came after a later one.
ShowsGrid == Quiet /\ ~hist.faulty => ui.axes = db.rows

Copies(l, rows) == Cardinality({a \in rows : a.l = l})

\* A commit of this dialog leaves every other axis as it was.
OnlyItsOwn(s) ==
    At(s, "set", "hold") /\ net'[s].st = "done" =>
        \A l \in Labels \ net[s].changes : Copies(l, db.rows) = Copies(l, db'.rows)

\* Changes made one at a time from the current list touch only their axis:
\* none is lost, none comes back, none is doubled.
OneAtATime == [][\A s \in Slots : ~hist.stale => OnlyItsOwn(s)]_vars

\* What grid-axis-dialog.tsx says of itself: saving rebuilds the list keeping
\* the others untouched and applying the one change.  It does not hold: the
\* list it rebuilds may be older than another replacement.
OthersUntouched == [][\A s \in Flying("set") : net[s].via = "form" => OnlyItsOwn(s)]_vars
=============================================================================
