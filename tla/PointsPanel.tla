----------------------------- MODULE PointsPanel -----------------------------
(***************************************************************************)
(* The survey points panel (survey-points-panel.tsx) and the dialogs of    *)
(* its "Manage points" card, over schema/points.rs: a table of one page of *)
(* what the filters let through, a selection with bulk operations, point   *)
(* groups, and a reload 250 ms after the last projectChanged ping.  A      *)
(* handler reloads with the filter and the page of the moment it started.  *)
(* There is one group, one custom category and one list of groups (the code *)
(* keeps two, loaded by the same query); what a handler asks for together *)
(* is one request.                                                         *)
(***************************************************************************)
EXTENDS Requests, SequencesExt, FiniteSetsExt

CONSTANTS Pts, PageSize, MaxEdits, MaxTurns,
          Views           \* of "all", "category", "group", "descending": filters and orders

VARIABLES ui, db, hist

vars == <<net, ui, db, hist>>

Filtered(d, view) == CASE view = "category" -> d.pts \cap d.tagged
                       [] view = "group"    -> d.pts \cap d.members
                       [] OTHER             -> d.pts

\* survey_points: the filtered points in order, LIMIT and OFFSET.
PageOf(d, view, page) ==
    LET up   == SetToSortSeq(Filtered(d, view), <)
        rows == IF view = "descending" THEN Reverse(up) ELSE up
    IN  SubSeq(rows, page * PageSize + 1, Min({Len(rows), (page + 1) * PageSize}))

NoDialog == [kind |-> "none", of |-> {}]
\* The load of a page, with the groups or without them.
Load(u, groups) == [op |-> "load", view |-> u.view, page |-> u.page, groups |-> groups]
Groups == [op |-> "groups"]

Init ==
    /\ \E pts \in {Pts, {Min(Pts)}} :
          db = [pts |-> pts, tagged |-> {Min(Pts)}, members |-> {Max(Pts)}, v |-> 0]
    /\ ui = [rows |-> <<>>, total |-> 0, view |-> "all", page |-> 0, selected |-> {}, timer |-> FALSE,
             busy |-> {}, dialog |-> NoDialog, groups |-> {}]
    /\ net = [NoCalls EXCEPT ![1] = Asked(Load(ui, TRUE))]
    /\ hist = [faulty |-> FALSE, seen |-> 0, turns |-> 0]

-----------------------------------------------------------------------------
\* The filters, the sort headers and the pager.  Every change makes a new
\* load: it is called at once, and a pending refresh is dropped with the old.
Ask(u) ==
    /\ hist.turns < MaxTurns
    /\ Send(Load(u, FALSE))
    /\ ui' = [u EXCEPT !.timer = FALSE]
    /\ hist' = [hist EXCEPT !.turns = @ + 1]
    /\ UNCHANGED db

Table == ui.dialog = NoDialog
PageCount == Max({1, (ui.total + PageSize - 1) \div PageSize})
ShowPagination == PageCount > 1

SetView(view) ==
    /\ Table /\ view # ui.view
    /\ view = "group" => ui.groups # {}
    /\ Ask([ui EXCEPT !.view = view, !.page = 0])

Previous == Table /\ ShowPagination /\ ui.page > 0 /\ Ask([ui EXCEPT !.page = @ - 1])
NextPage == Table /\ ShowPagination /\ ui.page + 1 < PageCount /\ Ask([ui EXCEPT !.page = @ + 1])

OnPage == ToSet(ui.rows)

Select(ids) ==
    /\ Table /\ db.v < MaxEdits
    /\ ui' = [ui EXCEPT !.selected = ids]
    /\ UNCHANGED <<net, db, hist>>

Toggle(p) == p \in OnPage /\ Select(SymDiff(ui.selected, {p}))
ToggleAll ==
    /\ OnPage # {}
    /\ Select(IF OnPage \subseteq ui.selected THEN ui.selected \ OnPage ELSE ui.selected \cup OnPage)

\* Mutant: the bulk bar is there while its last change is saved.
ActionsAlways == Table /\ ui.selected # {}

\* The bar over the table: there with a selection, inert while busy.
Actions == Table /\ ui.selected # {} /\ "panel" \notin ui.busy
ClearSelection == Actions /\ Select({})

\* A dialog opens (while the bound on changes leaves it something to do); the
\* group manager loads the groups as it does.
Open(kind, of) ==
    /\ Table /\ db.v < MaxEdits
    /\ ui' = [ui EXCEPT !.dialog = [kind |-> kind, of |-> of]]
    /\ IF kind = "groups" THEN Send(Groups) ELSE UNCHANGED net
    /\ UNCHANGED <<db, hist>>

OpenRow(kind, p) == kind \in {"edit", "delete"} /\ p \in OnPage /\ Open(kind, {p})
OpenBulk(kind) == kind \in {"bulk", "save"} /\ Actions /\ Open(kind, ui.selected)
OpenManage(kind) == kind \in {"new", "groups", "categories"} /\ Open(kind, {})

CloseDialog ==
    /\ ~Table
    /\ ui' = [ui EXCEPT !.dialog = NoDialog]
    /\ UNCHANGED <<net, db, hist>>

-----------------------------------------------------------------------------
\* The changes.  Each remembers the filter and the page it was asked under,
\* and whose busy flag it holds ("none": a handler that keeps none).
Writes == {s \in Slots : net[s].op \notin {"none", "load", "groups"} /\ net[s].st = "sent"}

Idle(who) == who \notin ui.busy

Change(op, ids, who, u) ==
    /\ db.v + Cardinality(Writes) < MaxEdits
    /\ Send([op |-> op, ids |-> ids, who |-> who, view |-> ui.view, page |-> ui.page])
    /\ ui' = [u EXCEPT !.busy = @ \cup ({who} \ {"none"})]
    /\ UNCHANGED <<db, hist>>

RemovePoint == ui.dialog.kind = "delete" /\ Change("delete", ui.dialog.of, "none", [ui EXCEPT !.dialog = NoDialog])
BulkDelete == ui.dialog.kind = "bulk" /\ Change("bulk", ui.selected, "panel", [ui EXCEPT !.dialog = NoDialog])
BulkAssign(op) == op \in {"assign", "clear"} /\ Actions /\ Change(op, ui.selected, "panel", ui)
AddToGroup == Actions /\ ui.groups # {} /\ Change("join", ui.selected, "panel", ui)
SaveGroup == ui.dialog.kind = "save" /\ Idle("panel") /\ Change("group", ui.selected, "panel", ui)
SubmitEdit(op) ==
    /\ op \in {"tag", "untag"} /\ ui.dialog.kind = "edit" /\ Idle("edit")
    /\ Change(op, ui.dialog.of, "edit", ui)
\* The add dialog sends one point, the import dialog a file of them.
SubmitNew(ids) ==
    /\ ui.dialog.kind = "new" /\ Idle("new") /\ ids # {} /\ ids \cap db.pts = {}
    /\ Change("insert", ids, "new", ui)
ManagerCreate ==
    /\ ui.dialog.kind = "groups" /\ Idle("groups") /\ ui.selected # {}
    /\ Change("group", ui.selected, "groups", ui)
\* The managers' deletes are never disabled.
ManagerRemove == ui.dialog.kind = "groups" /\ ui.groups # {} /\ Change("ungroup", {}, "groups", ui)
RemoveCategory == ui.dialog.kind = "categories" /\ Change("uncategorize", {}, "categories", ui)

\* The manager's list is clicked: its members become the selection.
ApplyGroup ==
    /\ ui.dialog.kind = "groups" /\ ui.groups # {}
    /\ ui' = [ui EXCEPT !.dialog = NoDialog, !.selected = ui.groups]
    /\ UNCHANGED <<net, db, hist>>

-----------------------------------------------------------------------------
\* The server.  A change of points or of a group publishes the project, and
\* the panel's subscription hears of it, which starts its timer again (the
\* delay of the ping and the 250 ms are one); deleting a category publishes
\* nothing.  update_survey_point keeps the category it is sent as null.
Applied(d, op, ids) ==
    CASE op \in {"delete", "bulk"} -> [d EXCEPT !.pts = @ \ ids, !.tagged = @ \ ids]
      [] op \in {"assign", "tag"}  -> [d EXCEPT !.tagged = @ \cup (ids \cap d.pts)]
      [] op = "clear"              -> [d EXCEPT !.tagged = @ \ ids]
      [] op = "insert"             -> [d EXCEPT !.pts = @ \cup ids]
      [] op \in {"group", "join"}  -> [d EXCEPT !.members = @ \cup ids]
      [] op = "ungroup"            -> [d EXCEPT !.members = {}]
      [] op = "uncategorize"       -> [d EXCEPT !.tagged = {}]
      [] OTHER                     -> d

Publishes(op, ids) == op # "uncategorize" /\ (op \in {"bulk", "assign", "clear"} => ids \cap db.pts # {})

\* The single-row mutations find their row, or refuse.
Serves(op, ids) == op \in {"delete", "tag", "untag"} => ids \subseteq db.pts

Write(s) ==
    /\ s \in Writes
    /\ Serves(net[s].op, net[s].ids)
    /\ db' = [Applied(db, net[s].op, net[s].ids) EXCEPT !.v = @ + 1]
    /\ ui' = [ui EXCEPT !.timer = @ \/ Publishes(net[s].op, net[s].ids)]
    /\ Answer(s, TRUE)
    /\ hist' = [hist EXCEPT !.faulty = @ \/ ~Publishes(net[s].op, net[s].ids)]

Read(s) ==
    /\ net[s].op \in {"load", "groups"} /\ net[s].st = "sent"
    /\ Answer(s, IF net[s].op = "groups" THEN [members |-> db.members]
                 ELSE [rows |-> PageOf(db, net[s].view, net[s].page), v |-> db.v,
                       total |-> Cardinality(Filtered(db, net[s].view)),
                       members |-> IF net[s].groups THEN db.members ELSE {}])
    /\ UNCHANGED <<ui, db, hist>>

\* Another session of the organization changes the points.
Elsewhere(op, p) ==
    /\ db.v + Cardinality(Writes) < MaxEdits
    /\ op = "delete" => p \in db.pts
    /\ op = "insert" => p \notin db.pts
    /\ db' = [Applied(db, op, {p}) EXCEPT !.v = @ + 1]
    /\ ui' = [ui EXCEPT !.timer = TRUE]
    /\ UNCHANGED <<net, hist>>

-----------------------------------------------------------------------------
\* The timer of the last ping runs out: the page and the groups are asked for.
Refresh ==
    /\ ui.timer
    /\ Send(Load(ui, TRUE))
    /\ ui' = [ui EXCEPT !.timer = FALSE]
    /\ UNCHANGED <<db, hist>>

\* An answer to an older question than the table's, or an older answer, is
\* shown like any other.
Overtaken(r) == r.ans.v < hist.seen \/ <<r.view, r.page>> # <<ui.view, ui.page>>

Loaded(s) ==
    /\ At(s, "load", "done")
    /\ Settle(s)
    /\ LET r == net[s]
       IN  /\ ui' = [ui EXCEPT !.rows = r.ans.rows, !.total = r.ans.total,
                               !.groups = IF r.groups THEN r.ans.members ELSE @]
           /\ hist' = [hist EXCEPT !.seen = Max({@, r.ans.v}),
                                   !.faulty = @ \/ (Overtaken(r) /\ Flying("load") = {s})]
    /\ UNCHANGED db

GroupsLoaded(s) ==
    /\ At(s, "groups", "done")
    /\ Settle(s)
    /\ ui' = [ui EXCEPT !.groups = net[s].ans.members]
    /\ UNCHANGED <<db, hist>>

\* What each handler does with its answer: its dialog closes, the selection
\* it used is dropped, its list is loaded again.
Closes(r) == CASE r.who \in {"edit", "new"}     -> {r.who}
               [] r.op = "group" /\ r.who = "panel" -> {"save"}
               [] OTHER                      -> {}

Done(s) ==
    LET r == net[s]
    IN  /\ r.st = "done" /\ r.op \notin {"load", "groups"}
        /\ ui' = [ui EXCEPT !.busy = @ \ {r.who},
                            !.dialog = IF @.kind \in Closes(r) THEN NoDialog ELSE @,
                            !.selected = IF r.who = "panel" THEN {} ELSE @]
        /\ CASE r.who = "categories" -> Settle(s)
             [] r.op \in {"group", "join", "ungroup"} -> Follow(s, Groups)
             [] OTHER                -> Follow(s, Load(r, FALSE))
        /\ UNCHANGED <<db, hist>>

\* One request is refused, or its answer is lost, and the handler's catch runs.
Failed(s) ==
    /\ net[s].st \in {"sent", "done"} /\ ~hist.faulty
    /\ Settle(s)
    /\ ui' = IF net[s].op \in {"load", "groups"} THEN ui ELSE [ui EXCEPT !.busy = @ \ {net[s].who}]
    /\ hist' = [hist EXCEPT !.faulty = TRUE]
    /\ UNCHANGED db

User ==
    \/ \E view \in Views : SetView(view)
    \/ Previous \/ NextPage \/ ToggleAll \/ ClearSelection \/ CloseDialog \/ ApplyGroup
    \/ RemovePoint \/ BulkDelete \/ AddToGroup \/ SaveGroup \/ ManagerCreate \/ ManagerRemove \/ RemoveCategory
    \/ \E op \in {"assign", "clear"} : BulkAssign(op)
    \/ \E op \in {"tag", "untag"} : SubmitEdit(op)
    \/ \E p \in Pts : Toggle(p) \/ \E kind \in {"edit", "delete"} : OpenRow(kind, p)
    \/ \E kind \in {"bulk", "save"} : OpenBulk(kind)
    \/ \E kind \in {"new", "groups", "categories"} : OpenManage(kind)
    \/ \E ids \in SUBSET Pts : SubmitNew(ids)
Settles(s) == Loaded(s) \/ GroupsLoaded(s) \/ Done(s) \/ Failed(s)
Serve(s) == Write(s) \/ Read(s)
Others == \E op \in {"delete", "insert"}, p \in Pts : Elsewhere(op, p)

Next == User \/ Others \/ Refresh \/ \E s \in Slots : Serve(s) \/ Settles(s)
Spec == Init /\ [][Next]_vars

-----------------------------------------------------------------------------
TypeOK ==
    /\ ui.view \in Views /\ ui.page \in Nat
    /\ ui.selected \subseteq Pts /\ OnPage \subseteq Pts
    /\ ui.busy \subseteq {net[s].who : s \in {t \in Slots : net[t].op \notin {"none", "load", "groups"}}} \ {"none"}

\* When nothing is under way the table is the page it says it is, whoever
\* changed the points, unless a request failed, an older question was
\* answered last, or a change was not published.
ShowsPage ==
    Quiet /\ ~ui.timer /\ ~hist.faulty =>
        /\ ui.rows = PageOf(db, ui.view, ui.page)
        /\ ui.total = Cardinality(Filtered(db, ui.view))

\* A bulk dialog acts on the selection it was opened for and whose size it
\* shows: no answer that comes meanwhile changes it.
ActsOnShown == ui.dialog.kind \in {"bulk", "save"} => ui.selected = ui.dialog.of

\* A table without rows says that there is no point.  It does not hold: a
\* page that has lost its last point stays open, empty.
NeverStranded == Quiet /\ ui.rows = <<>> => ui.total = 0
=============================================================================
