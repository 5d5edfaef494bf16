---------------------------- MODULE Acts_proofs ----------------------------
(***************************************************************************)
(* What a screen offers is what is meant and allowed: the bulk dialogs     *)
(* over the survey points, the imports, and the pages of users and of      *)
(* projects, for any number of requests, rows, changes and turns.  What    *)
(* the grid card saves is what was meant, too: its own axis and no other.  *)
(***************************************************************************)
EXTENDS Screens_proofs, Sequences, FiniteSetTheorems

-----------------------------------------------------------------------------
(* The survey points.                                                      *)
PFields == {"rows", "total", "view", "page", "selected", "timer", "busy", "dialog", "groups"}
PLoads == {"none", "load", "groups"}

\* The changes under way that hold the panel's busy flag.
PPanels == {s \in R!Slots : net[s].op \notin PLoads /\ net[s].who = "panel"}
PCalls ==
    /\ RNet
    /\ \A s \in R!Slots :
          /\ net[s].op = "none" => net[s].st = "idle"
          /\ net[s].op \notin PLoads => "who" \in DOMAIN net[s]

\* There is one at most, and while a bulk dialog is open only its own.
PBusy ==
    /\ \A s \in PPanels : "panel" \in ui.busy
    /\ \A s, t \in PPanels : s = t
    /\ ui.dialog.kind = "bulk" => "panel" \notin ui.busy
    /\ ui.dialog.kind = "save" => \A s \in PPanels : net[s].op = "group"
PInv == DOMAIN ui = PFields /\ PCalls /\ PBusy /\ Points!ActsOnShown

\* No change of the panel comes or goes.
PSame == PCalls' /\ PPanels' = PPanels /\ \A s \in PPanels : net'[s].op = net[s].op

LEMMA PLinks ==
    /\ Points!Slots = R!Slots /\ Points!NoCall = R!NoCall
    /\ \A r : Points!Send(r) <=> R!Send(r)
    /\ \A s : Points!Settle(s) <=> R!Settle(s)
    /\ \A s, r : (Points!Answer(s, r) <=> R!Answer(s, r)) /\ (Points!Follow(s, r) <=> R!Follow(s, r))
BY DEF Points!Slots, R!Slots, Points!NoCall, R!NoCall, Points!Send, R!Send, Points!Settle, R!Settle,
       Points!Answer, R!Answer, Points!Follow, R!Follow, Points!Asked, R!Asked, Points!Extended, R!Extended

LEMMA PKept ==
    ASSUME PInv, DOMAIN ui' = PFields, PSame, "panel" \in ui'.busy <=> "panel" \in ui.busy,
           \/ ui'.dialog = ui.dialog /\ ui'.selected = ui.selected
           \/ ui'.dialog.kind \notin {"bulk", "save"}
           \/ "panel" \notin ui.busy /\ ui'.selected = ui'.dialog.of
    PROVE  PInv'
<1>1. PCalls' /\ PPanels' = PPanels /\ (\A s \in PPanels : net'[s].op = net[s].op)
  BY DEF PSame
<1>2. "panel" \notin ui.busy => PPanels = {}
  BY DEF PInv, PBusy
<1>3. PBusy'
  BY <1>1, <1>2 DEF PInv, PBusy
<1>4. Points!ActsOnShown'
  BY DEF PInv, Points!ActsOnShown
<1> QED
  BY <1>1, <1>3, <1>4 DEF PInv

LEMMA PNetKept ==
    ASSUME PInv, net' = net
    PROVE  PSame
BY DEF PInv, PSame, PCalls, PPanels, RNet

\* A request other than a change of the panel is sent.
LEMMA PSent ==
    ASSUME PInv, NEW r, R!Send(r), "op" \in DOMAIN r, {"st", "mine"} \cap DOMAIN r = {},
           r.op # "none", r.op \in PLoads \/ ("who" \in DOMAIN r /\ r.who # "panel")
    PROVE  PSame
<1>1. PICK s \in R!Slots : /\ RNet' /\ Only(s) /\ net[s] = R!NoCall /\ DOMAIN net'[s] = DOMAIN r \cup {"st", "mine"}
                           /\ \A f \in DOMAIN r : net'[s][f] = r[f]
  BY RSent DEF PInv, PCalls
<1>2. net[s].op = "none"
  BY <1>1 DEF R!NoCall
<1>3. net'[s].op # "none" /\ (net'[s].op \in PLoads \/ ("who" \in DOMAIN net'[s] /\ net'[s].who # "panel"))
  BY <1>1
<1>4. PPanels' = PPanels /\ s \notin PPanels
  BY <1>1, <1>2, <1>3 DEF PPanels, Only, PLoads
<1>5. PCalls'
  BY <1>1, <1>3 DEF PInv, PCalls, Only
<1> QED
  BY <1>1, <1>4, <1>5 DEF PSame, Only, PPanels

\* A request other than a change of the panel is settled or followed by a load.
LEMMA PEnded ==
    ASSUME PInv, NEW s \in R!Slots, RNet', Only(s), net'[s].op \in PLoads,
           net'[s].op = "none" => net'[s].st = "idle"
    PROVE  /\ PCalls' /\ PPanels' = PPanels \ {s}
           /\ \A t \in PPanels' : net'[t].op = net[t].op
BY DEF PInv, PCalls, PPanels, Only

\* A change of the panel is sent.
LEMMA PPanelSent ==
    ASSUME PInv, NEW op, op \notin PLoads, NEW ids, NEW u, DOMAIN u = PFields, u.selected = ui.selected,
           u.busy = ui.busy,
           u.dialog = ui.dialog \/ u.dialog = Points!NoDialog,
           u.dialog.kind # "bulk", u.dialog.kind = "save" => op = "group", "panel" \notin ui.busy,
           Points!Change(op, ids, "panel", u)
    PROVE  PInv'
<1> DEFINE r == [op |-> op, ids |-> ids, who |-> "panel", view |-> ui.view, page |-> ui.page]
<1>1. /\ DOMAIN r = {"op", "ids", "who", "view", "page"} /\ r.op = op /\ r.who = "panel"
      /\ "op" \in DOMAIN r /\ {"st", "mine"} \cap DOMAIN r = {}
  OBVIOUS
<1>2. R!Send(r)
  BY PLinks DEF Points!Change
<1> HIDE DEF r
<1>3. PICK s \in R!Slots : /\ RNet' /\ Only(s) /\ DOMAIN net'[s] = DOMAIN r \cup {"st", "mine"}
                           /\ \A f \in DOMAIN r : net'[s][f] = r[f]
  <2>1. RNet
    BY DEF PInv, PCalls
  <2> QED
    BY <1>1, <1>2, <2>1, RSent
<1>4. "who" \in DOMAIN net'[s] /\ net'[s].op = op /\ net'[s].who = "panel"
  BY <1>1, <1>3
<1>5. PCalls'
  BY <1>3, <1>4 DEF PInv, PCalls, Only, PLoads
<1>6. PPanels = {}
  BY DEF PInv, PBusy
<1>7. PPanels' = {s}
  BY <1>3, <1>4, <1>6 DEF PPanels, Only
<1>8. /\ DOMAIN ui' = PFields /\ "panel" \in ui'.busy /\ ui'.dialog = u.dialog /\ ui'.selected = ui.selected
  <2> DEFINE b == u.busy \cup ({"panel"} \ {"none"})
  <2>1. "panel" \in b
    OBVIOUS
  <2>2. ui' = [u EXCEPT !.busy = b]
    BY DEF Points!Change
  <2> HIDE DEF b
  <2> QED
    BY <2>1, <2>2 DEF PFields
<1>9. PBusy'
  BY <1>4, <1>7, <1>8 DEF PBusy
<1>10. Points!ActsOnShown'
  BY <1>8 DEF PInv, Points!ActsOnShown, Points!NoDialog
<1> QED
  BY <1>5, <1>8, <1>9, <1>10 DEF PInv

\* A change of a dialog or of a row is sent.
LEMMA PChangeSent ==
    ASSUME PInv, NEW op, NEW ids, op # "none", NEW who, who # "panel", NEW u, DOMAIN u = PFields, u.selected = ui.selected,
           u.busy = ui.busy, u.dialog = ui.dialog \/ u.dialog = Points!NoDialog,
           Points!Change(op, ids, who, u)
    PROVE  PInv'
<1> DEFINE r == [op |-> op, ids |-> ids, who |-> who, view |-> ui.view, page |-> ui.page]
<1>1. /\ "who" \in DOMAIN r /\ r.who = who /\ r.op = op
      /\ "op" \in DOMAIN r /\ {"st", "mine"} \cap DOMAIN r = {}
  OBVIOUS
<1>2. R!Send(r)
  BY PLinks DEF Points!Change
<1> HIDE DEF r
<1>3. PSame
  BY <1>1, <1>2, PSent
<1>4. /\ DOMAIN ui' = PFields /\ ("panel" \in ui'.busy <=> "panel" \in ui.busy)
      /\ ui'.dialog = u.dialog /\ ui'.selected = ui.selected
  <2> DEFINE b == u.busy \cup ({who} \ {"none"})
  <2>1. "panel" \in b <=> "panel" \in ui.busy
    OBVIOUS
  <2>2. ui' = [u EXCEPT !.busy = b]
    BY DEF Points!Change
  <2> HIDE DEF b
  <2> QED
    BY <2>1, <2>2 DEF PFields
<1> QED
  BY <1>3, <1>4, PKept DEF Points!NoDialog

\* The table is paged and filtered.
LEMMA PAskKeeps ==
    ASSUME PInv, \/ \E view : Points!SetView(view)
                 \/ Points!Previous \/ Points!NextPage
    PROVE  PInv'
<1>1. DOMAIN ui = PFields
  BY DEF PInv
<1>2. ASSUME NEW u, DOMAIN u = PFields, \A f \in {"busy", "dialog", "selected"} : u[f] = ui[f], Points!Ask(u)
      PROVE  PInv'
  <2> DEFINE r == Points!Load(u, FALSE)
  <2>1. r.op \in PLoads /\ r.op # "none" /\ "op" \in DOMAIN r /\ {"st", "mine"} \cap DOMAIN r = {}
    BY DEF Points!Load, PLoads
  <2>2. R!Send(r)
    BY <1>2, PLinks DEF Points!Ask
  <2> HIDE DEF r
  <2>3. PSame
    BY <2>1, <2>2, PSent
  <2>4. DOMAIN ui' = PFields /\ \A f \in {"busy", "dialog", "selected"} : ui'[f] = ui[f]
    BY <1>2 DEF Points!Ask, PFields
  <2> QED
    BY <2>3, <2>4, PKept
<1>3. ASSUME NEW p PROVE LET u == [ui EXCEPT !.page = p]
                         IN  DOMAIN u = PFields /\ \A f \in {"busy", "dialog", "selected"} : u[f] = ui[f]
  BY <1>1 DEF PFields
<1>4. ASSUME NEW v PROVE LET u == [ui EXCEPT !.view = v, !.page = 0]
                         IN  DOMAIN u = PFields /\ \A f \in {"busy", "dialog", "selected"} : u[f] = ui[f]
  BY <1>1 DEF PFields
<1>5. CASE \E view : Points!SetView(view)
  BY <1>2, <1>4, <1>5 DEF Points!SetView
<1>6. CASE Points!Previous
  BY <1>2, <1>3, <1>6 DEF Points!Previous
<1>7. CASE Points!NextPage
  BY <1>2, <1>3, <1>7 DEF Points!NextPage
<1> QED
  BY <1>5, <1>6, <1>7

\* Rows are selected, dialogs open and close.
LEMMA PChooseKeeps ==
    ASSUME PInv, \/ \E ids : Points!Select(ids)
                 \/ Points!CloseDialog \/ Points!ApplyGroup
                 \/ \E kind, of : Points!Open(kind, of) /\ (kind \notin {"bulk", "save"} \/ (Points!Actions /\ of = ui.selected))
    PROVE  PInv'
<1>1. DOMAIN ui = PFields
  BY DEF PInv
<1>2. CASE \E ids : Points!Select(ids)
  <2>1. /\ DOMAIN ui' = PFields /\ ui'.busy = ui.busy /\ ui'.dialog = Points!NoDialog /\ net' = net
    BY <1>1, <1>2 DEF Points!Select, Points!Table, PFields
  <2> QED
    BY <2>1, PNetKept, PKept DEF Points!NoDialog
<1>3. CASE Points!CloseDialog \/ Points!ApplyGroup
  <2>1. /\ DOMAIN ui' = PFields /\ ui'.busy = ui.busy /\ ui'.dialog = Points!NoDialog /\ net' = net
    BY <1>1, <1>3 DEF Points!CloseDialog, Points!ApplyGroup, PFields
  <2> QED
    BY <2>1, PNetKept, PKept DEF Points!NoDialog
<1>4. ASSUME NEW kind, NEW of, Points!Open(kind, of),
             kind \notin {"bulk", "save"} \/ (Points!Actions /\ of = ui.selected)
      PROVE  PInv'
  <2>1. /\ DOMAIN ui' = PFields /\ ui'.busy = ui.busy /\ ui'.selected = ui.selected
        /\ ui'.dialog.kind = kind /\ ui'.dialog.of = of
    BY <1>1, <1>4 DEF Points!Open, PFields
  <2>2. PSame
    <3>1. R!Send(Points!Groups) \/ net' = net
      BY <1>4, PLinks DEF Points!Open
    <3>2. LET r == Points!Groups IN r.op \in PLoads /\ r.op # "none" /\ "op" \in DOMAIN r /\ {"st", "mine"} \cap DOMAIN r = {}
      BY DEF Points!Groups, PLoads
    <3> QED
      BY <3>1, <3>2, PSent, PNetKept
  <2>3. "panel" \notin ui.busy \/ kind \notin {"bulk", "save"}
    BY <1>4 DEF Points!Actions
  <2> QED
    BY <1>4, <2>1, <2>2, <2>3, PKept
<1> QED
  BY <1>2, <1>3, <1>4

\* The changes are asked for.
LEMMA PSubmitKeeps ==
    ASSUME PInv, \/ Points!RemovePoint \/ Points!BulkDelete \/ Points!AddToGroup \/ Points!SaveGroup
                 \/ Points!ManagerCreate \/ Points!ManagerRemove \/ Points!RemoveCategory
                 \/ \E op \in {"assign", "clear"} : Points!BulkAssign(op)
                 \/ \E op \in {"tag", "untag"} : Points!SubmitEdit(op)
                 \/ \E ids : Points!SubmitNew(ids)
    PROVE  PInv'
<1> DEFINE w == [ui EXCEPT !.dialog = Points!NoDialog]
<1>1. DOMAIN ui = PFields
  BY DEF PInv
<1>2. DOMAIN w = PFields /\ w.selected = ui.selected /\ w.busy = ui.busy /\ w.dialog = Points!NoDialog
  BY <1>1 DEF PFields
<1>3. /\ Points!NoDialog.kind = "none"
      /\ \A op \in {"bulk", "assign", "clear", "join", "group"} : op \notin PLoads
  BY DEF Points!NoDialog, PLoads
<1>4. CASE Points!BulkDelete
  <2>1. ui.dialog.kind = "bulk" /\ Points!Change("bulk", ui.selected, "panel", w)
    BY <1>4 DEF Points!BulkDelete
  <2> HIDE DEF w
  <2>2. "panel" \notin ui.busy
    BY <2>1 DEF PInv, PBusy
  <2> QED
    BY <1>2, <1>3, <2>1, <2>2, PPanelSent
<1>5. ASSUME NEW op \in {"assign", "clear", "join"}, Points!Actions, Points!Change(op, ui.selected, "panel", ui)
      PROVE  PInv'
  <2>1. ui.dialog.kind = "none" /\ "panel" \notin ui.busy
    BY <1>3, <1>5 DEF Points!Actions, Points!Table
  <2> QED
    BY <1>1, <1>3, <1>5, <2>1, PPanelSent
<1>6. CASE Points!AddToGroup \/ \E op \in {"assign", "clear"} : Points!BulkAssign(op)
  BY <1>5, <1>6 DEF Points!AddToGroup, Points!BulkAssign
<1>7. CASE Points!SaveGroup
  <2>1. ui.dialog.kind = "save" /\ "panel" \notin ui.busy /\ Points!Change("group", ui.selected, "panel", ui)
    BY <1>7 DEF Points!SaveGroup, Points!Idle
  <2> QED
    BY <1>1, <1>3, <2>1, PPanelSent
<1>8. CASE Points!RemovePoint
  <2>1. Points!Change("delete", ui.dialog.of, "none", w)
    BY <1>8 DEF Points!RemovePoint
  <2> HIDE DEF w
  <2> QED
    BY <1>2, <2>1, PChangeSent
<1>9. CASE \/ Points!ManagerCreate \/ Points!ManagerRemove \/ Points!RemoveCategory
           \/ \E op \in {"tag", "untag"} : Points!SubmitEdit(op)
           \/ \E ids : Points!SubmitNew(ids)
  <2>1. PICK op, ids, who : Points!Change(op, ids, who, ui) /\ who # "panel" /\ op # "none"
    BY <1>9 DEF Points!ManagerCreate, Points!ManagerRemove, Points!RemoveCategory, Points!SubmitEdit, Points!SubmitNew
  <2> QED
    BY <1>1, <2>1, PChangeSent
<1> QED
  BY <1>4, <1>6, <1>7, <1>8, <1>9

LEMMA PUserKeeps ==
    ASSUME PInv, Points!User
    PROVE  PInv'
<1>1. CASE Points!ToggleAll \/ Points!ClearSelection \/ \E p \in 1 .. Several : Points!Toggle(p)
  <2>1. \E ids : Points!Select(ids)
    BY <1>1 DEF Points!ToggleAll, Points!ClearSelection, Points!Toggle
  <2> QED
    BY <2>1, PChooseKeeps
<1>2. CASE \/ \E p \in 1 .. Several : \E kind \in {"edit", "delete"} : Points!OpenRow(kind, p)
           \/ \E kind \in {"bulk", "save"} : Points!OpenBulk(kind)
           \/ \E kind \in {"new", "groups", "categories"} : Points!OpenManage(kind)
  <2>1. \E kind, of : Points!Open(kind, of) /\ (kind \notin {"bulk", "save"} \/ (Points!Actions /\ of = ui.selected))
    BY <1>2 DEF Points!OpenRow, Points!OpenBulk, Points!OpenManage
  <2> QED
    BY <2>1, PChooseKeeps
<1> QED
  BY <1>1, <1>2, PAskKeeps, PChooseKeeps, PSubmitKeeps DEF Points!User

\* The server, other sessions, and the timer.
LEMMA PServeKeeps ==
    ASSUME PInv, Points!Others \/ Points!Refresh \/ \E s \in R!Slots : Points!Serve(s)
    PROVE  PInv'
<1>1. DOMAIN ui = PFields
  BY DEF PInv
<1>2. DOMAIN ui' = PFields /\ \A f \in {"busy", "dialog", "selected"} : ui'[f] = ui[f]
  <2>1. PICK b : ui' = [ui EXCEPT !.timer = b] \/ ui' = ui
    BY DEF Points!Others, Points!Elsewhere, Points!Refresh, Points!Serve, Points!Write, Points!Read
  <2> QED
    BY <1>1, <2>1 DEF PFields
<1>3. CASE Points!Others
  <2>1. net' = net
    BY <1>3 DEF Points!Others, Points!Elsewhere
  <2> QED
    BY <1>2, <2>1, PNetKept, PKept
<1>4. CASE Points!Refresh
  <2> DEFINE r == Points!Load(ui, TRUE)
  <2>1. r.op \in PLoads /\ r.op # "none" /\ "op" \in DOMAIN r /\ {"st", "mine"} \cap DOMAIN r = {}
    BY DEF Points!Load, PLoads
  <2>2. R!Send(r)
    BY <1>4, PLinks DEF Points!Refresh
  <2> HIDE DEF r
  <2> QED
    BY <1>2, <2>1, <2>2, PSent, PKept
<1>5. ASSUME NEW s \in R!Slots, Points!Serve(s) PROVE PInv'
  <2>1. net[s].st = "sent" /\ \E w : R!Answer(s, w)
    BY <1>5, PLinks DEF Points!Serve, Points!Write, Points!Read, Points!Writes
  <2>2. net[s] # R!NoCall
    BY <2>1 DEF R!NoCall
  <2>3. /\ RNet' /\ Only(s) /\ DOMAIN net'[s] = DOMAIN net[s] \cup {"ans"}
        /\ \A f \in DOMAIN net[s] \ {"st"} : net'[s][f] = net[s][f]
    BY <2>1, <2>2, RAnswered DEF PInv, PCalls
  <2>4. "op" \in DOMAIN net[s] /\ net[s].op # "none" /\ (net[s].op \notin PLoads => "who" \in DOMAIN net[s])
    BY <2>1, <2>2 DEF PInv, PCalls, RNet, RShape
  <2>5. /\ net'[s].op = net[s].op /\ net'[s].op # "none"
        /\ net[s].op \notin PLoads => "who" \in DOMAIN net'[s] /\ net'[s].who = net[s].who
    BY <2>3, <2>4
  <2>6. PSame
    BY <2>3, <2>5 DEF PInv, PSame, PCalls, PPanels, Only
  <2> QED
    BY <1>2, <2>6, PKept
<1> QED
  BY <1>3, <1>4, <1>5

LEMMA PLoadedKeeps ==
    ASSUME PInv, NEW s \in R!Slots, Points!Loaded(s) \/ Points!GroupsLoaded(s)
    PROVE  PInv'
<1>1. DOMAIN ui' = PFields /\ \A f \in {"busy", "dialog", "selected"} : ui'[f] = ui[f]
  <2> DEFINE groups == IF net[s].groups THEN net[s].ans.members ELSE ui.groups
             v == [ui EXCEPT !.rows = net[s].ans.rows, !.total = net[s].ans.total, !.groups = groups]
  <2>1. DOMAIN ui = PFields
    BY DEF PInv
  <2>2. CASE Points!Loaded(s)
    <3>1. ui' = v
      BY <2>1, <2>2 DEF Points!Loaded, PFields
    <3> HIDE DEF groups
    <3> QED
      BY <2>1, <3>1 DEF PFields
  <2>3. CASE Points!GroupsLoaded(s)
    BY <2>1, <2>3 DEF Points!GroupsLoaded, PFields
  <2> QED
    BY <2>2, <2>3
<1>2. RNet' /\ Only(s) /\ net'[s].op = "none" /\ net'[s].st = "idle" /\ net[s].op \in PLoads
  BY RSettled, PLinks DEF PInv, PCalls, PLoads, Points!Loaded, Points!GroupsLoaded, Points!At, R!NoCall
<1>3. PCalls' /\ PPanels' = PPanels \ {s} /\ (\A t \in PPanels' : net'[t].op = net[t].op) /\ s \notin PPanels
  BY <1>2, PEnded DEF PLoads, PPanels
<1>4. PSame
  BY <1>3 DEF PSame
<1> QED
  BY <1>1, <1>4, PKept

\* A change ends, done or failed: the panel's ends what the panel waits for.
LEMMA PEndKeeps ==
    ASSUME PInv, NEW s \in R!Slots, Points!Done(s) \/ Points!Failed(s), net[s].op \notin PLoads
    PROVE  PInv'
<1>1. DOMAIN ui = PFields
  BY DEF PInv
<1>2. RNet' /\ Only(s) /\ net'[s].op \in PLoads /\ (net'[s].op = "none" => net'[s].st = "idle")
  <2>1. R!Settle(s) \/ R!Follow(s, Points!Groups) \/ R!Follow(s, Points!Load(net[s], FALSE))
    BY PLinks DEF Points!Done, Points!Failed
  <2>2. LET r == Points!Groups IN r.op \in PLoads /\ r.op # "none" /\ "op" \in DOMAIN r /\ {"st", "mine"} \cap DOMAIN r = {}
    BY DEF Points!Groups, PLoads
  <2>3. LET r == Points!Load(net[s], FALSE) IN r.op \in PLoads /\ r.op # "none" /\ "op" \in DOMAIN r /\ {"st", "mine"} \cap DOMAIN r = {}
    BY DEF Points!Load, PLoads
  <2>4. ASSUME NEW r, r.op \in PLoads, r.op # "none", "op" \in DOMAIN r, {"st", "mine"} \cap DOMAIN r = {}, R!Follow(s, r)
        PROVE  RNet' /\ Only(s) /\ net'[s].op \in PLoads /\ net'[s].op # "none"
    <3>1. RNet
      BY DEF PInv, PCalls
    <3>2. RNet' /\ Only(s) /\ \A f \in DOMAIN r : net'[s][f] = r[f]
      BY <2>4, <3>1, RFollowed
    <3> QED
      BY <2>4, <3>2
  <2>5. CASE R!Settle(s)
    BY <2>5, RSettled DEF PInv, PCalls, PLoads, R!NoCall
  <2> QED
    BY <2>1, <2>2, <2>3, <2>4, <2>5
<1>3. PCalls' /\ PPanels' = PPanels \ {s} /\ \A t \in PPanels' : net'[t].op = net[t].op
  BY <1>2, PEnded
<1> DEFINE free == ui.busy \ {net[s].who}
           left == IF ui.dialog.kind \in Points!Closes(net[s]) THEN Points!NoDialog ELSE ui.dialog
           kept == IF net[s].who = "panel" THEN {} ELSE ui.selected
<1>4. /\ DOMAIN ui' = PFields /\ ui'.busy = free
      /\ Points!Done(s) => ui'.dialog = left /\ ui'.selected = kept
      /\ Points!Failed(s) => ui'.dialog = ui.dialog /\ ui'.selected = ui.selected
  <2>1. Points!Done(s) => ui' = [ui EXCEPT !.busy = free, !.dialog = left, !.selected = kept]
    BY DEF Points!Done
  <2>2. Points!Failed(s) => ui' = [ui EXCEPT !.busy = free]
    BY DEF Points!Failed, PLoads
  <2>3. Points!Done(s) => net[s].st = "done" /\ hist' = hist
    BY DEF Points!Done
  <2>4. Points!Failed(s) => hist'.faulty = TRUE /\ ~hist.faulty
    BY DEF Points!Failed
  <2> HIDE DEF free, left, kept
  <2> QED
    BY <1>1, <2>1, <2>2 DEF PFields
<1>5. CASE net[s].who = "panel"
  <2>1. s \in PPanels
    BY <1>5 DEF PPanels
  <2>2. PPanels' = {} /\ "panel" \in ui.busy
    BY <1>3, <2>1 DEF PInv, PBusy
  <2>3. "panel" \notin ui'.busy
    BY <1>4, <1>5
  <2>4. PBusy'
    BY <2>2, <2>3 DEF PBusy
  <2>5. Points!ActsOnShown'
    <3>1. CASE Points!Failed(s)
      BY <1>4, <3>1 DEF PInv, Points!ActsOnShown
    <3>2. CASE Points!Done(s)
      <4>1. ui.dialog.kind # "bulk" /\ (ui.dialog.kind = "save" => net[s].op = "group")
        BY <2>1, <2>2 DEF PInv, PBusy
      <4>2. ui.dialog.kind = "save" => "save" \in Points!Closes(net[s])
        BY <1>5, <4>1 DEF Points!Closes
      <4>3. left.kind \notin {"bulk", "save"}
        BY <4>1, <4>2 DEF Points!NoDialog
      <4> QED
        BY <1>4, <3>2, <4>3 DEF Points!ActsOnShown
    <3> QED
      BY <3>1, <3>2
  <2> QED
    BY <1>3, <1>4, <2>4, <2>5 DEF PInv
<1>6. CASE net[s].who # "panel"
  <2>1. PSame
    BY <1>3, <1>6 DEF PSame, PPanels
  <2>2. "panel" \in ui'.busy <=> "panel" \in ui.busy
    BY <1>4, <1>6
  <2>3. (ui'.dialog = ui.dialog /\ ui'.selected = ui.selected) \/ ui'.dialog.kind = "none"
    BY <1>4, <1>6 DEF Points!NoDialog
  <2> QED
    BY <1>4, <2>1, <2>2, <2>3, PKept
<1> QED
  BY <1>5, <1>6

LEMMA PSettlesKeep ==
    ASSUME PInv, NEW s \in R!Slots, Points!Settles(s)
    PROVE  PInv'
<1>1. CASE Points!Loaded(s) \/ Points!GroupsLoaded(s)
  BY <1>1, PLoadedKeeps
<1>2. CASE Points!Done(s)
  <2>1. net[s].st = "done" /\ net[s].op \notin {"load", "groups"}
    BY <1>2 DEF Points!Done
  <2>2. net[s].op # "none"
    BY <2>1 DEF PInv, PCalls
  <2> QED
    BY <1>2, <2>1, <2>2, PEndKeeps DEF PLoads
<1>3. CASE Points!Failed(s)
  <2>1. CASE net[s].op \notin PLoads
    BY <1>3, <2>1, PEndKeeps
  <2>2. CASE net[s].op \in PLoads
    <3>1. RNet' /\ Only(s) /\ net'[s].op = "none" /\ net'[s].st = "idle"
      BY <1>3, RSettled, PLinks DEF PInv, PCalls, Points!Failed, R!NoCall
    <3>2. PSame
      <4>1. PCalls' /\ PPanels' = PPanels \ {s} /\ (\A t \in PPanels' : net'[t].op = net[t].op) /\ s \notin PPanels
        BY <2>2, <3>1, PEnded DEF PLoads, PPanels
      <4> QED
        BY <4>1 DEF PSame
    <3>3. ui' = ui
      <4>1. net[s].op # "none"
        BY <1>3 DEF PInv, PCalls, Points!Failed
      <4> QED
        BY <1>3, <2>2, <4>1 DEF Points!Failed, PLoads
    <3> QED
      BY <3>2, <3>3, PKept DEF PInv
  <2> QED
    BY <2>1, <2>2
<1> QED
  BY <1>1, <1>2, <1>3 DEF Points!Settles

LEMMA PInit ==
    ASSUME Points!Init
    PROVE  PInv
<1> DEFINE r == Points!Load(ui, TRUE)
<1>1. r.op = "load" /\ "op" \in DOMAIN r /\ {"st", "mine"} \cap DOMAIN r = {}
  BY DEF Points!Load
<1>2. net = [R!NoCalls EXCEPT ![1] = R!Asked(r)]
  BY PLinks DEF Points!Init, Points!NoCalls, R!NoCalls, Points!Asked, R!Asked, Points!Extended, R!Extended
<1> HIDE DEF r
<1>3. RNet /\ \A s \in R!Slots : net[s] \in {R!NoCall, R!Asked(r)}
  BY <1>1, <1>2, RStart
<1>4. R!NoCall.op = "none" /\ R!NoCall.st = "idle" /\ R!Asked(r).op = "load"
  BY <1>1, RAsked DEF R!NoCall
<1>5. \A s \in R!Slots : net[s].op \in PLoads /\ (net[s].op = "none" => net[s].st = "idle")
  BY <1>3, <1>4 DEF PLoads
<1>6. PCalls /\ PPanels = {}
  BY <1>3, <1>5 DEF PCalls, PPanels
<1>7. DOMAIN ui = PFields /\ ui.dialog.kind = "none"
  BY DEF Points!Init, PFields, Points!NoDialog
<1> QED
  BY <1>6, <1>7 DEF PInv, PBusy, Points!ActsOnShown

LEMMA PStep ==
    ASSUME PInv, [Points!Next]_Points!vars
    PROVE  PInv'
<1>1. CASE UNCHANGED Points!vars
  BY <1>1, PNetKept, PKept DEF PInv, Points!vars
<1> QED
  BY <1>1, PLinks, PUserKeeps, PServeKeeps, PSettlesKeep DEF Points!Next

-----------------------------------------------------------------------------
(* The dialogs that import a file.                                         *)
DFields == {"dialog", "open", "format", "name", "content", "shown", "busy"}
DForm == {"dialog", "name", "content", "shown"}

\* An import that is filed under its own name, as FiledAsNamed says.
DNamed(i) ==
    \/ i.content = Dialogs!Pasted
    \/ Dialogs!Points /\ hist.odd
    \/ i.content = i.name /\ (Dialogs!Points \/ hist.odd \/ i.content = i.shown)

\* A reading is of the file that the dialog names, or that its input shows.
DSlot(r) ==
    /\ r.op = "read" =>
          "file" \in DOMAIN r /\ (hist.odd \/ (IF Dialogs!Points THEN ui.name = r.file ELSE ui.shown = r.file))
    /\ r.op = "import" => {"name", "content", "shown"} \subseteq DOMAIN r /\ DNamed(r)
DReads == {s \in R!Slots : net[s].op = "read"}
DOnce == hist.odd \/ \A s, t \in DReads : s = t

\* What the dialog holds, once it is read, is what it names.
DHeld ==
    /\ hist.odd \/ DReads # {} \/ ui.content \in {Dialogs!None, Dialogs!Pasted}
       \/ (ui.content = ui.name /\ (Dialogs!Points \/ ui.content = ui.shown))
    /\ Dialogs!Points \/ ui.content = Dialogs!None \/ ui.content = ui.name
DShape == DOMAIN ui = DFields /\ DOMAIN hist = {"odd"} /\ hist.odd \in BOOLEAN
DInv == DShape /\ RNet /\ (\A s \in R!Slots : DSlot(net[s])) /\ DOnce /\ DHeld /\ DNamed(db.last)

LEMMA DCalls ==
    /\ Dialogs!Slots = R!Slots /\ Dialogs!NoCall = R!NoCall
    /\ \A r : Dialogs!Send(r) <=> R!Send(r)
    /\ \A s : Dialogs!Settle(s) <=> R!Settle(s)
    /\ \A s, r : Dialogs!Answer(s, r) <=> R!Answer(s, r)
BY DEF Dialogs!Slots, R!Slots, Dialogs!NoCall, R!NoCall, Dialogs!Send, R!Send, Dialogs!Settle, R!Settle,
       Dialogs!Answer, R!Answer, Dialogs!Asked, R!Asked, Dialogs!Extended, R!Extended

LEMMA DNoted ==
    ASSUME DShape, Dialogs!Notes
    PROVE  /\ DOMAIN hist' = {"odd"} /\ hist'.odd \in BOOLEAN /\ (hist.odd => hist'.odd)
           /\ DReads # {} => hist'.odd
           /\ DReads = {} => hist'.odd = hist.odd
<1> DEFINE b == hist.odd \/ Dialogs!Reading
<1>1. b \in BOOLEAN /\ (b <=> hist.odd \/ DReads # {})
  BY DCalls DEF DReads, Dialogs!Reading, Dialogs!Flying
<1>2. hist' = [hist EXCEPT !.odd = b]
  BY DEF Dialogs!Notes
<1> HIDE DEF b
<1> QED
  BY <1>1, <1>2 DEF DShape

\* What was named is, whatever is noted meanwhile.
LEMMA DNamedStays ==
    ASSUME NEW i, DNamed(i), hist.odd => hist'.odd, ui'.dialog = ui.dialog
    PROVE  i.content = Dialogs!Pasted
           \/ (Dialogs!Points /\ hist.odd)'
           \/ (i.content = i.name /\ (Dialogs!Points' \/ hist'.odd \/ i.content = i.shown))
BY DEF DNamed, Dialogs!Points

\* The form changes, and no request does.
LEMMA DFormKeeps ==
    ASSUME DInv, Dialogs!Open \/ Dialogs!Close \/ Dialogs!Paste \/ Dialogs!PickFormat
    PROVE  DInv'
<1>1. DOMAIN hist' = {"odd"} /\ hist'.odd \in BOOLEAN /\ (hist.odd => hist'.odd)
  BY DNoted DEF DInv, DShape, Dialogs!Open, Dialogs!Close, Dialogs!Paste, Dialogs!PickFormat
<1>2. net' = net /\ db' = db
  BY DEF Dialogs!Open, Dialogs!Close, Dialogs!Paste, Dialogs!PickFormat
<1>3. DOMAIN ui' = DFields /\ ui'.dialog = ui.dialog
  BY DEF DInv, DShape, DFields, Dialogs!Open, Dialogs!Close, Dialogs!Paste, Dialogs!PickFormat
<1>4. CASE Dialogs!PickFormat
  <2>1. hist' = hist /\ \A f \in DForm : ui'[f] = ui[f]
    BY <1>4 DEF DInv, DShape, DFields, DForm, Dialogs!PickFormat
  <2> QED
    BY <1>1, <1>2, <1>3, <2>1 DEF DInv, DShape, RNet, DSlot, DOnce, DReads, DHeld, DNamed, DForm, Dialogs!Points
<1>5. CASE Dialogs!Open \/ Dialogs!Close \/ Dialogs!Paste
  <2>1. (DReads # {} => hist'.odd) /\ (DReads = {} => hist'.odd = hist.odd)
    BY <1>5, DNoted DEF DInv, Dialogs!Open, Dialogs!Close, Dialogs!Paste
  <2>2. DReads' = DReads
    BY <1>2 DEF DReads
  <2>3. \A s \in R!Slots : DSlot(net[s])'
    <3> SUFFICES ASSUME NEW s \in R!Slots PROVE DSlot(net[s])'
      OBVIOUS
    <3>1. DSlot(net[s]) /\ net'[s] = net[s] /\ (net[s].op = "read" => hist'.odd)
      BY <1>2, <2>1 DEF DInv, DReads
    <3> QED
      BY <1>1, <1>3, <3>1 DEF DSlot, DNamed, Dialogs!Points
  <2>4. DHeld'
    <3>1. CASE Dialogs!Open
      <4>1. \A f \in DForm : ui'[f] = ui[f]
        BY <3>1 DEF DInv, DShape, DFields, DForm, Dialogs!Open
      <4> QED
        BY <1>1, <2>1, <2>2, <4>1 DEF DInv, DHeld, DForm, Dialogs!Points
    <3>2. CASE Dialogs!Paste
      <4>1. ui'.content = Dialogs!Pasted /\ Dialogs!Points
        BY <3>2 DEF DInv, DShape, DFields, Dialogs!Paste
      <4> QED
        BY <1>3, <4>1 DEF DHeld, Dialogs!Points
    <3>3. CASE Dialogs!Close
      <4>1. IF Dialogs!Points THEN ui'.content = ui.content /\ ui'.name = ui.name ELSE ui'.content = Dialogs!None
        BY <3>3 DEF DInv, DShape, DFields, Dialogs!Close
      <4> QED
        BY <1>1, <1>3, <2>1, <2>2, <4>1 DEF DInv, DHeld, Dialogs!Points
    <3> QED
      BY <1>5, <3>1, <3>2, <3>3
  <2> QED
    BY <1>1, <1>2, <1>3, <2>2, <2>3, <2>4 DEF DInv, DShape, RNet, DOnce, DNamed, Dialogs!Points
<1> QED
  BY <1>4, <1>5

LEMMA DPickKeeps ==
    ASSUME DInv, NEW f, Dialogs!Pick(f)
    PROVE  DInv'
<1>1. /\ DOMAIN hist' = {"odd"} /\ hist'.odd \in BOOLEAN /\ (hist.odd => hist'.odd)
      /\ DReads # {} => hist'.odd
  BY DNoted DEF DInv, Dialogs!Pick
<1>2. /\ DOMAIN ui' = DFields /\ ui'.dialog = ui.dialog /\ ui'.content = ui.content
      /\ ui'.shown = f /\ ui'.name = IF Dialogs!Points THEN f ELSE ui.name
  BY DEF DInv, DShape, DFields, Dialogs!Pick
<1> DEFINE r == [op |-> "read", file |-> f]
<1>3. /\ DOMAIN r = {"op", "file"} /\ r.op = "read" /\ r.file = f
      /\ "op" \in DOMAIN r /\ {"st", "mine"} \cap DOMAIN r = {}
  OBVIOUS
<1>4. R!Send(r)
  BY DCalls DEF Dialogs!Pick
<1> HIDE DEF r
<1>5. PICK s \in R!Slots : /\ RNet' /\ Only(s) /\ net[s] = R!NoCall /\ "file" \in DOMAIN net'[s]
                           /\ net'[s].op = "read" /\ net'[s].file = f
  <2>1. PICK s \in R!Slots : /\ RNet' /\ Only(s) /\ net[s] = R!NoCall
                             /\ DOMAIN net'[s] = DOMAIN r \cup {"st", "mine"}
                             /\ \A g \in DOMAIN r : net'[s][g] = r[g]
    BY <1>3, <1>4, RSent DEF DInv
  <2>2. "file" \in DOMAIN net'[s] /\ net'[s].op = "read" /\ net'[s].file = f
    BY <1>3, <2>1
  <2> QED
    BY <2>1, <2>2
<1>6. s \in DReads' /\ (DReads = {} => DReads' = {s})
  BY <1>5 DEF DReads, Only
<1>7. \A t \in R!Slots : DSlot(net[t])'
  <2> SUFFICES ASSUME NEW t \in R!Slots PROVE DSlot(net[t])'
    OBVIOUS
  <2>1. CASE t = s
    BY <1>2, <1>5, <2>1 DEF DSlot, Dialogs!Points
  <2>2. CASE t # s
    <3>1. net'[t] = net[t] /\ DSlot(net[t]) /\ (net[t].op = "read" => hist'.odd)
      BY <1>1, <1>5, <2>2 DEF DInv, Only, DReads
    <3> QED
      BY <1>1, <1>2, <3>1 DEF DSlot, DNamed, Dialogs!Points
  <2> QED
    BY <2>1, <2>2
<1>8. DHeld'
  BY <1>2, <1>6 DEF DInv, DHeld, Dialogs!Points
<1>9. DOnce'
  BY <1>1, <1>6 DEF DOnce
<1>10. DNamed(db.last)'
  BY <1>1, <1>2 DEF DInv, DNamed, Dialogs!Points, Dialogs!Pick
<1> QED
  BY <1>1, <1>2, <1>5, <1>7, <1>8, <1>9, <1>10 DEF DInv, DShape

LEMMA DImportKeeps ==
    ASSUME DInv, Dialogs!Import
    PROVE  DInv'
<1>1. /\ DOMAIN hist' = {"odd"} /\ hist'.odd \in BOOLEAN /\ (hist.odd => hist'.odd)
      /\ (DReads # {} => hist'.odd) /\ (DReads = {} => hist'.odd = hist.odd)
  BY DNoted DEF DInv, Dialogs!Import
<1>2. DOMAIN ui' = DFields /\ \A f \in DForm : ui'[f] = ui[f]
  BY DEF DInv, DShape, DFields, DForm, Dialogs!Import
<1> DEFINE q == Dialogs!Filed(ui)
           m == [op |-> "import", format |-> ui.format]
           r == Dialogs!Extended(q, m)
<1>3. /\ DOMAIN q = {"name", "content", "shown"} /\ q.name = ui.name /\ q.content = ui.content /\ q.shown = ui.shown
      /\ DOMAIN m = {"op", "format"} /\ m.op = "import"
  BY DEF Dialogs!Filed
<1>4. R!Send(r)
  BY DCalls DEF Dialogs!Import
<1> HIDE DEF q, m
<1>5. /\ DOMAIN r = {"name", "content", "shown", "op", "format"} /\ r.op = "import"
      /\ "op" \in DOMAIN r /\ {"st", "mine"} \cap DOMAIN r = {}
      /\ \A f \in {"name", "content", "shown"} : r[f] = ui[f]
  BY <1>3 DEF Dialogs!Extended
<1> HIDE DEF r
<1>6. PICK s \in R!Slots : /\ RNet' /\ Only(s) /\ net[s] = R!NoCall /\ {"name", "content", "shown"} \subseteq DOMAIN net'[s]
                           /\ net'[s].op = "import" /\ \A f \in {"name", "content", "shown"} : net'[s][f] = ui[f]
  <2>1. PICK s \in R!Slots : /\ RNet' /\ Only(s) /\ net[s] = R!NoCall
                             /\ DOMAIN net'[s] = DOMAIN r \cup {"st", "mine"}
                             /\ \A g \in DOMAIN r : net'[s][g] = r[g]
    BY <1>4, <1>5, RSent DEF DInv
  <2>2. /\ {"name", "content", "shown"} \subseteq DOMAIN net'[s]
        /\ net'[s].op = "import" /\ \A f \in {"name", "content", "shown"} : net'[s][f] = ui[f]
    BY <1>5, <2>1
  <2> QED
    BY <2>1, <2>2
<1>7. DReads' = DReads
  <2>1. net[s].op = "none"
    BY <1>6 DEF R!NoCall
  <2> QED
    BY <1>6, <2>1 DEF DReads, Only
<1>8. \A t \in R!Slots : DSlot(net[t])'
  <2> SUFFICES ASSUME NEW t \in R!Slots PROVE DSlot(net[t])'
    OBVIOUS
  <2>1. CASE t = s
    <3>1. ui.content # Dialogs!None
      BY DEF Dialogs!Import
    <3>2. \/ ui.content = Dialogs!Pasted
          \/ Dialogs!Points /\ hist'.odd
          \/ ui.content = ui.name /\ (Dialogs!Points \/ hist'.odd \/ ui.content = ui.shown)
      BY <1>1, <3>1 DEF DInv, DHeld
    <3> QED
      BY <1>2, <1>6, <2>1, <3>2 DEF DSlot, DNamed, DForm, Dialogs!Points
  <2>2. CASE t # s
    <3>1. net'[t] = net[t] /\ DSlot(net[t]) /\ (net[t].op = "read" => hist'.odd)
      BY <1>1, <1>6, <2>2 DEF DInv, Only, DReads
    <3> QED
      BY <1>1, <1>2, <3>1 DEF DSlot, DNamed, Dialogs!Points, DForm
  <2> QED
    BY <2>1, <2>2
<1>9. DHeld'
  BY <1>1, <1>2, <1>7 DEF DInv, DHeld, Dialogs!Points, DForm
<1>10. DOnce'
  BY <1>1, <1>7 DEF DInv, DOnce
<1>11. DNamed(db.last)'
  BY <1>1, <1>2 DEF DInv, DNamed, Dialogs!Points, Dialogs!Import, DForm
<1> QED
  BY <1>1, <1>2, <1>6, <1>8, <1>9, <1>10, <1>11 DEF DInv, DShape

\* The answers of the browser and of the server.
LEMMA DServeKeeps ==
    ASSUME DInv, NEW s \in R!Slots, Dialogs!ReadFile(s) \/ Dialogs!Store(s)
    PROVE  DInv'
<1>1. net[s] # R!NoCall /\ ui' = ui /\ hist' = hist /\ \E w : R!Answer(s, w)
  <2>1. net[s].op \in {"read", "import"} /\ ui' = ui /\ hist' = hist /\ \E w : R!Answer(s, w)
    BY DCalls DEF Dialogs!ReadFile, Dialogs!Store, Dialogs!At
  <2> QED
    BY <2>1 DEF R!NoCall
<1>2. /\ RNet' /\ Only(s) /\ DOMAIN net'[s] = DOMAIN net[s] \cup {"ans"}
      /\ \A f \in DOMAIN net[s] \ {"st"} : net'[s][f] = net[s][f]
  BY <1>1, RAnswered DEF DInv
<1>3. "op" \in DOMAIN net[s] /\ DSlot(net[s])
  BY <1>1 DEF DInv, RNet, RShape
<1>4. DSlot(net[s])'
  BY <1>1, <1>2, <1>3 DEF DSlot, DNamed, Dialogs!Points
<1>5. \A t \in R!Slots : DSlot(net[t])'
  BY <1>1, <1>2, <1>4 DEF DInv, Only, DSlot, DNamed, Dialogs!Points
<1>6. DReads' = DReads
  BY <1>2, <1>3 DEF DReads, Only
<1>7. DNamed(db'.last)
  <2>1. CASE Dialogs!ReadFile(s)
    BY <2>1 DEF Dialogs!ReadFile, DInv
  <2>2. CASE Dialogs!Store(s)
    <3>1. /\ db'.last.name = net[s].name /\ db'.last.content = net[s].content /\ db'.last.shown = net[s].shown
      BY <2>2 DEF Dialogs!Store, Dialogs!Filed
    <3>2. DNamed(net[s])
      BY <2>2, <1>3 DEF Dialogs!Store, Dialogs!At, DSlot
    <3> QED
      BY <3>1, <3>2 DEF DNamed
  <2> QED
    BY <2>1, <2>2
<1>8. DNamed(db.last)'
  BY <1>1, <1>7 DEF DNamed, Dialogs!Points
<1> QED
  BY <1>1, <1>2, <1>5, <1>6, <1>8 DEF DInv, DShape, DOnce, DHeld, Dialogs!Points

\* A handler is through.
LEMMA DSettlesKeep ==
    ASSUME DInv, NEW s \in R!Slots, Dialogs!FileRead(s) \/ Dialogs!Imported(s) \/ Dialogs!Failed(s)
    PROVE  DInv'
<1>1. RNet' /\ Only(s) /\ net'[s] = R!NoCall /\ net'[s].op = "none"
  BY DCalls, RSettled DEF DInv, Dialogs!FileRead, Dialogs!Imported, Dialogs!Failed, R!NoCall
<1>2. DOMAIN ui' = DFields /\ ui'.dialog = ui.dialog /\ db' = db
  BY DEF DInv, DShape, DFields, Dialogs!FileRead, Dialogs!Imported, Dialogs!Failed
<1>3. DReads' = DReads \ {s}
  BY <1>1 DEF DReads, Only
<1>4. DSlot(net[s])
  BY DEF DInv
<1>5. /\ DOMAIN hist' = {"odd"} /\ hist'.odd \in BOOLEAN /\ (hist.odd => hist'.odd)
  <2>1. CASE Dialogs!FileRead(s)
    BY <2>1 DEF DInv, DShape, Dialogs!FileRead
  <2>2. CASE Dialogs!Imported(s)
    BY <2>2, DNoted DEF DInv, Dialogs!Imported
  <2>3. CASE Dialogs!Failed(s)
    <3> DEFINE b == hist.odd \/ net[s].op = "read"
    <3>1. b \in BOOLEAN /\ (hist.odd => b)
      OBVIOUS
    <3>2. hist' = [hist EXCEPT !.odd = b]
      BY <2>3 DEF Dialogs!Failed
    <3> HIDE DEF b
    <3> QED
      BY <3>1, <3>2 DEF DInv, DShape
  <2> QED
    BY <2>1, <2>2, <2>3
<1>6. DHeld' /\ (hist'.odd \/ (\A f \in {"name", "shown"} : ui'[f] = ui[f]) \/ DReads' = {})
  <2>1. CASE Dialogs!FileRead(s)
    <3>1. /\ s \in DReads /\ hist' = hist /\ ui'.content = net[s].file /\ ui'.shown = ui.shown
          /\ ui'.name = IF Dialogs!Points THEN ui.name ELSE net[s].file
      BY <2>1, DCalls DEF DInv, DShape, DFields, Dialogs!FileRead, Dialogs!At, DReads
    <3>2. hist.odd \/ DReads' = {}
      BY <1>3, <3>1 DEF DInv, DOnce
    <3>3. hist.odd \/ (IF Dialogs!Points THEN ui.name = net[s].file ELSE ui.shown = net[s].file)
      BY <1>4, <3>1 DEF DSlot, DReads
    <3> QED
      BY <1>2, <3>1, <3>2, <3>3 DEF DHeld, Dialogs!Points
  <2>2. CASE Dialogs!Imported(s)
    <3>1. ui'.content = Dialogs!None
      BY <2>2 DEF DInv, DShape, DFields, Dialogs!Imported
    <3>2. hist'.odd \/ DReads = {}
      BY <2>2, DNoted DEF DInv, Dialogs!Imported
    <3> QED
      BY <1>3, <3>1, <3>2 DEF DHeld
  <2>3. CASE Dialogs!Failed(s)
    <3>1. \A f \in DForm : ui'[f] = ui[f]
      BY <2>3 DEF DInv, DShape, DFields, DForm, Dialogs!Failed
    <3>2. s \in DReads => hist'.odd
      BY <2>3 DEF DInv, DShape, DReads, Dialogs!Failed
    <3>3. hist'.odd \/ DReads' = DReads
      BY <1>3, <3>2
    <3> QED
      BY <1>5, <3>1, <3>3 DEF DInv, DHeld, DForm, Dialogs!Points
  <2> QED
    BY <2>1, <2>2, <2>3
<1>7. \A t \in R!Slots : DSlot(net[t])'
  <2> SUFFICES ASSUME NEW t \in R!Slots PROVE DSlot(net[t])'
    OBVIOUS
  <2>1. CASE t = s
    BY <1>1, <2>1 DEF DSlot
  <2>2. CASE t # s
    <3>1. net'[t] = net[t] /\ DSlot(net[t]) /\ (t \in DReads <=> t \in DReads')
      BY <1>1, <1>3, <2>2 DEF DInv, Only
    <3>2. net[t].op = "read" <=> t \in DReads
      BY DEF DReads
    <3> QED
      BY <1>2, <1>5, <1>6, <3>1, <3>2 DEF DSlot, DNamed, Dialogs!Points
  <2> QED
    BY <2>1, <2>2
<1>8. DOnce'
  BY <1>3, <1>5 DEF DInv, DOnce
<1>9. DNamed(db.last)'
  BY <1>2, <1>5 DEF DInv, DNamed, Dialogs!Points
<1> QED
  BY <1>1, <1>2, <1>5, <1>6, <1>7, <1>8, <1>9 DEF DInv, DShape

LEMMA DInit ==
    ASSUME Dialogs!Init
    PROVE  DInv
<1>1. net = R!NoCalls
  BY DEF Dialogs!Init, Dialogs!NoCalls, R!NoCalls, Dialogs!Slots, R!Slots, Dialogs!NoCall, R!NoCall
<1>2. RNet /\ \A s \in R!Slots : net[s] = R!NoCall
  BY <1>1 DEF RNet, RShape, R!NoCalls
<1>3. DReads = {} /\ \A s \in R!Slots : DSlot(net[s])
  BY <1>2 DEF DReads, DSlot, R!NoCall
<1>4. DShape /\ ui.content = Dialogs!None
  BY DEF Dialogs!Init, Dialogs!Fresh, DShape, DFields
<1>5. DNamed(db.last)
  BY DEF Dialogs!Init, Dialogs!Nothing, DNamed
<1> QED
  BY <1>2, <1>3, <1>4, <1>5 DEF DInv, DOnce, DHeld

LEMMA DStep ==
    ASSUME DInv, [Dialogs!Next]_Dialogs!vars
    PROVE  DInv'
<1>1. CASE UNCHANGED Dialogs!vars
  BY <1>1 DEF DInv, DShape, RNet, DSlot, DOnce, DReads, DHeld, DNamed, Dialogs!Points, Dialogs!vars
<1> QED
  BY <1>1, DCalls, DFormKeeps, DPickKeeps, DImportKeeps, DServeKeeps, DSettlesKeep DEF Dialogs!Next

-----------------------------------------------------------------------------
(* The projects.                                                           *)
JFields == {"loading", "list", "billing", "asking", "open", "creating", "importing", "confirm", "deleting"}
JLook == {"list", "billing", "asking"}
JOps == {"create", "import", "delete", "list", "billing"}

JSlot(r) ==
    \/ r = R!NoCall
    \/ /\ r.op \in JOps
       /\ r.op \in Projects!Writes => "alone" \in DOMAIN r
       /\ r.op = "list" => "old" \in DOMAIN r
       /\ r.st = "sent" => "ans" \notin DOMAIN r
JShape ==
    /\ DOMAIN ui = JFields /\ DOMAIN hist = {"odd"} /\ hist.odd \in BOOLEAN
    /\ DOMAIN db = {"projects", "paid", "changes"} /\ db.projects \subseteq Names
    /\ RNet /\ \A s \in R!Slots : JSlot(net[s])

\* A change that is done has the list loaded again; until then what comes is
\* the organization's list, and either it is on the screen or one comes.
JDone == \E s \in R!Slots : net[s].op \in Projects!Writes /\ net[s].st = "done"
JFresh == \A s \in R!Slots : net[s].op = "list" /\ net[s].st = "done" /\ ~net[s].old => net[s].ans = db.projects
JListed == hist.odd \/ JDone \/ (JFresh /\ (ui.list = db.projects \/ \E s \in R!Slots : net[s].op = "list"))

\* The plan is asked for once.
JPlan == IF db.paid THEN "crew" ELSE "solo"
JBilled ==
    \/ hist.odd
    \/ /\ ui.asking \/ ui.billing = JPlan
       /\ \A s \in R!Slots : net[s].op = "billing" /\ net[s].st = "done" => net[s].ans = JPlan

\* A creation that nothing overlaps has the server to itself.
JRoom == db.paid \/ Cardinality(db.projects) < Few
JAlone ==
    \/ hist.odd
    \/ \A s \in R!Slots : net[s].op = "create" /\ net[s].st = "sent" /\ net[s].alone =>
          JRoom /\ \A t \in R!Slots \ {s} : net[t].op \notin Projects!Writes
JInv == JShape /\ JListed /\ JBilled /\ JAlone

LEMMA JLinks ==
    /\ Projects!Slots = R!Slots /\ Projects!NoCall = R!NoCall
    /\ \A r : Projects!Asked(r) = R!Asked(r)
    /\ \A r, m : Projects!Extended(r, m) = R!Extended(r, m)
    /\ \A s : Projects!Settle(s) <=> R!Settle(s)
    /\ \A s, r : Projects!Answer(s, r) <=> R!Answer(s, r)
BY DEF Projects!Slots, R!Slots, Projects!NoCall, R!NoCall, Projects!Settle, R!Settle,
       Projects!Answer, R!Answer, Projects!Asked, R!Asked, Projects!Extended, R!Extended

LEMMA JCount ==
    ASSUME NEW S
    PROVE  Projects!Cardinality(S) = Cardinality(S)
BY DEF Projects!Cardinality, Cardinality

LEMMA JWriting ==
    ASSUME NEW s
    PROVE  s \in Projects!Writing <=> s \in R!Slots /\ net[s].op \in Projects!Writes
BY JLinks DEF Projects!Writing, Projects!Flying, Projects!Writes

LEMMA JIdle == R!NoCall.op = "none" /\ R!NoCall.st = "idle" /\ "none" \notin JOps /\ Projects!Writes \subseteq JOps
BY DEF R!NoCall, JOps, Projects!Writes

\* The dialogs open and close.
LEMMA JSetKeeps ==
    ASSUME JInv, net' = net, db' = db, hist' = hist, DOMAIN ui' = JFields, \A f \in JLook : ui'[f] = ui[f]
    PROVE  JInv'
BY DEF JInv, JShape, JListed, JDone, JFresh, JBilled, JPlan, JAlone, JRoom, JLook, RNet

LEMMA JFormKeeps ==
    ASSUME JInv, Projects!Open \/ Projects!Close \/ Projects!Cancel \/ \E p : Projects!Confirm(p)
    PROVE  JInv'
<1>1. net' = net /\ db' = db /\ hist' = hist
  BY DEF Projects!Open, Projects!Close, Projects!Cancel, Projects!Confirm, Projects!Set
<1>2. DOMAIN ui' = JFields /\ \A f \in JLook : ui'[f] = ui[f]
  <2>1. DOMAIN ui = JFields
    BY DEF JInv, JShape
  <2>2. PICK v : ui' = [ui EXCEPT !.open = v] \/ ui' = [ui EXCEPT !.confirm = v]
    BY DEF Projects!Open, Projects!Close, Projects!Cancel, Projects!Confirm, Projects!Set
  <2> QED
    BY <2>1, <2>2 DEF JFields, JLook
<1> QED
  BY <1>1, <1>2, JSetKeeps

\* A change is asked for: no other is alone any more.
LEMMA JAskKeeps ==
    ASSUME JInv, NEW r, Projects!Ask(r), "op" \in DOMAIN r, {"st", "mine", "alone", "ans"} \cap DOMAIN r = {},
           r.op \in Projects!Writes, r.op = "create" => Projects!Form,
           db' = db, hist' = hist, DOMAIN ui' = JFields, \A f \in JLook : ui'[f] = ui[f]
    PROVE  JInv'
<1> DEFINE alone == Projects!Quiet
           q == R!Extended(r, [alone |-> alone])
           b == R!Asked(q)
           crowd == [s \in R!Slots |-> IF s \in Projects!Writing THEN [net[s] EXCEPT !.alone = FALSE] ELSE net[s]]
<1>1. alone \in BOOLEAN /\ (alone => \A s \in R!Slots : net[s] = R!NoCall)
  BY JLinks DEF Projects!Quiet
<1>2. PICK s \in R!Slots : net[s] = R!NoCall /\ net' = [crowd EXCEPT ![s] = b]
  BY JLinks DEF Projects!Ask
<1> HIDE DEF alone
<1>3. /\ DOMAIN q = DOMAIN r \cup {"alone"} /\ q.op = r.op /\ q.alone = alone
  BY DEF R!Extended
<1>4. "op" \in DOMAIN q /\ {"st", "mine"} \cap DOMAIN q = {} /\ "ans" \notin DOMAIN q
  BY <1>3
<1> HIDE DEF q
<1>5. /\ DOMAIN b = DOMAIN q \cup {"st", "mine"} /\ b.st = "sent" /\ RShape(b) /\ b.op = r.op /\ b.alone = alone
      /\ "ans" \notin DOMAIN b /\ "alone" \in DOMAIN b
  <2>1. /\ DOMAIN b = DOMAIN q \cup {"st", "mine"} /\ b.st = "sent" /\ RShape(b)
        /\ \A f \in DOMAIN q : b[f] = q[f]
    BY <1>4, RAsked
  <2> HIDE DEF b
  <2> QED
    BY <1>3, <1>4, <2>1
<1> HIDE DEF b
<1>6. JSlot(b)
  <2>1. r.op # "list"
    BY DEF Projects!Writes
  <2> QED
    BY <1>5, <2>1, JIdle DEF JSlot
<1>7. ASSUME NEW t \in R!Slots, t # s
      PROVE  /\ net[t].op \notin Projects!Writes => net'[t] = net[t]
             /\ net[t].op \in Projects!Writes =>
                   /\ net'[t].alone = FALSE /\ DOMAIN net'[t] = DOMAIN net[t]
                   /\ \A f \in DOMAIN net[t] \ {"alone"} : net'[t][f] = net[t][f]
  <2>1. net'[t] = IF net[t].op \in Projects!Writes THEN [net[t] EXCEPT !.alone = FALSE] ELSE net[t]
    BY <1>2, <1>7, JWriting
  <2>2. net[t].op \in Projects!Writes => "alone" \in DOMAIN net[t]
    BY JIdle DEF JInv, JShape, JSlot
  <2> QED
    BY <2>1, <2>2
<1>8. net'[s] = b /\ DOMAIN net' = R!Slots
  BY <1>2
<1>9. ASSUME NEW t \in R!Slots, t # s
      PROVE  /\ net'[t].op = net[t].op /\ net'[t].st = net[t].st /\ JSlot(net'[t]) /\ RShape(net'[t])
             /\ (net[t].op \in Projects!Writes => net'[t].alone = FALSE)
  <2>1. JSlot(net[t]) /\ RShape(net[t])
    BY DEF JInv, JShape, RNet
  <2>2. CASE net[t].op \notin Projects!Writes
    BY <1>7, <1>9, <2>1, <2>2
  <2>3. CASE net[t].op \in Projects!Writes
    <3>1. net[t] # R!NoCall
      BY <2>3, JIdle
    <3>2. {"op", "st", "mine", "alone"} \subseteq DOMAIN net[t] /\ net[t].mine \in BOOLEAN
      BY <2>1, <2>3, <3>1 DEF RShape, JSlot
    <3>3. /\ net'[t].op = net[t].op /\ net'[t].st = net[t].st /\ net'[t].mine = net[t].mine /\ net'[t].alone = FALSE
          /\ DOMAIN net'[t] = DOMAIN net[t]
      BY <1>7, <1>9, <2>3, <3>2
    <3> QED
      BY <2>1, <3>1, <3>2, <3>3 DEF RShape, JSlot
  <2> QED
    BY <2>2, <2>3
<1>10. JShape'
  <2>1. RNet' /\ \A t \in R!Slots : JSlot(net'[t])
    BY <1>5, <1>6, <1>8, <1>9 DEF RNet
  <2> QED
    BY <2>1 DEF JInv, JShape
<1>11. ui'.list = ui.list /\ ui'.asking = ui.asking /\ ui'.billing = ui.billing /\ net[s].op = "none"
  BY <1>2, JIdle DEF JLook
<1>12. JListed'
  <2>1. JDone => JDone'
    BY <1>9, <1>11, JIdle DEF JDone
  <2>2. JFresh => JFresh'
    <3>1. ASSUME NEW t \in R!Slots, net'[t].op = "list" PROVE net'[t] = net[t]
      <4>1. t # s
        BY <1>5, <1>8, <3>1 DEF Projects!Writes
      <4>2. net[t].op \notin Projects!Writes
        BY <1>9, <3>1, <4>1 DEF Projects!Writes
      <4> QED
        BY <1>7, <4>1, <4>2
    <3> QED
      BY <3>1 DEF JFresh
  <2>3. (\E t \in R!Slots : net[t].op = "list") => \E t \in R!Slots : net'[t].op = "list"
    BY <1>9, <1>11
  <2> QED
    BY <1>11, <2>1, <2>2, <2>3 DEF JInv, JListed
<1>13. JBilled'
  <2>1. \A t \in R!Slots : net'[t].op = "billing" => net'[t] = net[t]
    BY <1>5, <1>7, <1>8, <1>9 DEF Projects!Writes
  <2> QED
    BY <1>11, <2>1 DEF JInv, JBilled, JPlan
<1>14. JAlone'
  <2> SUFFICES ASSUME ~hist.odd, NEW t \in R!Slots, net'[t].op = "create", net'[t].alone
               PROVE  JRoom' /\ \A v \in R!Slots \ {t} : net'[v].op \notin Projects!Writes
    BY DEF JAlone
  <2>1. t = s /\ alone /\ r.op = "create"
    BY <1>5, <1>8, <1>9 DEF Projects!Writes
  <2>2. \A v \in R!Slots : net[v] = R!NoCall
    BY <1>1, <2>1
  <2>3. \A v \in R!Slots \ {t} : net'[v].op \notin Projects!Writes
    BY <1>7, <2>1, <2>2, JIdle
  <2>4. ui.list = db.projects
    BY <2>2, JIdle DEF JInv, JListed, JDone, Projects!Writes
  <2>5. ui.billing = JPlan
    BY <2>1 DEF JInv, JBilled, Projects!Form
  <2>6. ~(ui.billing = "solo" /\ Cardinality(ui.list) >= Few)
    BY <2>1, JCount DEF Projects!Form, Projects!AtCap
  <2>7. Cardinality(db.projects) \in Nat /\ Few \in Nat
    BY FS_Subset, FS_CardinalityType, ScreensAssumption DEF ScreensAssumption, JInv, JShape
  <2>8. JRoom
    BY <2>4, <2>5, <2>6, <2>7 DEF JRoom, JPlan
  <2> QED
    BY <2>3, <2>8 DEF JRoom
<1> QED
  BY <1>10, <1>12, <1>13, <1>14 DEF JInv

LEMMA JAsksKeep ==
    ASSUME JInv, Projects!Create \/ Projects!Import \/ Projects!Delete
    PROVE  JInv'
<1>1. DOMAIN ui = JFields
  BY DEF JInv, JShape
<1>2. db' = db /\ hist' = hist /\ DOMAIN ui' = JFields /\ \A f \in JLook : ui'[f] = ui[f]
  BY <1>1 DEF Projects!Create, Projects!Import, Projects!Delete, JFields, JLook
<1>3. ASSUME NEW op, op \in {"create", "import"}, op = "create" => Projects!Form, Projects!Ask([op |-> op])
      PROVE  JInv'
  <2> DEFINE r == [op |-> op]
  <2>1. "op" \in DOMAIN r /\ r.op = op /\ {"st", "mine", "alone", "ans"} \cap DOMAIN r = {}
    OBVIOUS
  <2>2. Projects!Ask(r) /\ op \in Projects!Writes
    BY <1>3 DEF Projects!Writes
  <2> HIDE DEF r
  <2> QED
    BY <1>2, <1>3, <2>1, <2>2, JAskKeeps
<1>4. CASE Projects!Delete
  <2> DEFINE r == [op |-> "delete", p |-> ui.confirm]
  <2>1. "op" \in DOMAIN r /\ r.op = "delete" /\ {"st", "mine", "alone", "ans"} \cap DOMAIN r = {}
    OBVIOUS
  <2>2. Projects!Ask(r)
    BY <1>4 DEF Projects!Delete
  <2> HIDE DEF r
  <2>3. r.op \in Projects!Writes /\ (r.op = "create" => Projects!Form)
    BY <2>1 DEF Projects!Writes
  <2> QED
    BY <1>2, <2>1, <2>2, <2>3, JAskKeeps
<1> QED
  BY <1>3, <1>4 DEF Projects!Create, Projects!Import

\* Other sessions, and requests that fail: the page promises nothing more.
LEMMA JOddKeeps ==
    ASSUME JShape', hist'.odd
    PROVE  JInv'
BY DEF JInv, JListed, JBilled, JAlone

LEMMA JElsewhereKeeps ==
    ASSUME JInv, NEW d, Projects!Elsewhere(d), DOMAIN d = {"projects", "paid", "changes"}, d.projects \subseteq Names
    PROVE  JInv'
<1>1. DOMAIN hist' = {"odd"} /\ hist'.odd = TRUE
  BY DEF JInv, JShape, Projects!Elsewhere
<1>2. DOMAIN db' = {"projects", "paid", "changes"} /\ db'.projects \subseteq Names
  BY DEF Projects!Elsewhere
<1>3. JShape'
  BY <1>1, <1>2 DEF JInv, JShape, RNet, Projects!Elsewhere
<1> QED
  BY <1>1, <1>3, JOddKeeps

LEMMA JOthersKeep ==
    ASSUME JInv, \/ \E p \in Names : \/ Projects!Elsewhere([db EXCEPT !.projects = @ \cup {p}])
                                     \/ Projects!Elsewhere([db EXCEPT !.projects = @ \ {p}])
                 \/ \E paid \in BOOLEAN : Projects!Elsewhere([db EXCEPT !.paid = paid])
    PROVE  JInv'
<1>1. DOMAIN db = {"projects", "paid", "changes"} /\ db.projects \subseteq Names
  BY DEF JInv, JShape
<1>2. ASSUME NEW ps, ps \subseteq Names, Projects!Elsewhere([db EXCEPT !.projects = ps]) PROVE JInv'
  <2> DEFINE d == [db EXCEPT !.projects = ps]
  <2>1. DOMAIN d = {"projects", "paid", "changes"} /\ d.projects \subseteq Names
    BY <1>1, <1>2
  <2>2. Projects!Elsewhere(d)
    BY <1>2
  <2> HIDE DEF d
  <2> QED
    BY <2>1, <2>2, JElsewhereKeeps
<1>3. ASSUME NEW paid, Projects!Elsewhere([db EXCEPT !.paid = paid]) PROVE JInv'
  <2> DEFINE d == [db EXCEPT !.paid = paid]
  <2>1. DOMAIN d = {"projects", "paid", "changes"} /\ d.projects \subseteq Names
    BY <1>1
  <2>2. Projects!Elsewhere(d)
    BY <1>3
  <2> HIDE DEF d
  <2> QED
    BY <2>1, <2>2, JElsewhereKeeps
<1>4. ASSUME NEW p \in Names PROVE db.projects \cup {p} \subseteq Names /\ db.projects \ {p} \subseteq Names
  BY <1>1
<1> QED
  BY <1>2, <1>3, <1>4

\* What a handler leaves of the page when its change is through.
LEMMA JThrough ==
    ASSUME JShape, NEW s, net[s].op \in Projects!Writes
    PROVE  LET u == Projects!Through(s) IN DOMAIN u = JFields /\ \A f \in JLook : u[f] = ui[f]
<1>1. DOMAIN ui = JFields
  BY DEF JShape
<1>2. CASE net[s].op = "create"
  BY <1>1, <1>2 DEF Projects!Through, JFields, JLook
<1>3. CASE net[s].op = "import"
  BY <1>1, <1>3 DEF Projects!Through, JFields, JLook
<1>4. CASE net[s].op = "delete"
  <2> DEFINE x == ui.deleting \ {net[s].p}
             y == IF ui.confirm = net[s].p THEN Projects!None ELSE ui.confirm
  <2>1. Projects!Through(s) = [ui EXCEPT !.deleting = x, !.confirm = y]
    BY <1>1, <1>4 DEF Projects!Through, JFields
  <2> HIDE DEF x, y
  <2> QED
    BY <1>1, <2>1 DEF JFields, JLook
<1> QED
  BY <1>2, <1>3, <1>4 DEF Projects!Writes

LEMMA JFailedKeeps ==
    ASSUME JInv, NEW s \in R!Slots, Projects!Failed(s)
    PROVE  JInv'
<1>1. RNet' /\ Only(s) /\ net'[s] = R!NoCall
  BY JLinks, RSettled DEF JInv, JShape, Projects!Failed
<1>2. DOMAIN hist' = {"odd"} /\ hist'.odd = TRUE /\ db' = db
  BY DEF JInv, JShape, Projects!Failed
<1>3. \A t \in R!Slots : JSlot(net'[t])
  BY <1>1 DEF JInv, JShape, JSlot, Only
<1>4. net[s].op \in JOps
  BY JIdle DEF JInv, JShape, JSlot, Projects!Failed
<1>5. DOMAIN ui' = JFields
  <2>1. DOMAIN ui = JFields
    BY DEF JInv, JShape
  <2>2. CASE net[s].op = "list"
    BY <2>1, <2>2 DEF Projects!Failed
  <2>3. CASE net[s].op = "billing"
    BY <2>1, <2>3 DEF Projects!Failed
  <2>4. CASE net[s].op \in Projects!Writes
    BY <2>4, JThrough DEF JInv, Projects!Failed, Projects!Writes
  <2> QED
    BY <1>4, <2>2, <2>3, <2>4 DEF JOps, Projects!Writes
<1>6. JShape'
  BY <1>1, <1>2, <1>3, <1>5 DEF JInv, JShape
<1> QED
  BY <1>2, <1>6, JOddKeeps

\* The server.
LEMMA JAnswered ==
    ASSUME JInv, NEW s \in R!Slots, NEW w, net[s].st = "sent", R!Answer(s, w)
    PROVE  /\ RNet' /\ Only(s) /\ net'[s].op = net[s].op /\ net'[s].st = "done" /\ net'[s].ans = w
           /\ \A t \in R!Slots : JSlot(net'[t])
           /\ net[s].op = "list" => net'[s].old = net[s].old
<1>1. net[s] # R!NoCall
  BY JIdle
<1>2. /\ RNet' /\ Only(s) /\ DOMAIN net'[s] = DOMAIN net[s] \cup {"ans"} /\ net'[s].st = "done"
      /\ \A f \in DOMAIN net[s] \ {"st"} : net'[s][f] = net[s][f]
      /\ "ans" \notin DOMAIN net[s] => net'[s].ans = w
  BY <1>1, RAnswered DEF JInv, JShape
<1>3. "op" \in DOMAIN net[s] /\ "ans" \notin DOMAIN net[s] /\ JSlot(net[s])
  BY <1>1 DEF JInv, JShape, RNet, RShape, JSlot
<1>4. net'[s].op = net[s].op /\ net'[s].ans = w
  BY <1>2, <1>3
<1>5. JSlot(net'[s]) /\ (net[s].op = "list" => net'[s].old = net[s].old)
  BY <1>1, <1>2, <1>3, <1>4 DEF JSlot
<1> QED
  BY <1>2, <1>4, <1>5 DEF JInv, JShape, Only

LEMMA JWriteKeeps ==
    ASSUME JInv, NEW s \in R!Slots, Projects!Write(s)
    PROVE  JInv'
<1>1. net[s].op \in Projects!Writes /\ net[s].st = "sent" /\ R!Answer(s, TRUE) /\ ui' = ui /\ hist' = hist
  BY JWriting, JLinks DEF Projects!Write
<1>2. /\ RNet' /\ Only(s) /\ net'[s].op = net[s].op /\ net'[s].st = "done"
      /\ \A t \in R!Slots : JSlot(net'[t])
  BY <1>1, JAnswered
<1>3. DOMAIN db' = {"projects", "paid", "changes"} /\ db'.projects \subseteq Names /\ db'.paid = db.paid
  <2>1. DOMAIN db = {"projects", "paid", "changes"} /\ db.projects \subseteq Names
    BY DEF JInv, JShape
  <2>2. PICK p : /\ p \in IF net[s].op = "delete" THEN {net[s].p} ELSE Names \ db.projects
                 /\ db' = [db EXCEPT !.projects = IF net[s].op = "delete" THEN @ \ {p} ELSE @ \cup {p},
                                     !.changes = @ + 1]
    BY DEF Projects!Write
  <2> DEFINE ps == IF net[s].op = "delete" THEN db.projects \ {p} ELSE db.projects \cup {p}
             c == db.changes + 1
  <2>3. ps \subseteq Names
    BY <2>1, <2>2
  <2>4. db' = [db EXCEPT !.projects = ps, !.changes = c]
    BY <2>1, <2>2
  <2> HIDE DEF ps, c
  <2> QED
    BY <2>1, <2>3, <2>4
<1>4. JShape'
  BY <1>1, <1>2, <1>3 DEF JInv, JShape
<1>5. JListed'
  BY <1>1, <1>2 DEF JListed, JDone
<1>6. JBilled'
  BY <1>1, <1>2, <1>3 DEF JInv, JBilled, JPlan, Only, Projects!Writes
<1>7. JAlone'
  <2> SUFFICES ASSUME ~hist.odd, NEW t \in R!Slots, net'[t].op = "create", net'[t].st = "sent", net'[t].alone
               PROVE  FALSE
    BY <1>1 DEF JAlone
  <2>1. t # s /\ net'[t] = net[t]
    BY <1>2 DEF Only
  <2> QED
    BY <1>1, <2>1 DEF JInv, JAlone
<1> QED
  BY <1>4, <1>5, <1>6, <1>7 DEF JInv

LEMMA JReadKeeps ==
    ASSUME JInv, NEW s \in R!Slots, Projects!Read(s)
    PROVE  JInv'
<1> DEFINE w == IF net[s].op = "list" THEN db.projects ELSE JPlan
<1>1. /\ net[s].op \in {"list", "billing"} /\ net[s].st = "sent" /\ R!Answer(s, w)
      /\ ui' = ui /\ db' = db /\ hist' = hist
  BY JLinks DEF Projects!Read, Projects!At, JPlan
<1> HIDE DEF w
<1>2. /\ RNet' /\ Only(s) /\ net'[s].op = net[s].op /\ net'[s].st = "done" /\ net'[s].ans = w
      /\ \A t \in R!Slots : JSlot(net'[t])
      /\ net[s].op = "list" => net'[s].old = net[s].old
  BY <1>1, JAnswered
<1>3. JShape'
  BY <1>1, <1>2 DEF JInv, JShape
<1>4. JListed'
  <2>1. JDone => JDone'
    BY <1>1, <1>2 DEF JDone, Only, Projects!Writes
  <2>2. JFresh => JFresh'
    BY <1>1, <1>2 DEF JFresh, Only, w
  <2>3. (\E t \in R!Slots : net[t].op = "list") => \E t \in R!Slots : net'[t].op = "list"
    BY <1>2 DEF Only
  <2> QED
    BY <1>1, <2>1, <2>2, <2>3 DEF JInv, JListed
<1>5. JBilled'
  BY <1>1, <1>2 DEF JInv, JBilled, JPlan, Only, w
<1>6. JAlone'
  <2>1. \A t \in R!Slots : net'[t].op = net[t].op /\ (net'[t].st = "sent" => net'[t] = net[t])
    BY <1>2 DEF Only
  <2> QED
    BY <1>1, <2>1 DEF JInv, JAlone, JRoom
<1> QED
  BY <1>3, <1>4, <1>5, <1>6 DEF JInv

\* A change is done: the list is loaded again, and those under way are old.
LEMMA JDoneKeeps ==
    ASSUME JInv, NEW s \in R!Slots, Projects!Done(s)
    PROVE  JInv'
<1> DEFINE b == R!Asked(Projects!List)
<1>1. net[s].op \in Projects!Writes /\ net[s].st = "done" /\ db' = db /\ hist' = hist
  BY JWriting DEF Projects!Done
<1>2. DOMAIN ui' = JFields /\ \A f \in JLook : ui'[f] = ui[f]
  <2> DEFINE u == Projects!Through(s)
  <2>1. DOMAIN u = JFields /\ \A f \in JLook : u[f] = ui[f]
    BY <1>1, JThrough DEF JInv
  <2>2. ui' = [u EXCEPT !.open = FALSE] \/ ui' = u
    BY DEF Projects!Done
  <2> HIDE DEF u
  <2> QED
    BY <2>1, <2>2 DEF JFields, JLook
<1>3. DOMAIN net' = R!Slots /\ net'[s] = b
  BY JLinks DEF Projects!Done, Projects!Aged
<1>4. /\ b.op = "list" /\ b.st = "sent" /\ b.old = FALSE /\ RShape(b) /\ DOMAIN b = {"op", "old", "st", "mine"}
  <2> DEFINE r == Projects!List
  <2>1. DOMAIN r = {"op", "old"} /\ r.op = "list" /\ r.old = FALSE /\ "op" \in DOMAIN r /\ {"st", "mine"} \cap DOMAIN r = {}
    BY DEF Projects!List
  <2> HIDE DEF r
  <2>2. /\ DOMAIN b = DOMAIN r \cup {"st", "mine"} /\ b.st = "sent" /\ RShape(b) /\ \A f \in DOMAIN r : b[f] = r[f]
    BY <2>1, RAsked DEF r
  <2> QED
    BY <2>1, <2>2
<1> HIDE DEF b
<1>5. JSlot(b)
  BY <1>4 DEF JSlot, JOps, Projects!Writes
<1>6. ASSUME NEW t \in R!Slots, t # s
      PROVE  /\ net[t].op # "list" => net'[t] = net[t]
             /\ net'[t].op = net[t].op /\ net'[t].st = net[t].st /\ JSlot(net'[t]) /\ RShape(net'[t])
             /\ net[t].op = "list" => net'[t].old
  <2>1. net'[t] = IF net[t].op = "list" THEN [net[t] EXCEPT !.old = TRUE] ELSE net[t]
    BY <1>6, JLinks DEF Projects!Done, Projects!Aged
  <2>2. JSlot(net[t]) /\ RShape(net[t])
    BY DEF JInv, JShape, RNet
  <2>3. CASE net[t].op # "list"
    BY <2>1, <2>2, <2>3
  <2>4. CASE net[t].op = "list"
    <3>1. net[t] # R!NoCall /\ "old" \in DOMAIN net[t]
      BY <2>2, <2>4, JIdle DEF JSlot
    <3> DEFINE q == [net[t] EXCEPT !.old = TRUE]
    <3>2. RShape(q) /\ DOMAIN q = DOMAIN net[t] /\ q.old = TRUE /\ \A g \in DOMAIN net[t] \ {"old"} : q[g] = net[t][g]
      BY <2>2, <3>1, RSet
    <3>3. {"op", "st"} \subseteq DOMAIN net[t]
      BY <2>2, <3>1 DEF RShape
    <3>4. net'[t] = q
      BY <2>1, <2>4
    <3> HIDE DEF q
    <3> QED
      BY <2>2, <2>4, <3>1, <3>2, <3>3, <3>4 DEF JSlot, Projects!Writes
  <2> QED
    BY <2>3, <2>4
<1>7. JShape'
  <2>1. RNet' /\ \A t \in R!Slots : JSlot(net'[t])
    BY <1>3, <1>4, <1>5, <1>6 DEF RNet
  <2> QED
    BY <1>1, <1>2, <2>1 DEF JInv, JShape
<1>8. JListed'
  <2>1. JFresh'
    BY <1>3, <1>4, <1>6 DEF JFresh
  <2> QED
    BY <1>3, <1>4, <2>1 DEF JListed
<1>9. JBilled'
  <2>1. \A t \in R!Slots : net'[t].op = "billing" => net'[t] = net[t]
    BY <1>3, <1>4, <1>6
  <2> QED
    BY <1>1, <1>2, <2>1 DEF JInv, JBilled, JPlan, JLook
<1>10. JAlone'
  <2> SUFFICES ASSUME ~hist.odd, NEW t \in R!Slots, net'[t].op = "create", net'[t].st = "sent", net'[t].alone
               PROVE  FALSE
    BY <1>1 DEF JAlone
  <2>1. t # s /\ net'[t] = net[t]
    BY <1>3, <1>4, <1>6
  <2> QED
    BY <1>1, <2>1 DEF JInv, JAlone
<1> QED
  BY <1>7, <1>8, <1>9, <1>10 DEF JInv

\* The answers to the page's questions.
LEMMA JLoadedKeeps ==
    ASSUME JInv, NEW s \in R!Slots, Projects!Load(s) \/ Projects!Billed(s)
    PROVE  JInv'
<1>1. RNet' /\ Only(s) /\ net'[s] = R!NoCall /\ net[s].op \in {"list", "billing"} /\ net[s].st = "done" /\ db' = db
  BY JLinks, RSettled DEF JInv, JShape, Projects!Load, Projects!Billed, Projects!At
<1>2. \A t \in R!Slots : JSlot(net'[t])
  BY <1>1 DEF JInv, JShape, JSlot, Only
<1>3. DOMAIN ui = JFields
  BY DEF JInv, JShape
<1>4. \A t \in R!Slots : net'[t].op \in JOps => net'[t] = net[t] /\ t # s
  BY <1>1, JIdle DEF Only
<1>5. JDone => JDone'
  BY <1>1 DEF JDone, Only, Projects!Writes
<1>6. JFresh => JFresh'
  BY <1>1, <1>4 DEF JFresh, JOps
<1>7. CASE Projects!Load(s)
  <2> DEFINE b == hist.odd \/ (net[s].old /\ Projects!Flying("list") = {s})
             x == ui.deleting \cap net[s].ans
             y == IF ui.confirm \in net[s].ans THEN ui.confirm ELSE Projects!None
  <2>1. hist' = [hist EXCEPT !.odd = b] /\ b \in BOOLEAN
    BY <1>7 DEF Projects!Load
  <2>2. ~b => ~hist.odd /\ (~net[s].old \/ \E t \in R!Slots \ {s} : net[t].op = "list")
    BY <1>7, JLinks DEF Projects!Flying, Projects!Load, Projects!At
  <2>3. ui' = [ui EXCEPT !.loading = FALSE, !.list = net[s].ans, !.deleting = x, !.confirm = y]
    BY <1>3, <1>7 DEF Projects!Load, JFields
  <2> HIDE DEF b, x, y
  <2>4. DOMAIN hist' = {"odd"} /\ hist'.odd = b
    BY <2>1 DEF JInv, JShape
  <2>5. DOMAIN ui' = JFields /\ ui'.list = net[s].ans /\ ui'.asking = ui.asking /\ ui'.billing = ui.billing
    BY <1>3, <2>3 DEF JFields
  <2>6. JShape'
    BY <1>1, <1>2, <2>1, <2>4, <2>5 DEF JInv, JShape
  <2>7. JListed'
    <3>1. CASE ~b /\ ~JDone
      <4>1. JFresh /\ JFresh'
        BY <1>6, <2>2, <3>1 DEF JInv, JListed
      <4>2. ~net[s].old => net[s].ans = db.projects
        BY <1>1, <1>7, <4>1 DEF JFresh, Projects!Load, Projects!At
      <4>3. (\E t \in R!Slots \ {s} : net[t].op = "list") => \E t \in R!Slots : net'[t].op = "list"
        BY <1>1 DEF Only
      <4> QED
        BY <1>1, <2>2, <2>5, <3>1, <4>1, <4>2, <4>3 DEF JListed
    <3> QED
      BY <1>5, <2>4, <3>1 DEF JListed
  <2>8. JBilled'
    BY <1>1, <1>4, <2>2, <2>4, <2>5 DEF JInv, JBilled, JPlan, JOps
  <2>9. JAlone'
    BY <1>1, <1>4, <2>2, <2>4 DEF JInv, JAlone, JRoom, JOps, Projects!Writes
  <2> QED
    BY <2>6, <2>7, <2>8, <2>9 DEF JInv
<1>8. CASE Projects!Billed(s)
  <2>1. /\ DOMAIN ui' = JFields /\ ui'.list = ui.list /\ ui'.billing = net[s].ans /\ hist' = hist
        /\ net[s].op = "billing"
    BY <1>3, <1>8 DEF JFields, Projects!Billed, Projects!At
  <2>2. JShape'
    BY <1>1, <1>2, <2>1 DEF JInv, JShape
  <2>3. JListed'
    <3>1. (\E t \in R!Slots : net[t].op = "list") => \E t \in R!Slots : net'[t].op = "list"
      BY <1>1, <2>1 DEF Only
    <3> QED
      BY <1>1, <1>5, <1>6, <2>1, <3>1 DEF JInv, JListed
  <2>4. JBilled'
    BY <1>1, <1>4, <2>1 DEF JInv, JBilled, JPlan, JOps
  <2>5. JAlone'
    BY <1>1, <1>4, <2>1 DEF JInv, JAlone, JRoom, JOps, Projects!Writes
  <2> QED
    BY <2>2, <2>3, <2>4, <2>5 DEF JInv
<1> QED
  BY <1>7, <1>8

LEMMA JOffered ==
    ASSUME JInv
    PROVE  Projects!OfferedIsAllowed
<1> SUFFICES ASSUME NEW s \in R!Slots, net[s].op = "create", net[s].st = "sent", net[s].alone, ~hist.odd
             PROVE  Projects!Accepts(net[s])
  BY JLinks DEF Projects!OfferedIsAllowed, Projects!At
<1>1. JRoom
  BY DEF JInv, JAlone
<1>2. Cardinality(db.projects) \in Nat /\ Few \in Nat
  BY FS_Subset, FS_CardinalityType, ScreensAssumption DEF ScreensAssumption, JInv, JShape
<1> QED
  BY <1>1, <1>2, JCount DEF JRoom, Projects!Accepts, Projects!Restricted

LEMMA JInit ==
    ASSUME Projects!Init
    PROVE  JInv
<1> DEFINE r == Projects!List
           q == [op |-> "billing"]
<1>1. DOMAIN r = {"op", "old"} /\ r.op = "list" /\ "op" \in DOMAIN r /\ {"st", "mine"} \cap DOMAIN r = {}
  BY DEF Projects!List
<1>2. DOMAIN q = {"op"} /\ q.op = "billing" /\ "op" \in DOMAIN q /\ {"st", "mine"} \cap DOMAIN q = {}
  OBVIOUS
<1>3. net = [R!NoCalls EXCEPT ![1] = R!Asked(r), ![2] = R!Asked(q)]
  BY JLinks DEF Projects!Init, Projects!NoCalls, R!NoCalls
<1> HIDE DEF r, q
<1>4. RNet /\ \A s \in R!Slots : net[s] \in {R!NoCall, R!Asked(r), R!Asked(q)}
  BY <1>1, <1>2, <1>3, RStart
<1> DEFINE x == R!Asked(r)
           y == R!Asked(q)
<1>5. DOMAIN x = DOMAIN r \cup {"st", "mine"} /\ x.st = "sent" /\ x.op = "list"
  BY <1>1, RAsked
<1>6. DOMAIN y = DOMAIN q \cup {"st", "mine"} /\ y.st = "sent" /\ y.op = "billing"
  BY <1>2, RAsked
<1> HIDE DEF x, y
<1>7. JSlot(x) /\ JSlot(y) /\ JSlot(R!NoCall)
  BY <1>1, <1>2, <1>5, <1>6 DEF JSlot, JOps, Projects!Writes
<1>8. \A s \in R!Slots : JSlot(net[s]) /\ net[s].op \in {"none", "list", "billing"} /\ net[s].st # "done"
  BY <1>4, <1>5, <1>6, <1>7, JIdle DEF x, y
<1>9. net[1].op = "list" /\ 1 \in R!Slots
  <2>1. 1 \in R!Slots
    BY ScreensAssumption DEF ScreensAssumption, R!Slots
  <2>2. net[1] = x
    BY <1>3, <2>1 DEF R!NoCalls, x
  <2> QED
    BY <1>5, <2>1, <2>2
<1>10. /\ DOMAIN ui = JFields /\ ui.asking = TRUE /\ DOMAIN hist = {"odd"} /\ hist.odd = FALSE
       /\ DOMAIN db = {"projects", "paid", "changes"} /\ db.projects \subseteq Names
  BY DEF Projects!Init, JFields
<1>11. JListed
  BY <1>8, <1>9 DEF JListed, JFresh
<1> QED
  BY <1>4, <1>8, <1>10, <1>11 DEF JInv, JShape, JBilled, JAlone

LEMMA JStep ==
    ASSUME JInv, [Projects!Next]_Projects!vars
    PROVE  JInv'
<1>1. CASE UNCHANGED Projects!vars
  BY <1>1, JSetKeeps DEF JInv, JShape, Projects!vars
<1> QED
  BY <1>1, JLinks, JFormKeeps, JAsksKeep, JOthersKeep, JWriteKeeps, JReadKeeps, JDoneKeeps, JLoadedKeeps, JFailedKeeps
  DEF Projects!Next

-----------------------------------------------------------------------------
(* The users.                                                              *)
WFields == {"loading", "me", "list", "open", "busy"}
WLook == {"loading", "me", "list"}
WAsks == Users!Writes \cup {"reset"}
WOps == WAsks \cup {"me", "members"}
WData == {"role", "token", "paid", "changes"}

WSlot(r) ==
    \/ r = R!NoCall
    \/ /\ r.op \in WOps
       /\ r.op \in WAsks => "alone" \in DOMAIN r
       /\ r.op = "members" => "old" \in DOMAIN r
       /\ r.st = "sent" => "ans" \notin DOMAIN r
WShape ==
    /\ DOMAIN ui = WFields /\ DOMAIN hist = {"odd"} /\ hist.odd \in BOOLEAN
    /\ DOMAIN db = WData /\ DOMAIN db.role = Names
    /\ RNet /\ \A s \in R!Slots : WSlot(net[s])

\* A change that is done has the list loaded again; until then what comes is
\* the organization's list, and an administrator has it or one comes.
WDone == \E s \in R!Slots : net[s].op \in Users!Writes /\ net[s].st = "done"
WFresh == \A s \in R!Slots : net[s].op = "members" /\ net[s].st = "done" /\ ~net[s].old => net[s].ans = db.role
WComes == \E s \in R!Slots : net[s].op = "members"
WListed == hist.odd \/ WDone \/ (WFresh /\ (ui.list = db.role \/ WComes \/ ~Users!Page))

\* Who sees a list has an administrator's token.
WToken ==
    \/ hist.odd \/ db.token = "admin"
    \/ /\ \A u \in Names : ui.list[u] = "out"
       /\ \A s \in R!Slots : ~(net[s].op = "members" /\ net[s].st = "done")

\* A demotion or a removal that nothing overlaps has the server to itself.
WTakes(r) == r.op = "remove" \/ (r.op = "role" /\ r.r # "admin")
WRight(u) == db.token = "admin" /\ db.role[u] # "out" /\ ~Users!LastAdmin(db.role, u)
WAlone ==
    \/ hist.odd
    \/ \A s \in R!Slots : WTakes(net[s]) /\ net[s].st = "sent" /\ net[s].alone =>
          WRight(net[s].u) /\ \A t \in R!Slots \ {s} : net[t].op \notin Users!Writes
WInv == WShape /\ WListed /\ WToken /\ WAlone

LEMMA WLinks ==
    /\ Users!Slots = R!Slots /\ Users!NoCall = R!NoCall
    /\ \A r : Users!Asked(r) = R!Asked(r)
    /\ \A r, m : Users!Extended(r, m) = R!Extended(r, m)
    /\ \A s : Users!Settle(s) <=> R!Settle(s)
    /\ \A s, r : Users!Follow(s, r) <=> R!Follow(s, r)
    /\ \A s, r : Users!Answer(s, r) <=> R!Answer(s, r)
BY DEF Users!Slots, R!Slots, Users!NoCall, R!NoCall, Users!Settle, R!Settle, Users!Follow, R!Follow,
       Users!Answer, R!Answer, Users!Asked, R!Asked, Users!Extended, R!Extended

LEMMA WWriting ==
    ASSUME NEW s
    PROVE  s \in Users!Writing <=> s \in R!Slots /\ net[s].op \in Users!Writes
BY WLinks DEF Users!Writing, Users!Flying, Users!Writes

LEMMA WIdle ==
    /\ R!NoCall.op = "none" /\ R!NoCall.st = "idle" /\ "none" \notin WOps
    /\ Users!Writes \subseteq WAsks /\ WAsks \subseteq WOps
    /\ \A r : WTakes(r) => r.op \in Users!Writes
BY DEF R!NoCall, WOps, WAsks, Users!Writes, WTakes

\* The invitation opens and closes.
LEMMA WSetKeeps ==
    ASSUME WInv, net' = net, db' = db, hist' = hist, DOMAIN ui' = WFields, \A f \in WLook : ui'[f] = ui[f]
    PROVE  WInv'
<1>1. ui'.list = ui.list /\ (Users!Page' <=> Users!Page)
  BY DEF WLook, Users!Page
<1>2. WShape'
  BY DEF WInv, WShape, RNet
<1> QED
  BY <1>1, <1>2 DEF WInv, WListed, WDone, WFresh, WComes, WToken, WAlone, WRight

LEMMA WFormKeeps ==
    ASSUME WInv, \E open \in BOOLEAN : Users!Open(open)
    PROVE  WInv'
<1>1. net' = net /\ db' = db /\ hist' = hist
  BY DEF Users!Open
<1>2. DOMAIN ui' = WFields /\ \A f \in WLook : ui'[f] = ui[f]
  BY DEF WInv, WShape, Users!Open, WFields, WLook
<1> QED
  BY <1>1, <1>2, WSetKeeps

\* A change is asked for: no other is alone any more.
LEMMA WAskKeeps ==
    ASSUME WInv, NEW r, Users!Ask(r), "op" \in DOMAIN r, {"st", "mine", "alone", "ans"} \cap DOMAIN r = {},
           r.op \in WAsks,
           r.op \in {"role", "remove"} => "u" \in DOMAIN r,
           r.op = "role" => "r" \in DOMAIN r,
           WTakes(r) => /\ Users!Page /\ r.u \in Names
                        /\ ui.list[r.u] # "out" /\ ~Users!LastAdmin(ui.list, r.u),
           db' = db, hist' = hist, DOMAIN ui' = WFields, \A f \in WLook : ui'[f] = ui[f]
    PROVE  WInv'
<1> DEFINE alone == Users!Quiet
           q == R!Extended(r, [alone |-> alone])
           b == R!Asked(q)
           crowd == [s \in R!Slots |-> IF s \in Users!Writing THEN [net[s] EXCEPT !.alone = FALSE] ELSE net[s]]
<1>1. alone \in BOOLEAN /\ (alone => \A s \in R!Slots : net[s] = R!NoCall)
  BY WLinks DEF Users!Quiet
<1>2. PICK s \in R!Slots : net[s] = R!NoCall /\ net' = [crowd EXCEPT ![s] = b]
  BY WLinks DEF Users!Ask
<1> HIDE DEF alone
<1>3. DOMAIN q = DOMAIN r \cup {"alone"} /\ q.alone = alone /\ \A f \in DOMAIN r : q[f] = r[f]
  BY DEF R!Extended
<1>4. "op" \in DOMAIN q /\ {"st", "mine"} \cap DOMAIN q = {} /\ "ans" \notin DOMAIN q
  BY <1>3
<1> HIDE DEF q
<1>5. /\ DOMAIN b = DOMAIN q \cup {"st", "mine"} /\ b.st = "sent" /\ RShape(b) /\ b.op = r.op /\ b.alone = alone
      /\ "ans" \notin DOMAIN b /\ "alone" \in DOMAIN b /\ \A f \in DOMAIN r : b[f] = r[f]
  <2>1. /\ DOMAIN b = DOMAIN q \cup {"st", "mine"} /\ b.st = "sent" /\ RShape(b)
        /\ \A f \in DOMAIN q : b[f] = q[f]
    BY <1>4, RAsked
  <2> HIDE DEF b
  <2> QED
    BY <1>3, <1>4, <2>1
<1> HIDE DEF b
<1>6. WSlot(b) /\ b.op \in WAsks
  <2>1. r.op # "members"
    BY DEF WAsks, Users!Writes
  <2> QED
    BY <1>5, <2>1, WIdle DEF WSlot
<1>7. ASSUME NEW t \in R!Slots, t # s
      PROVE  /\ net[t].op \notin Users!Writes => net'[t] = net[t]
             /\ net[t].op \in Users!Writes =>
                   /\ net'[t].alone = FALSE /\ DOMAIN net'[t] = DOMAIN net[t]
                   /\ \A f \in DOMAIN net[t] \ {"alone"} : net'[t][f] = net[t][f]
  <2>1. net'[t] = IF net[t].op \in Users!Writes THEN [net[t] EXCEPT !.alone = FALSE] ELSE net[t]
    BY <1>2, <1>7, WWriting
  <2>2. net[t].op \in Users!Writes => "alone" \in DOMAIN net[t]
    BY WIdle DEF WInv, WShape, WSlot
  <2> QED
    BY <2>1, <2>2
<1>8. net'[s] = b /\ DOMAIN net' = R!Slots
  BY <1>2
<1>9. ASSUME NEW t \in R!Slots, t # s
      PROVE  /\ net'[t].op = net[t].op /\ net'[t].st = net[t].st /\ WSlot(net'[t]) /\ RShape(net'[t])
             /\ (net[t].op \in Users!Writes => net'[t].alone = FALSE)
             /\ (net[t].op \notin Users!Writes => net'[t] = net[t])
  <2>1. WSlot(net[t]) /\ RShape(net[t])
    BY DEF WInv, WShape, RNet
  <2>2. CASE net[t].op \notin Users!Writes
    BY <1>7, <1>9, <2>1, <2>2
  <2>3. CASE net[t].op \in Users!Writes
    <3>1. net[t] # R!NoCall
      BY <2>3, WIdle
    <3>2. {"op", "st", "mine", "alone"} \subseteq DOMAIN net[t] /\ net[t].mine \in BOOLEAN
      BY <2>1, <2>3, <3>1, WIdle DEF RShape, WSlot
    <3>3. /\ net'[t].op = net[t].op /\ net'[t].st = net[t].st /\ net'[t].mine = net[t].mine /\ net'[t].alone = FALSE
          /\ DOMAIN net'[t] = DOMAIN net[t]
      BY <1>7, <1>9, <2>3, <3>2
    <3>4. net[t].op # "members"
      BY <2>3 DEF Users!Writes
    <3> QED
      BY <2>1, <2>3, <3>1, <3>2, <3>3, <3>4 DEF RShape, WSlot
  <2> QED
    BY <2>2, <2>3
<1>10. WShape'
  <2>1. RNet' /\ \A t \in R!Slots : WSlot(net'[t])
    BY <1>5, <1>6, <1>8, <1>9 DEF RNet
  <2> QED
    BY <2>1 DEF WInv, WShape
<1>11. ui'.list = ui.list /\ (Users!Page' <=> Users!Page) /\ net[s].op = "none"
  BY <1>2, WIdle DEF WLook, Users!Page
<1>12. b.op # "members" /\ "members" \notin Users!Writes
  BY <1>6 DEF WAsks, Users!Writes
<1>13. WListed'
  <2>1. WDone => WDone'
    BY <1>9, <1>11, WIdle DEF WDone, WOps, WAsks
  <2>2. WFresh => WFresh'
    <3>1. ASSUME NEW t \in R!Slots, net'[t].op = "members" PROVE net'[t] = net[t]
      <4>1. t # s
        BY <1>8, <1>12, <3>1
      <4>2. net[t].op \notin Users!Writes
        BY <1>9, <1>12, <3>1, <4>1
      <4> QED
        BY <1>9, <4>1, <4>2
    <3> QED
      BY <3>1 DEF WFresh
  <2>3. WComes => WComes'
    BY <1>9, <1>11 DEF WComes
  <2> QED
    BY <1>11, <2>1, <2>2, <2>3 DEF WInv, WListed
<1>14. WToken'
  BY <1>8, <1>9, <1>11, <1>12 DEF WInv, WToken
<1>15. WAlone'
  <2> SUFFICES ASSUME ~hist.odd, NEW t \in R!Slots, WTakes(net'[t]), net'[t].alone
               PROVE  WRight(net[t].u)' /\ \A v \in R!Slots \ {t} : net'[v].op \notin Users!Writes
    BY DEF WAlone
  <2>1. t = s /\ alone
    <3>1. net'[t].op \in Users!Writes
      BY WIdle
    <3> QED
      BY <1>5, <1>8, <1>9, <3>1
  <2>2. \A v \in R!Slots : net[v] = R!NoCall
    BY <1>1, <2>1
  <2>3. ASSUME NEW v \in R!Slots \ {t} PROVE net'[v].op \notin Users!Writes
    <3>1. net'[v].op = net[v].op
      BY <1>9, <2>1
    <3> QED
      BY <2>2, <3>1, WIdle
  <2>4. WTakes(r) /\ b.u = r.u
    BY <1>5, <1>8, <2>1 DEF WTakes
  <2>5. ui.list = db.role
    <3>1. ~WDone /\ ~WComes
      BY <2>2, WIdle DEF WDone, WComes, Users!Writes
    <3> QED
      BY <2>4, <3>1 DEF WInv, WListed
  <2>6. db.token = "admin"
    BY <2>4 DEF WInv, WToken
  <2>7. WRight(r.u)
    BY <2>4, <2>5, <2>6 DEF WRight
  <2> QED
    BY <1>8, <2>1, <2>3, <2>4, <2>7 DEF WRight
<1> QED
  BY <1>10, <1>13, <1>14, <1>15 DEF WInv

LEMMA WAsksKeep ==
    ASSUME WInv, NEW u \in Names, NEW r,
           Users!ChangeRole(u, r) \/ Users!Invite(u, r) \/ Users!RemoveUser(u) \/ Users!ResetPassword(u)
    PROVE  WInv'
<1>1. DOMAIN ui = WFields
  BY DEF WInv, WShape
<1>2. db' = db /\ hist' = hist /\ DOMAIN ui' = WFields /\ \A f \in WLook : ui'[f] = ui[f]
  BY <1>1 DEF Users!ChangeRole, Users!Invite, Users!RemoveUser, Users!ResetPassword, Users!Act, WFields, WLook
<1>3. CASE Users!ChangeRole(u, r)
  <2> DEFINE q == [op |-> "role", u |-> u, r |-> r]
  <2>1. DOMAIN q = {"op", "u", "r"} /\ q.op = "role" /\ q.u = u /\ {"st", "mine", "alone", "ans"} \cap DOMAIN q = {}
    OBVIOUS
  <2>2. Users!Ask(q) /\ Users!Page /\ ui.list[u] # "out" /\ ~Users!LastAdmin(ui.list, u)
    BY <1>3 DEF Users!ChangeRole, Users!Act
  <2> HIDE DEF q
  <2>3. q.op \in WAsks
    BY <2>1 DEF WAsks, Users!Writes
  <2> QED
    BY <1>2, <2>1, <2>2, <2>3, WAskKeeps
<1>4. CASE Users!RemoveUser(u)
  <2> DEFINE q == [op |-> "remove", u |-> u]
  <2>1. DOMAIN q = {"op", "u"} /\ q.op = "remove" /\ q.u = u /\ {"st", "mine", "alone", "ans"} \cap DOMAIN q = {}
    OBVIOUS
  <2>2. Users!Ask(q) /\ Users!Page /\ ui.list[u] # "out" /\ ~Users!LastAdmin(ui.list, u)
    BY <1>4 DEF Users!RemoveUser, Users!Act
  <2> HIDE DEF q
  <2>3. q.op \in WAsks
    BY <2>1 DEF WAsks, Users!Writes
  <2> QED
    BY <1>2, <2>1, <2>2, <2>3, WAskKeeps
<1>5. CASE Users!Invite(u, r)
  <2> DEFINE q == [op |-> "invite", u |-> u, r |-> r]
  <2>1. DOMAIN q = {"op", "u", "r"} /\ q.op = "invite" /\ {"st", "mine", "alone", "ans"} \cap DOMAIN q = {}
    OBVIOUS
  <2>2. Users!Ask(q)
    BY <1>5 DEF Users!Invite
  <2> HIDE DEF q
  <2>3. q.op \in WAsks /\ ~WTakes(q)
    BY <2>1 DEF WAsks, Users!Writes, WTakes
  <2> QED
    BY <1>2, <2>1, <2>2, <2>3, WAskKeeps
<1>6. CASE Users!ResetPassword(u)
  <2> DEFINE q == [op |-> "reset", u |-> u]
  <2>1. DOMAIN q = {"op", "u"} /\ q.op = "reset" /\ {"st", "mine", "alone", "ans"} \cap DOMAIN q = {}
    OBVIOUS
  <2>2. Users!Ask(q)
    BY <1>6 DEF Users!ResetPassword, Users!Act
  <2> HIDE DEF q
  <2>3. q.op \in WAsks /\ ~WTakes(q)
    BY <2>1 DEF WAsks, Users!Writes, WTakes
  <2> QED
    BY <1>2, <2>1, <2>2, <2>3, WAskKeeps
<1> QED
  BY <1>3, <1>4, <1>5, <1>6

\* Other sessions, and requests that fail: the page promises nothing more.
LEMMA WOddKeeps ==
    ASSUME WShape', hist'.odd
    PROVE  WInv'
BY DEF WInv, WListed, WToken, WAlone

LEMMA WElsewhereKeeps ==
    ASSUME WInv, NEW u, NEW r, Users!Elsewhere(u, r)
    PROVE  WInv'
<1>1. DOMAIN hist' = {"odd"} /\ hist'.odd = TRUE
  BY DEF WInv, WShape, Users!Elsewhere
<1>2. DOMAIN db' = WData /\ DOMAIN db'.role = Names
  <2> DEFINE f == [db.role EXCEPT ![u] = r]
             c == db.changes + 1
  <2>1. db' = [db EXCEPT !.role = f, !.changes = c] /\ DOMAIN f = DOMAIN db.role
    BY DEF WInv, WShape, WData, Users!Elsewhere
  <2> HIDE DEF f, c
  <2> QED
    BY <2>1 DEF WInv, WShape, WData
<1>3. WShape'
  BY <1>1, <1>2 DEF WInv, WShape, RNet, Users!Elsewhere
<1> QED
  BY <1>1, <1>3, WOddKeeps

\* What a handler leaves of the page when a list is in.
LEMMA WAfter ==
    ASSUME WShape, NEW by
    PROVE  LET v == Users!After(by)
           IN  /\ DOMAIN v = WFields /\ v.me = ui.me /\ v.list = ui.list
               /\ by # "mount" => (v.loading <=> ui.loading)
<1> DEFINE x == ui.loading /\ by # "mount"
           y == ui.busy /\ by # "invite"
<1>1. Users!After(by) = [ui EXCEPT !.loading = x, !.busy = y]
  BY DEF WShape, WFields, Users!After
<1>2. by # "mount" => (x <=> ui.loading)
  OBVIOUS
<1> HIDE DEF x, y
<1> QED
  BY <1>1, <1>2 DEF WShape, WFields

LEMMA WFailedKeeps ==
    ASSUME WInv, NEW s \in R!Slots, Users!Failed(s)
    PROVE  WInv'
<1>1. RNet' /\ Only(s) /\ net'[s] = R!NoCall
  BY WLinks, RSettled DEF WInv, WShape, Users!Failed
<1>2. DOMAIN hist' = {"odd"} /\ hist'.odd = TRUE /\ db' = db
  BY DEF WInv, WShape, Users!Failed
<1>3. \A t \in R!Slots : WSlot(net'[t])
  BY <1>1 DEF WInv, WShape, WSlot, Only
<1>4. DOMAIN ui' = WFields
  <2>1. DOMAIN ui = WFields /\ \A by : DOMAIN Users!After(by) = WFields
    BY WAfter DEF WInv, WShape
  <2>2. CASE net[s].op \notin {"members", "invite", "me"}
    BY <2>1, <2>2 DEF Users!Failed
  <2>3. CASE net[s].op = "members"
    BY <2>1, <2>3 DEF Users!Failed
  <2>4. CASE net[s].op = "invite"
    BY <2>1, <2>4 DEF Users!Failed
  <2>5. CASE net[s].op = "me"
    BY <2>1, <2>5 DEF Users!Failed
  <2> QED
    BY <2>2, <2>3, <2>4, <2>5
<1>5. WShape'
  BY <1>1, <1>2, <1>3, <1>4 DEF WInv, WShape
<1> QED
  BY <1>2, <1>5, WOddKeeps

\* The server.
LEMMA WAnswered ==
    ASSUME WInv, NEW s \in R!Slots, NEW w, net[s].st = "sent", R!Answer(s, w)
    PROVE  /\ RNet' /\ Only(s) /\ net'[s].op = net[s].op /\ net'[s].st = "done" /\ net'[s].ans = w
           /\ \A t \in R!Slots : WSlot(net'[t])
           /\ net[s].op = "members" => net'[s].old = net[s].old
<1>1. net[s] # R!NoCall
  BY WIdle
<1>2. /\ RNet' /\ Only(s) /\ DOMAIN net'[s] = DOMAIN net[s] \cup {"ans"} /\ net'[s].st = "done"
      /\ \A f \in DOMAIN net[s] \ {"st"} : net'[s][f] = net[s][f]
      /\ "ans" \notin DOMAIN net[s] => net'[s].ans = w
  BY <1>1, RAnswered DEF WInv, WShape
<1>3. "op" \in DOMAIN net[s] /\ "ans" \notin DOMAIN net[s] /\ WSlot(net[s])
  BY <1>1 DEF WInv, WShape, RNet, RShape, WSlot
<1>4. net'[s].op = net[s].op /\ net'[s].ans = w
  BY <1>2, <1>3
<1>5. WSlot(net'[s]) /\ (net[s].op = "members" => net'[s].old = net[s].old)
  BY <1>1, <1>2, <1>3, <1>4 DEF WSlot
<1> QED
  BY <1>2, <1>4, <1>5 DEF WInv, WShape, Only

LEMMA WWriteKeeps ==
    ASSUME WInv, NEW s \in R!Slots, Users!Write(s)
    PROVE  WInv'
<1>1. net[s].op \in Users!Writes /\ net[s].st = "sent" /\ R!Answer(s, TRUE) /\ ui' = ui /\ hist' = hist
  BY WWriting, WLinks DEF Users!Write
<1>2. /\ RNet' /\ Only(s) /\ net'[s].op = net[s].op /\ net'[s].st = "done"
      /\ \A t \in R!Slots : WSlot(net'[t])
  BY <1>1, WAnswered
<1>3. DOMAIN db' = WData /\ DOMAIN db'.role = Names /\ db'.token = db.token
  <2> DEFINE w == IF net[s].op = "remove" THEN "out" ELSE net[s].r
             f == [db.role EXCEPT ![net[s].u] = w]
             c == db.changes + 1
  <2>1. db' = [db EXCEPT !.role = f, !.changes = c] /\ DOMAIN f = DOMAIN db.role
    BY DEF WInv, WShape, WData, Users!Write
  <2> HIDE DEF f, c
  <2> QED
    BY <2>1 DEF WInv, WShape, WData
<1>4. WShape'
  BY <1>1, <1>2, <1>3 DEF WInv, WShape
<1>5. WListed'
  BY <1>1, <1>2 DEF WListed, WDone
<1>6. WToken'
  <2>1. db.token = "admin"
    BY DEF Users!Write, Users!Accepts
  <2> QED
    BY <1>3, <2>1 DEF WToken
<1>7. WAlone'
  <2> SUFFICES ASSUME ~hist.odd, NEW t \in R!Slots, WTakes(net'[t]), net'[t].st = "sent", net'[t].alone
               PROVE  FALSE
    BY <1>1 DEF WAlone
  <2>1. t # s /\ net'[t] = net[t]
    BY <1>2 DEF Only
  <2> QED
    BY <1>1, <2>1 DEF WInv, WAlone
<1> QED
  BY <1>4, <1>5, <1>6, <1>7 DEF WInv

LEMMA WReadKeeps ==
    ASSUME WInv, NEW s \in R!Slots, Users!Read(s)
    PROVE  WInv'
<1> DEFINE w == IF net[s].op = "me" THEN db.role[a] ELSE db.role
<1>1. /\ net[s].op \in {"me", "members", "reset"} /\ net[s].st = "sent" /\ R!Answer(s, w)
      /\ net[s].op = "members" => db.token = "admin"
      /\ ui' = ui /\ db' = db /\ hist' = hist
  BY WLinks DEF Users!Read
<1>2. net[s].op = "members" => w = db.role
  OBVIOUS
<1> HIDE DEF w
<1>3. /\ RNet' /\ Only(s) /\ net'[s].op = net[s].op /\ net'[s].st = "done" /\ net'[s].ans = w
      /\ \A t \in R!Slots : WSlot(net'[t])
      /\ net[s].op = "members" => net'[s].old = net[s].old
  BY <1>1, WAnswered
<1>4. WShape'
  BY <1>1, <1>3 DEF WInv, WShape
<1>5. Users!Page' <=> Users!Page
  BY <1>1 DEF Users!Page
<1>6. WListed'
  <2>1. WDone => WDone'
    BY <1>1, <1>3 DEF WDone, Only, Users!Writes
  <2>2. WFresh => WFresh'
    BY <1>1, <1>2, <1>3 DEF WFresh, Only
  <2>3. WComes => WComes'
    BY <1>3 DEF Only, WComes
  <2> QED
    BY <1>1, <1>5, <2>1, <2>2, <2>3 DEF WInv, WListed
<1>7. WToken'
  BY <1>1, <1>3 DEF WInv, WToken, Only
<1>8. WAlone'
  <2>1. \A t \in R!Slots : net'[t].op = net[t].op /\ (net'[t].st = "sent" => net'[t] = net[t])
    BY <1>3 DEF Only
  <2> QED
    BY <1>1, <2>1 DEF WInv, WAlone, WRight
<1> QED
  BY <1>4, <1>6, <1>7, <1>8 DEF WInv

\* A change is done: the list is loaded again, and those under way are old.
LEMMA WDoneKeeps ==
    ASSUME WInv, NEW s \in R!Slots, Users!Done(s)
    PROVE  WInv'
<1> DEFINE r == Users!Refresh(net[s].op)
           b == R!Asked(r)
<1>1. net[s].op \in Users!Writes /\ net[s].st = "done" /\ db' = db /\ hist' = hist
  BY WWriting DEF Users!Done
<1>2. DOMAIN ui' = WFields /\ \A f \in WLook : ui'[f] = ui[f]
  BY DEF WInv, WShape, Users!Done, WFields, WLook
<1>3. DOMAIN net' = R!Slots /\ net'[s] = b
  BY WLinks DEF Users!Done, Users!Aged
<1>4. /\ b.op = "members" /\ b.st = "sent" /\ RShape(b) /\ DOMAIN b = {"op", "by", "old", "st", "mine"}
  <2>1. DOMAIN r = {"op", "by", "old"} /\ r.op = "members" /\ "op" \in DOMAIN r /\ {"st", "mine"} \cap DOMAIN r = {}
    BY DEF Users!Refresh
  <2> HIDE DEF r
  <2>2. /\ DOMAIN b = DOMAIN r \cup {"st", "mine"} /\ b.st = "sent" /\ RShape(b) /\ \A f \in DOMAIN r : b[f] = r[f]
    BY <2>1, RAsked
  <2> QED
    BY <2>1, <2>2
<1> HIDE DEF b, r
<1>5. WSlot(b)
  BY <1>4 DEF WSlot, WOps, WAsks, Users!Writes
<1>6. ASSUME NEW t \in R!Slots, t # s
      PROVE  /\ net[t].op # "members" => net'[t] = net[t]
             /\ net'[t].op = net[t].op /\ net'[t].st = net[t].st /\ WSlot(net'[t]) /\ RShape(net'[t])
             /\ net[t].op = "members" => net'[t].old
  <2>1. net'[t] = IF net[t].op = "members" THEN [net[t] EXCEPT !.old = TRUE] ELSE net[t]
    BY <1>6, WLinks DEF Users!Done, Users!Aged
  <2>2. WSlot(net[t]) /\ RShape(net[t])
    BY DEF WInv, WShape, RNet
  <2>3. CASE net[t].op # "members"
    BY <2>1, <2>2, <2>3
  <2>4. CASE net[t].op = "members"
    <3>1. net[t] # R!NoCall /\ "old" \in DOMAIN net[t]
      BY <2>2, <2>4, WIdle DEF WSlot, WOps
    <3> DEFINE q == [net[t] EXCEPT !.old = TRUE]
    <3>2. RShape(q) /\ DOMAIN q = DOMAIN net[t] /\ q.old = TRUE /\ \A g \in DOMAIN net[t] \ {"old"} : q[g] = net[t][g]
      BY <2>2, <3>1, RSet
    <3>3. {"op", "st"} \subseteq DOMAIN net[t]
      BY <2>2, <3>1 DEF RShape
    <3>4. net'[t] = q
      BY <2>1, <2>4
    <3> HIDE DEF q
    <3> QED
      BY <2>2, <2>4, <3>1, <3>2, <3>3, <3>4 DEF WSlot, WAsks, Users!Writes
  <2> QED
    BY <2>3, <2>4
<1>7. WShape'
  <2>1. RNet' /\ \A t \in R!Slots : WSlot(net'[t])
    BY <1>3, <1>4, <1>5, <1>6 DEF RNet
  <2> QED
    BY <1>1, <1>2, <2>1 DEF WInv, WShape
<1>8. WListed'
  <2>1. WFresh' /\ WComes'
    BY <1>3, <1>4, <1>6 DEF WFresh, WComes
  <2> QED
    BY <2>1 DEF WListed
<1>9. WToken'
  BY <1>1, <1>2, <1>3, <1>4, <1>6 DEF WInv, WToken, WLook
<1>10. WAlone'
  <2> SUFFICES ASSUME ~hist.odd, NEW t \in R!Slots, WTakes(net'[t]), net'[t].st = "sent", net'[t].alone
               PROVE  FALSE
    BY <1>1 DEF WAlone
  <2>1. "members" \notin Users!Writes
    BY DEF Users!Writes
  <2>2. t # s /\ net'[t] = net[t]
    BY <1>3, <1>4, <1>6, <2>1, WIdle
  <2> QED
    BY <1>1, <2>2 DEF WInv, WAlone
<1> QED
  BY <1>7, <1>8, <1>9, <1>10 DEF WInv

\* Who the user is: an administrator's page loads its list.
LEMMA WAmKeeps ==
    ASSUME WInv, NEW s \in R!Slots, Users!WhoAmI(s)
    PROVE  WInv'
<1> DEFINE r == Users!Refresh("mount")
           x == net[s].ans = "admin"
<1>1. net[s].op = "me" /\ net[s].st = "done" /\ db' = db /\ hist' = hist
  BY DEF Users!WhoAmI, Users!At
<1>2. DOMAIN ui' = WFields /\ ui'.list = ui.list /\ ~Users!Page'
  <2>1. ui' = [ui EXCEPT !.me = net[s].ans, !.loading = x] /\ DOMAIN ui = WFields
    BY DEF WInv, WShape, Users!WhoAmI
  <2>2. x \/ net[s].ans # "admin"
    OBVIOUS
  <2> HIDE DEF x
  <2> QED
    BY <2>1, <2>2 DEF WFields, Users!Page
<1>3. /\ RNet' /\ Only(s) /\ WSlot(net'[s])
      /\ net'[s] = R!NoCall \/ (net'[s].op = "members" /\ net'[s].st = "sent")
  <2>1. RNet
    BY DEF WInv, WShape
  <2>2. CASE x
    <3>1. DOMAIN r = {"op", "by", "old"} /\ r.op = "members" /\ "op" \in DOMAIN r /\ {"st", "mine"} \cap DOMAIN r = {}
      BY DEF Users!Refresh
    <3>2. R!Follow(s, r)
      BY <2>2, WLinks DEF Users!WhoAmI
    <3> HIDE DEF r
    <3>3. /\ RNet' /\ Only(s) /\ DOMAIN net'[s] = DOMAIN r \cup {"st", "mine"}
          /\ net'[s].st = "sent" /\ \A f \in DOMAIN r : net'[s][f] = r[f]
      BY <2>1, <3>1, <3>2, RFollowed
    <3> QED
      BY <3>1, <3>3 DEF WSlot, WOps, WAsks, Users!Writes
  <2>3. CASE ~x
    BY <2>1, <2>3, WLinks, RSettled DEF Users!WhoAmI, WSlot
  <2> QED
    BY <2>2, <2>3
<1> HIDE DEF r, x
<1>4. WShape'
  BY <1>1, <1>2, <1>3 DEF WInv, WShape, Only
<1>5. \A t \in R!Slots : net'[t].op \in Users!Writes \/ net'[t].st = "done" => net'[t] = net[t]
  BY <1>3, WIdle DEF Only, Users!Writes
<1>6. \A t \in R!Slots : net[t].op \in Users!Writes => net'[t] = net[t]
  BY <1>1, <1>3 DEF Only, Users!Writes
<1>7. WListed'
  <2>1. WDone => WDone'
    BY <1>6 DEF WDone
  <2>2. WFresh => WFresh'
    BY <1>1, <1>5 DEF WFresh
  <2> QED
    BY <1>1, <1>2, <2>1, <2>2 DEF WInv, WListed
<1>8. WToken'
  BY <1>1, <1>2, <1>5 DEF WInv, WToken
<1>9. WAlone'
  BY <1>1, <1>5, WIdle DEF WInv, WAlone, WRight
<1> QED
  BY <1>4, <1>7, <1>8, <1>9 DEF WInv

LEMMA WSentKeeps ==
    ASSUME WInv, NEW s \in R!Slots, Users!Sent(s)
    PROVE  WInv'
<1>1. /\ RNet' /\ Only(s) /\ net'[s] = R!NoCall /\ net[s].op = "reset"
      /\ ui' = ui /\ db' = db /\ hist' = hist
  BY WLinks, RSettled DEF WInv, WShape, Users!Sent, Users!At
<1>2. WShape'
  BY <1>1 DEF WInv, WShape, WSlot, Only
<1>3. \A t \in R!Slots : net'[t].op \in Users!Writes \/ net'[t].st = "done" => net'[t] = net[t]
  BY <1>1, WIdle DEF Only
<1>4. \A t \in R!Slots : net[t].op # "reset" => net'[t] = net[t]
  BY <1>1 DEF Only
<1>5. WListed'
  <2>1. (WDone => WDone') /\ (WComes => WComes')
    BY <1>4 DEF WDone, WComes, Users!Writes
  <2>2. (WFresh => WFresh') /\ (Users!Page' <=> Users!Page)
    BY <1>1, <1>3 DEF WFresh, Users!Page
  <2> QED
    BY <1>1, <2>1, <2>2 DEF WInv, WListed
<1>6. WToken'
  BY <1>1, <1>3 DEF WInv, WToken
<1>7. WAlone'
  BY <1>1, <1>3, WIdle DEF WInv, WAlone, WRight
<1> QED
  BY <1>2, <1>5, <1>6, <1>7 DEF WInv

\* A list is in.
LEMMA WMembersKeeps ==
    ASSUME WInv, NEW s \in R!Slots, Users!Members(s)
    PROVE  WInv'
<1> DEFINE b == hist.odd \/ (net[s].old /\ Users!Flying("members") = {s})
           v == Users!After(net[s].by)
<1>1. /\ RNet' /\ Only(s) /\ net'[s] = R!NoCall /\ net[s].op = "members" /\ net[s].st = "done"
      /\ db' = db
  BY WLinks, RSettled DEF WInv, WShape, Users!Members, Users!At
<1>2. hist' = [hist EXCEPT !.odd = b] /\ b \in BOOLEAN
  BY DEF Users!Members
<1>3. ~b => ~hist.odd /\ (~net[s].old \/ \E t \in R!Slots \ {s} : net[t].op = "members")
  BY <1>1, WLinks DEF Users!Flying
<1>4. DOMAIN v = WFields
  BY WAfter DEF WInv
<1>5. ui' = [v EXCEPT !.list = net[s].ans]
  BY DEF Users!Members
<1> HIDE DEF b, v
<1>6. DOMAIN hist' = {"odd"} /\ hist'.odd = b
  BY <1>2 DEF WInv, WShape
<1>7. DOMAIN ui' = WFields /\ ui'.list = net[s].ans
  BY <1>4, <1>5 DEF WFields
<1>8. WShape'
  BY <1>1, <1>2, <1>6, <1>7 DEF WInv, WShape, WSlot, Only
<1>9. \A t \in R!Slots : net'[t].op \in WOps => net'[t] = net[t] /\ t # s
  BY <1>1, WIdle DEF Only
<1>10. WDone => WDone'
  BY <1>1 DEF WDone, Only, Users!Writes
<1>11. WFresh => WFresh'
  BY <1>1, <1>9 DEF WFresh, WOps
<1>12. WListed'
  <2>1. CASE ~b /\ ~WDone
    <3>1. WFresh
      BY <1>3, <2>1 DEF WInv, WListed
    <3>2. ~net[s].old => net[s].ans = db.role
      BY <1>1, <3>1 DEF WFresh
    <3>3. (\E t \in R!Slots \ {s} : net[t].op = "members") => WComes'
      BY <1>1 DEF Only, WComes
    <3> QED
      BY <1>1, <1>3, <1>7, <1>11, <2>1, <3>1, <3>2, <3>3 DEF WListed
  <2> QED
    BY <1>6, <1>10, <2>1 DEF WListed
<1>13. WToken'
  BY <1>1, <1>3, <1>6 DEF WInv, WToken
<1>14. WAlone'
  <2>1. \A t \in R!Slots : net'[t].op \in Users!Writes => net'[t] = net[t]
    BY <1>9, WIdle
  <2> QED
    BY <1>1, <1>3, <1>6, <2>1, WIdle DEF WInv, WAlone, WRight
<1> QED
  BY <1>8, <1>12, <1>13, <1>14 DEF WInv

LEMMA WOffered ==
    ASSUME WInv
    PROVE  Users!OfferedIsAllowed
<1> SUFFICES ASSUME NEW s \in R!Slots, WTakes(net[s]), net[s].st = "sent", net[s].alone, ~hist.odd
             PROVE  Users!Accepts(net[s])
  BY WLinks DEF Users!OfferedIsAllowed, Users!At, WTakes
<1>1. WRight(net[s].u)
  BY DEF WInv, WAlone
<1>2. CASE net[s].op = "remove"
  BY <1>1, <1>2 DEF WRight, Users!Accepts
<1>3. CASE net[s].op = "role" /\ net[s].r # "admin"
  BY <1>1, <1>3 DEF WRight, Users!Accepts
<1> QED
  BY <1>2, <1>3 DEF WTakes

LEMMA WInit ==
    ASSUME Users!Init
    PROVE  WInv
<1> DEFINE r == [op |-> "me"]
           x == R!Asked(r)
<1>1. DOMAIN r = {"op"} /\ r.op = "me" /\ "op" \in DOMAIN r /\ {"st", "mine"} \cap DOMAIN r = {}
  OBVIOUS
<1>2. net = [R!NoCalls EXCEPT ![1] = R!Asked(r)]
  BY WLinks DEF Users!Init, Users!NoCalls, R!NoCalls
<1> HIDE DEF r
<1>3. RNet /\ \A s \in R!Slots : net[s] \in {R!NoCall, R!Asked(r)}
  BY <1>1, <1>2, RStart
<1>4. DOMAIN x = DOMAIN r \cup {"st", "mine"} /\ x.st = "sent" /\ x.op = "me"
  BY <1>1, RAsked
<1> HIDE DEF x
<1>5. WSlot(x) /\ WSlot(R!NoCall)
  BY <1>1, <1>4 DEF WSlot, WOps, WAsks, Users!Writes
<1>6. \A s \in R!Slots : WSlot(net[s]) /\ net[s].op \in {"none", "me"} /\ net[s].st # "done"
  BY <1>3, <1>4, <1>5, WIdle DEF x
<1>7. /\ DOMAIN ui = WFields /\ ui.loading = TRUE /\ DOMAIN hist = {"odd"} /\ hist.odd = FALSE
      /\ \A u \in Names : ui.list[u] = "out"
  BY DEF Users!Init, Users!Fresh, WFields
<1>8. DOMAIN db = WData /\ DOMAIN db.role = Names
  BY DEF Users!Init, Users!Listed, WData
<1>9. ~Users!Page
  BY <1>7 DEF Users!Page
<1> QED
  BY <1>3, <1>6, <1>7, <1>8, <1>9 DEF WInv, WShape, WListed, WFresh, WToken, WAlone, WTakes

LEMMA WStep ==
    ASSUME WInv, [Users!Next]_Users!vars
    PROVE  WInv'
<1>1. CASE UNCHANGED Users!vars
  BY <1>1, WSetKeeps DEF WInv, WShape, Users!vars
<1> QED
  BY <1>1, WLinks, WFormKeeps, WAsksKeep, WElsewhereKeeps, WWriteKeeps, WReadKeeps, WAmKeeps, WDoneKeeps,
     WMembersKeeps, WSentKeeps, WFailedKeeps
  DEF Users!Next

-----------------------------------------------------------------------------
ActsInv ==
    /\ screen = "users" => WInv
    /\ screen = "projects" => JInv
    /\ screen = "dialogs" => DInv
    /\ screen \in {"points", "pages"} => PInv

LEMMA ActsStep ==
    ASSUME ActsInv, [Next]_vars
    PROVE  ActsInv'
<1>1. CASE screen = "users"
  <2>1. [Users!Next]_Users!vars
    BY <1>1 DEF Next, vars, Users!vars
  <2> QED
    BY <1>1, <2>1, WStep, ScreenIsOne DEF ActsInv
<1>2. CASE screen = "projects"
  <2>1. [Projects!Next]_Projects!vars
    BY <1>2 DEF Next, vars, Projects!vars
  <2> QED
    BY <1>2, <2>1, JStep, ScreenIsOne DEF ActsInv
<1>3. CASE screen = "dialogs"
  <2>1. [Dialogs!Next]_Dialogs!vars
    BY <1>3 DEF Next, vars, Dialogs!vars
  <2> QED
    BY <1>3, <2>1, DStep, ScreenIsOne DEF ActsInv
<1>4. CASE screen \in {"points", "pages"}
  <2>1. [Points!Next]_Points!vars
    BY <1>4 DEF Next, vars, Points!vars
  <2> QED
    BY <1>4, <2>1, PStep, ScreenIsOne DEF ActsInv
<1> QED
  BY <1>1, <1>2, <1>3, <1>4, ScreenIsOne DEF ActsInv

\* A bulk dialog over the survey points acts on the points it shows.  An import files
\* what its dialog names, in the points dialog if nothing was done while a file was
\* being read and no reading failed.  A change that the pages of users and of
\* projects offer is not refused, if no other request was under way with it, none
\* failed, and no other session changed anything before (ActsOnShown).
THEOREM OffersAreMeant == Spec => []ActsOnShown
<1>1. Init => ActsInv
  BY WInit, JInit, DInit, PInit DEF Init, ActsInv
<1>2. ActsInv /\ [Next]_vars => ActsInv'
  BY ActsStep
<1>3. ActsInv => ActsOnShown
  <2>1. DInv => Dialogs!FiledAsNamed
    BY DEF DInv, DNamed, Dialogs!FiledAsNamed
  <2>2. PInv => Points!ActsOnShown
    BY DEF PInv
  <2> QED
    BY <2>1, <2>2, WOffered, JOffered DEF ActsInv, ActsOnShown
<1> QED
  BY <1>1, <1>2, <1>3, PTL DEF Spec

-----------------------------------------------------------------------------
(* The building grid.                                                      *)

\* How often a list names an axis.
Named(list, l) == Cardinality({i \in DOMAIN list : list[i] = l})

LEMMA ECount ==
    ASSUME NEW S
    PROVE  Grid!Cardinality(S) = Cardinality(S)
BY DEF Grid!Cardinality, Cardinality

\* The list of a set of axes names each as often as the set has it.
LEMMA EListed ==
    ASSUME NEW S, IsFiniteSet(S)
    PROVE  LET list == Grid!LabelList(S)
           IN  /\ Cardinality(S) \in Nat /\ DOMAIN list = 1 .. Cardinality(S)
               /\ list \in Seq({x.l : x \in S})
               /\ \A l : Named(list, l) = Grid!Copies(l, S)
<1> DEFINE n0 == Cardinality(S)
           q == Grid!SetToSeq(S)
           list == Grid!LabelList(S)
<1>1. n0 \in Nat /\ ExistsBijection(1 .. n0, S)
  BY FS_CardinalityType
<1>2. \E f \in [1 .. n0 -> S] : Grid!IsInjective(f)
  BY <1>1 DEF ExistsBijection, Bijection, Injection, IsInjective, Grid!IsInjective
<1>3. q \in [1 .. n0 -> S] /\ Grid!IsInjective(q)
  BY <1>2, ECount DEF Grid!SetToSeq
<1> HIDE DEF q
<1>4. list = [i \in 1 .. n0 |-> q[i].l]
  BY <1>3 DEF q, Grid!LabelList
<1> HIDE DEF list
<1>5. list \in Seq({x.l : x \in S})
  <2>1. list \in [1 .. n0 -> {x.l : x \in S}]
    BY <1>3, <1>4
  <2> QED
    BY <1>1, <2>1
<1>6. q \in Injection(1 .. n0, S)
  BY <1>3 DEF Injection, IsInjective, Grid!IsInjective
<1>7. IsFiniteSet(1 .. n0) /\ Cardinality(1 .. n0) = n0
  BY <1>1, FS_Interval
<1>8. q \in Surjection(1 .. n0, S)
  BY <1>6, <1>7, FS_Injection
<1>9. ASSUME NEW l PROVE Named(list, l) = Grid!Copies(l, S)
  <2> DEFINE I == {i \in DOMAIN list : list[i] = l}
             T == {x \in S : x.l = l}
             f == [i \in I |-> q[i]]
  <2>1. \A i \in I : i \in 1 .. n0 /\ q[i] \in T
    BY <1>3, <1>4
  <2>2. f \in Injection(I, T)
    BY <1>3, <2>1 DEF Injection, IsInjective, Grid!IsInjective
  <2>3. f \in Surjection(I, T)
    <3>1. \A x \in T : \E i \in I : f[i] = x
      BY <1>4, <1>8 DEF Surjection
    <3> QED
      BY <2>1, <3>1 DEF Surjection
  <2>4. ExistsBijection(I, T)
    BY <2>2, <2>3 DEF ExistsBijection, Bijection
  <2>5. IsFiniteSet(I)
    BY <1>4, <1>7, FS_Subset
  <2>6. Cardinality(I) = Cardinality(T)
    BY <2>4, <2>5, FS_Bijection
  <2> QED
    BY <2>6, ECount DEF Named, Grid!Copies
<1> QED
  BY <1>1, <1>4, <1>5, <1>9 DEF list

LEMMA EAppended ==
    ASSUME NEW T, NEW list \in Seq(T), NEW m
    PROVE  LET more == Append(list, m)
           IN  /\ \E k \in Nat : DOMAIN more = 1 .. k
               /\ \A l : l # m => Named(more, l) = Named(list, l)
<1> DEFINE more == Append(list, m)
<1>1. list \in Seq(T \cup {m}) /\ m \in T \cup {m}
  OBVIOUS
<1>2. /\ Len(list) \in Nat /\ DOMAIN list = 1 .. Len(list) /\ DOMAIN more = 1 .. Len(list) + 1
      /\ \A i \in 1 .. Len(list) : more[i] = list[i]
      /\ more[Len(list) + 1] = m
  BY <1>1
<1> HIDE DEF more
<1>3. ASSUME NEW l, l # m PROVE {i \in DOMAIN more : more[i] = l} = {i \in DOMAIN list : list[i] = l}
  BY <1>2, <1>3
<1>4. ASSUME NEW l, l # m PROVE Named(more, l) = Named(list, l)
  BY <1>3, <1>4 DEF Named
<1>5. Len(list) + 1 \in Nat
  BY <1>2
<1> QED
  BY <1>2, <1>4, <1>5 DEF more

EFields == {"axes", "form", "pending", "import", "busy", "busyImport"}

ESlot(r) ==
    \/ r = R!NoCall
    \/ /\ r.op \in {"set", "load"} /\ (r.st = "sent" => "ans" \notin DOMAIN r)
       /\ r.op = "set" => /\ {"via", "axes", "snap", "changes"} \subseteq DOMAIN r
                          /\ \E k \in Nat : DOMAIN r.axes = 1 .. k
EShape ==
    /\ DOMAIN ui = EFields /\ DOMAIN ui.form = {"open", "axis"}
    /\ DOMAIN hist = {"faulty", "stale", "seen"} /\ {hist.faulty, hist.stale} \subseteq BOOLEAN
    /\ DOMAIN db = {"rows", "saves"} /\ db.saves \in Nat
    /\ RNet /\ \A s \in R!Slots : ESlot(net[s])

\* An id is of one axis, wherever it is known.
EAnswers == {s \in R!Slots : net[s].op = "load" /\ net[s].st = "done"}
EKnown ==
    db.rows \cup ui.axes \cup ({ui.form.axis, ui.pending} \ {Grid!None})
      \cup UNION {net[s].ans.rows : s \in EAnswers}
EIds ==
    /\ \A x \in EKnown : DOMAIN x = {"id", "l"} /\ x.id \in Nat \X Nat /\ x.id[1] <= db.saves
    /\ \A x, y \in EKnown : x.id = y.id => x = y
EFinite ==
    /\ IsFiniteSet(db.rows) /\ IsFiniteSet(ui.axes)
    /\ \A s \in EAnswers : IsFiniteSet(net[s].ans.rows)

\* A list built from the current grid, with no other one under way, differs
\* from it by its own axis until it is committed.
EAlone ==
    hist.stale \/ \A s \in R!Slots : net[s].op = "set" =>
        /\ \A t \in R!Slots : net[t].op = "set" => t = s
        /\ net[s].st \in {"sent", "wait", "hold"} =>
              \A l \in Names \ net[s].changes : Named(net[s].axes, l) = Grid!Copies(l, db.rows)
        /\ net[s].st \in {"wait", "hold"} => net[s].snap = db.rows

\* A replacement that is done has the grid loaded again; the page is as new as
\* the newest answer it has seen.
EComes(s) ==
    \/ net[s].op = "set" /\ net[s].st = "done"
    \/ net[s].op = "load" /\ (net[s].st = "sent" \/ (net[s].st = "done" /\ net[s].ans.saves = db.saves))
ESeen ==
    hist.faulty \/
        /\ \A s \in R!Slots : net[s].st # "failed"
        /\ \A s \in EAnswers : /\ net[s].ans.saves \in 0 .. db.saves
                               /\ net[s].ans.saves = db.saves => net[s].ans.rows = db.rows
        /\ hist.seen \in 0 .. db.saves
        /\ hist.seen = db.saves => ui.axes = db.rows
        /\ hist.seen = db.saves \/ \E s \in R!Slots : EComes(s)
EInv == EShape /\ EIds /\ EFinite /\ EAlone /\ ESeen

LEMMA ELinks ==
    /\ Grid!Slots = R!Slots /\ Grid!NoCall = R!NoCall
    /\ \A r : Grid!Send(r) <=> R!Send(r)
    /\ \A s : (Grid!Settle(s) <=> R!Settle(s)) /\ (Grid!Throw(s) <=> R!Throw(s))
    /\ \A s, r : (Grid!Answer(s, r) <=> R!Answer(s, r)) /\ (Grid!Follow(s, r) <=> R!Follow(s, r))
BY DEF Grid!Slots, R!Slots, Grid!NoCall, R!NoCall, Grid!Send, R!Send, Grid!Settle, R!Settle, Grid!Throw, R!Throw,
       Grid!Answer, R!Answer, Grid!Follow, R!Follow, Grid!Asked, R!Asked, Grid!Extended, R!Extended

LEMMA EIdle == R!NoCall.op = "none" /\ R!NoCall.st = "idle"
BY DEF R!NoCall

\* What is known stays what it is while no more is known.
LEMMA EIdsStay ==
    ASSUME EIds, EKnown' \subseteq EKnown, db.saves' = db.saves
    PROVE  EIds'
BY DEF EIds

\* The dialogs open and close.
LEMMA ELookKeeps ==
    ASSUME EInv, net' = net, db' = db, hist' = hist, DOMAIN ui' = EFields, DOMAIN ui'.form = {"open", "axis"},
           ui'.axes = ui.axes, {ui'.form.axis, ui'.pending} \subseteq EKnown \cup {Grid!None}
    PROVE  EInv'
<1>1. EAnswers' = EAnswers /\ \A s \in EAnswers : net'[s] = net[s]
  BY DEF EAnswers
<1>2. EKnown' \subseteq EKnown
  BY <1>1 DEF EKnown
<1>3. EShape'
  BY DEF EInv, EShape, RNet
<1>4. EIds'
  BY <1>2, EIdsStay DEF EInv
<1>5. EFinite'
  BY <1>1 DEF EInv, EFinite
<1>6. EAlone'
  BY DEF EInv, EAlone
<1>7. ESeen'
  BY <1>1 DEF EInv, ESeen, EComes
<1> QED
  BY <1>3, <1>4, <1>5, <1>6, <1>7 DEF EInv

LEMMA EFormKeeps ==
    ASSUME EInv,
           \/ Grid!OpenAdd \/ Grid!CloseForm \/ Grid!CancelDelete \/ Grid!OpenImport \/ Grid!CloseImport
           \/ \E x \in ui.axes : Grid!OpenEdit(x) \/ Grid!AskDelete(x)
    PROVE  EInv'
<1>1. net' = net /\ db' = db /\ hist' = hist
  BY DEF Grid!OpenAdd, Grid!CloseForm, Grid!CancelDelete, Grid!OpenImport, Grid!CloseImport, Grid!OpenEdit, Grid!AskDelete
<1>2. DOMAIN ui = EFields /\ DOMAIN ui.form = {"open", "axis"}
  BY DEF EInv, EShape
<1>3. ui.axes \subseteq EKnown /\ {ui.form.axis, ui.pending} \subseteq EKnown \cup {Grid!None}
  BY DEF EKnown
<1>4. CASE Grid!OpenAdd \/ Grid!CloseForm \/ \E x \in ui.axes : Grid!OpenEdit(x)
  <2>1. ASSUME NEW f, ui' = [ui EXCEPT !.form = f], DOMAIN f = {"open", "axis"}, f.axis \in ui.axes \cup {Grid!None}
        PROVE  EInv'
    <3>1. DOMAIN ui' = EFields /\ ui'.form = f /\ ui'.axes = ui.axes /\ ui'.pending = ui.pending
      BY <1>2, <2>1 DEF EFields
    <3> QED
      BY <1>1, <1>3, <2>1, <3>1, ELookKeeps
  <2>2. ASSUME NEW open, NEW x \in ui.axes \cup {Grid!None}, ui' = [ui EXCEPT !.form = [open |-> open, axis |-> x]]
        PROVE  EInv'
    <3> DEFINE f == [open |-> open, axis |-> x]
    <3>1. DOMAIN f = {"open", "axis"} /\ f.axis = x /\ ui' = [ui EXCEPT !.form = f]
      BY <2>2
    <3> HIDE DEF f
    <3> QED
      BY <2>1, <2>2, <3>1
  <2> QED
    BY <1>4, <2>2 DEF Grid!OpenAdd, Grid!CloseForm, Grid!Blank, Grid!OpenEdit
<1>5. CASE Grid!CancelDelete \/ \E x \in ui.axes : Grid!AskDelete(x)
  <2>1. PICK x : ui' = [ui EXCEPT !.pending = x] /\ x \in ui.axes \cup {Grid!None}
    BY <1>5 DEF Grid!CancelDelete, Grid!AskDelete
  <2>2. /\ DOMAIN ui' = EFields /\ ui'.form = ui.form /\ ui'.axes = ui.axes /\ ui'.pending = x
    BY <1>2, <2>1 DEF EFields
  <2> QED
    BY <1>1, <1>2, <1>3, <2>1, <2>2, ELookKeeps
<1>6. CASE Grid!OpenImport \/ Grid!CloseImport
  <2>1. /\ DOMAIN ui' = EFields /\ ui'.form = ui.form /\ ui'.axes = ui.axes /\ ui'.pending = ui.pending
    BY <1>2, <1>6 DEF EFields, Grid!OpenImport, Grid!CloseImport
  <2> QED
    BY <1>1, <1>2, <1>3, <2>1, ELookKeeps
<1> QED
  BY <1>4, <1>5, <1>6

\* A change is sent: the list of it.
LEMMA ESaveKeeps ==
    ASSUME EInv, NEW via, NEW labels, NEW changes, Grid!Save(via, labels, changes),
           \E k \in Nat : DOMAIN labels = 1 .. k,
           \A l \in Names \ changes : Named(labels, l) = Grid!Copies(l, ui.axes),
           DOMAIN ui' = EFields, ui'.form = ui.form, ui'.axes = ui.axes, ui'.pending \in {ui.pending, Grid!None}
    PROVE  EInv'
<1> DEFINE r == [op |-> "set", via |-> via, axes |-> labels, snap |-> {}, changes |-> changes]
           b == hist.stale \/ Grid!Flying("set") # {} \/ ui.axes # db.rows
<1>1. RNet /\ \A s \in R!Slots : ESlot(net[s])
  BY DEF EInv, EShape
<1>2. /\ DOMAIN r = {"op", "via", "axes", "snap", "changes"} /\ r.op = "set" /\ r.axes = labels /\ r.changes = changes
      /\ "op" \in DOMAIN r /\ {"st", "mine"} \cap DOMAIN r = {}
  OBVIOUS
<1>3. R!Send(r) /\ hist' = [hist EXCEPT !.stale = b] /\ db' = db
  BY ELinks DEF Grid!Save
<1>4. b \in BOOLEAN /\ (~b => ~hist.stale /\ ui.axes = db.rows /\ \A s \in R!Slots : net[s].op # "set")
  BY ELinks DEF EInv, EShape, Grid!Flying
<1> HIDE DEF r, b
<1>5. RNet' /\ \E s \in R!Slots :
                 /\ Only(s) /\ net[s] = R!NoCall
                 /\ DOMAIN net'[s] = DOMAIN r \cup {"st", "mine"}
                 /\ net'[s].st = "sent" /\ net'[s].mine = TRUE /\ \A f \in DOMAIN r : net'[s][f] = r[f]
  BY <1>1, <1>2, <1>3, RSent
<1>6. PICK s \in R!Slots :
        /\ Only(s) /\ net[s] = R!NoCall /\ DOMAIN net'[s] = DOMAIN r \cup {"st", "mine"}
        /\ net'[s].st = "sent" /\ \A f \in DOMAIN r : net'[s][f] = r[f]
  BY <1>5
<1>7. net'[s].op = "set" /\ net'[s].axes = labels /\ net'[s].changes = changes /\ ESlot(net'[s])
  BY <1>2, <1>6 DEF ESlot
<1>8. /\ DOMAIN hist' = {"faulty", "stale", "seen"} /\ hist'.stale = b
      /\ hist'.faulty = hist.faulty /\ hist'.seen = hist.seen
  BY <1>3 DEF EInv, EShape
<1>9. EShape'
  BY <1>1, <1>3, <1>4, <1>5, <1>6, <1>7, <1>8 DEF EInv, EShape, Only
<1>10. EAnswers' = EAnswers /\ \A t \in EAnswers : net'[t] = net[t]
  BY <1>6, <1>7, EIdle DEF EAnswers, Only
<1>11. EIds'
  <2>1. EKnown' \subseteq EKnown
    BY <1>3, <1>10 DEF EKnown
  <2> QED
    BY <1>3, <2>1, EIdsStay DEF EInv
<1>12. EFinite'
  BY <1>3, <1>10 DEF EInv, EFinite
<1>13. EAlone'
  <2>1. ~b => \A t \in R!Slots : net'[t].op = "set" => t = s
    BY <1>4, <1>6 DEF Only
  <2> QED
    BY <1>3, <1>4, <1>6, <1>7, <1>8, <2>1 DEF EAlone
<1>14. ESeen'
  <2>1. \A t \in R!Slots : EComes(t) => EComes(t)'
    BY <1>3, <1>6, EIdle DEF EComes, Only
  <2>2. (\A t \in R!Slots : net[t].st # "failed") => \A t \in R!Slots : net'[t].st # "failed"
    BY <1>6 DEF Only
  <2> QED
    BY <1>3, <1>8, <1>10, <2>1, <2>2 DEF EInv, ESeen
<1> QED
  BY <1>9, <1>11, <1>12, <1>13, <1>14 DEF EInv

\* What the three dialogs send differs from what is loaded by their own axis.
LEMMA EFormList ==
    ASSUME EInv, NEW l
    PROVE  /\ \E k \in Nat : DOMAIN Grid!NextAxes(l) = 1 .. k
           /\ \A m \in Names \ {l, ui.form.axis.l} : Named(Grid!NextAxes(l), m) = Grid!Copies(m, ui.axes)
<1>1. IsFiniteSet(ui.axes)
  BY DEF EInv, EFinite
<1>2. CASE ui.form.axis = Grid!None
  <2> DEFINE list == Grid!LabelList(ui.axes)
             T == {x.l : x \in ui.axes}
  <2>1. list \in Seq(T) /\ \A m : Named(list, m) = Grid!Copies(m, ui.axes)
    BY <1>1, EListed
  <2>2. Grid!NextAxes(l) = Append(list, l)
    BY <1>2 DEF Grid!NextAxes
  <2> HIDE DEF list, T
  <2>3. /\ \E k \in Nat : DOMAIN Append(list, l) = 1 .. k
        /\ \A m : m # l => Named(Append(list, l), m) = Named(list, m)
    BY <2>1, EAppended
  <2> QED
    BY <2>1, <2>2, <2>3
<1>3. CASE ui.form.axis # Grid!None
  <2> DEFINE i == ui.form.axis.id
             g == [x \in ui.axes |-> IF x.id = i THEN [x EXCEPT !.l = l] ELSE x]
             S == {IF x.id = i THEN [x EXCEPT !.l = l] ELSE x : x \in ui.axes}
  <2>1. Grid!NextAxes(l) = Grid!LabelList(S)
    BY <1>3 DEF Grid!NextAxes
  <2>2. g \in Surjection(ui.axes, S)
    BY DEF Surjection
  <2>3. IsFiniteSet(S)
    BY <1>1, <2>2, FS_Surjection
  <2>4. ui.form.axis \in EKnown /\ ui.axes \subseteq EKnown
    BY <1>3 DEF EKnown
  <2>5. \A x \in ui.axes : DOMAIN x = {"id", "l"} /\ (x.id = i => x = ui.form.axis)
    BY <2>4 DEF EInv, EIds
  <2>6. ASSUME NEW m \in Names \ {l, ui.form.axis.l}
        PROVE  {x \in S : x.l = m} = {x \in ui.axes : x.l = m}
    <3>1. ASSUME NEW x \in ui.axes, x.l = m PROVE x \in S
      <4>1. x.id # i
        BY <2>5, <3>1
      <4> QED
        BY <4>1
    <3>2. ASSUME NEW y \in S, y.l = m PROVE y \in ui.axes
      <4>1. PICK x \in ui.axes : y = IF x.id = i THEN [x EXCEPT !.l = l] ELSE x
        OBVIOUS
      <4>2. x.id # i
        <5> SUFFICES ASSUME x.id = i PROVE FALSE
          OBVIOUS
        <5>1. "l" \in DOMAIN x /\ y = [x EXCEPT !.l = l]
          BY <2>5, <4>1
        <5>2. y.l = l
          BY <5>1
        <5> QED
          BY <3>2, <5>2
      <4> QED
        BY <4>1, <4>2
    <3> QED
      BY <3>1, <3>2
  <2> HIDE DEF S
  <2>7. Cardinality(S) \in Nat /\ DOMAIN Grid!LabelList(S) = 1 .. Cardinality(S)
        /\ \A m : Named(Grid!LabelList(S), m) = Grid!Copies(m, S)
    BY <2>3, EListed
  <2>8. \A m \in Names \ {l, ui.form.axis.l} : Grid!Copies(m, S) = Grid!Copies(m, ui.axes)
    BY <2>6 DEF Grid!Copies
  <2> QED
    BY <2>1, <2>7, <2>8
<1> QED
  BY <1>2, <1>3

LEMMA EDeleteList ==
    ASSUME EInv, ui.pending # Grid!None
    PROVE  LET list == Grid!LabelList({x \in ui.axes : x.id # ui.pending.id})
           IN  /\ \E k \in Nat : DOMAIN list = 1 .. k
               /\ \A m \in Names \ {ui.pending.l} : Named(list, m) = Grid!Copies(m, ui.axes)
<1> DEFINE S == {x \in ui.axes : x.id # ui.pending.id}
<1>1. IsFiniteSet(S)
  BY FS_Subset DEF EInv, EFinite
<1>2. ui.pending \in EKnown /\ ui.axes \subseteq EKnown
  BY DEF EKnown
<1>3. \A x \in ui.axes : x.id = ui.pending.id => x = ui.pending
  BY <1>2 DEF EInv, EIds
<1>4. ASSUME NEW m \in Names \ {ui.pending.l} PROVE {x \in S : x.l = m} = {x \in ui.axes : x.l = m}
  BY <1>3
<1> HIDE DEF S
<1>5. Cardinality(S) \in Nat /\ DOMAIN Grid!LabelList(S) = 1 .. Cardinality(S)
      /\ \A m : Named(Grid!LabelList(S), m) = Grid!Copies(m, S)
  BY <1>1, EListed
<1>6. \A m \in Names \ {ui.pending.l} : Grid!Copies(m, S) = Grid!Copies(m, ui.axes)
  BY <1>4 DEF Grid!Copies
<1>7. /\ \E k \in Nat : DOMAIN Grid!LabelList(S) = 1 .. k
      /\ \A m \in Names \ {ui.pending.l} : Named(Grid!LabelList(S), m) = Grid!Copies(m, ui.axes)
  BY <1>5, <1>6
<1> QED
  BY <1>7 DEF S

LEMMA EImportList ==
    ASSUME EInv, NEW l
    PROVE  LET list == Append(Grid!LabelList(ui.axes), l)
           IN  /\ \E k \in Nat : DOMAIN list = 1 .. k
               /\ \A m \in Names \ {l} : Named(list, m) = Grid!Copies(m, ui.axes)
<1> DEFINE list == Grid!LabelList(ui.axes)
           T == {x.l : x \in ui.axes}
<1>1. list \in Seq(T) /\ \A m : Named(list, m) = Grid!Copies(m, ui.axes)
  BY EListed DEF EInv, EFinite
<1> HIDE DEF list, T
<1>2. /\ \E k \in Nat : DOMAIN Append(list, l) = 1 .. k
      /\ \A m : m # l => Named(Append(list, l), m) = Named(list, m)
  BY <1>1, EAppended
<1>3. /\ \E k \in Nat : DOMAIN Append(list, l) = 1 .. k
      /\ \A m \in Names \ {l} : Named(Append(list, l), m) = Grid!Copies(m, ui.axes)
  BY <1>1, <1>2
<1> QED
  BY <1>3 DEF list

LEMMA ESavesKeep ==
    ASSUME EInv,
           \/ Grid!ConfirmDelete
           \/ \E l \in Names : \/ Grid!SubmitForm(l)
                               \/ \E text \in Grid!Texts, h, r \in BOOLEAN : Grid!SubmitImport(l, text, h, r)
    PROVE  EInv'
<1>1. DOMAIN ui = EFields
  BY DEF EInv, EShape
<1>2. CASE Grid!ConfirmDelete
  <2> DEFINE list == Grid!LabelList({x \in ui.axes : x.id # ui.pending.id})
             set == {ui.pending.l}
  <2>1. Grid!Save("delete", list, set) /\ ui' = [ui EXCEPT !.pending = Grid!None] /\ ui.pending # Grid!None
    BY <1>2 DEF Grid!ConfirmDelete
  <2>2. DOMAIN ui' = EFields /\ ui'.form = ui.form /\ ui'.axes = ui.axes /\ ui'.pending = Grid!None
    BY <1>1, <2>1 DEF EFields
  <2>3. (\E k \in Nat : DOMAIN list = 1 .. k) /\ \A m \in Names \ set : Named(list, m) = Grid!Copies(m, ui.axes)
    BY <2>1, EDeleteList
  <2> HIDE DEF list, set
  <2> QED
    BY <2>1, <2>2, <2>3, ESaveKeeps
<1>3. ASSUME NEW l \in Names, Grid!SubmitForm(l) PROVE EInv'
  <2> DEFINE list == Grid!NextAxes(l)
             set == {l, ui.form.axis.l}
  <2>1. Grid!Save("form", list, set) /\ ui' = [ui EXCEPT !.busy = TRUE]
    BY <1>3 DEF Grid!SubmitForm
  <2>2. DOMAIN ui' = EFields /\ ui'.form = ui.form /\ ui'.axes = ui.axes /\ ui'.pending = ui.pending
    BY <1>1, <2>1 DEF EFields
  <2>3. (\E k \in Nat : DOMAIN list = 1 .. k) /\ \A m \in Names \ set : Named(list, m) = Grid!Copies(m, ui.axes)
    BY EFormList
  <2> HIDE DEF list, set
  <2> QED
    BY <2>1, <2>2, <2>3, ESaveKeeps
<1>4. ASSUME NEW l \in Names, NEW text, NEW h, NEW r \in BOOLEAN, Grid!SubmitImport(l, text, h, r) PROVE EInv'
  <2> DEFINE list == IF r THEN <<l>> ELSE Append(Grid!LabelList(ui.axes), l)
             set == IF r THEN Names ELSE {l}
  <2>1. Grid!Save("import", list, set) /\ ui' = [ui EXCEPT !.busyImport = TRUE]
    BY <1>4 DEF Grid!SubmitImport
  <2>2. DOMAIN ui' = EFields /\ ui'.form = ui.form /\ ui'.axes = ui.axes /\ ui'.pending = ui.pending
    BY <1>1, <2>1 DEF EFields
  <2>3. (\E k \in Nat : DOMAIN list = 1 .. k) /\ \A m \in Names \ set : Named(list, m) = Grid!Copies(m, ui.axes)
    <3>1. CASE r
      <4>1. list = <<l>> /\ Names \ set = {} /\ DOMAIN <<l>> = 1 .. 1
        BY <3>1
      <4> HIDE DEF list, set
      <4> QED
        BY <4>1
    <3>2. CASE ~r
      BY <3>2, EImportList
    <3> QED
      BY <3>1, <3>2
  <2> HIDE DEF list, set
  <2> QED
    BY <2>1, <2>2, <2>3, ESaveKeeps
<1> QED
  BY <1>2, <1>3, <1>4

-----------------------------------------------------------------------------
\* One request moves on, by the slot it is in: what the invariant asks of it.
LEMMA EMoveKeeps ==
    ASSUME EInv, NEW s \in R!Slots, RNet', Only(s), ESlot(net'[s]), db' = db,
           ui' = ui, hist' = hist,
           net[s].op = "set", net'[s].op = "set", net'[s].st \in {"wait", "hold"}, net[s].st # "done",
           net'[s].axes = net[s].axes, net'[s].changes = net[s].changes,
           net[s].st \in {"sent", "wait"}, hist.stale \/ net'[s].snap = db.rows
    PROVE  EInv'
<1>1. EShape'
  BY DEF EInv, EShape, Only
<1>2. EAnswers' = EAnswers /\ \A t \in EAnswers : net'[t] = net[t]
  BY DEF EAnswers, Only
<1>3. EKnown' \subseteq EKnown
  BY <1>2 DEF EKnown
<1>4. EIds'
  BY <1>3, EIdsStay DEF EInv
<1>5. EFinite'
  BY <1>2 DEF EInv, EFinite
<1>6. EAlone'
  BY DEF EInv, EAlone, Only
<1>7. ESeen'
  <2>1. \A t \in R!Slots : EComes(t) => EComes(t)'
    BY DEF EComes, Only
  <2>2. (\A t \in R!Slots : net[t].st # "failed") => \A t \in R!Slots : net'[t].st # "failed"
    BY DEF Only
  <2> QED
    BY <1>2, <2>1, <2>2 DEF EInv, ESeen
<1> QED
  BY <1>1, <1>4, <1>5, <1>6, <1>7 DEF EInv

\* The replacement in a slot, and what it carries.
LEMMA EOfSet ==
    ASSUME EInv, NEW s \in R!Slots, net[s].op = "set"
    PROVE  /\ {"op", "st", "mine", "via", "axes", "snap", "changes"} \subseteq DOMAIN net[s]
           /\ net[s] # R!NoCall /\ net[s].mine \in BOOLEAN /\ \E k \in Nat : DOMAIN net[s].axes = 1 .. k
<1>1. net[s] # R!NoCall
  BY EIdle
<1> QED
  BY <1>1 DEF EInv, EShape, ESlot, RNet, RShape

LEMMA EDeleteKeeps ==
    ASSUME EInv, NEW s \in R!Slots, Grid!Delete(s) \/ Grid!Hold(s)
    PROVE  EInv'
<1>1. /\ net[s].op = "set" /\ net[s].st \in {"sent", "wait"} /\ ui' = ui /\ db' = db /\ hist' = hist
  BY DEF Grid!Delete, Grid!Hold, Grid!At
<1>2. /\ {"op", "st", "mine", "via", "axes", "snap", "changes"} \subseteq DOMAIN net[s]
      /\ net[s] # R!NoCall /\ net[s].mine \in BOOLEAN /\ \E k \in Nat : DOMAIN net[s].axes = 1 .. k
  BY <1>1, EOfSet
<1>3. DOMAIN net = R!Slots /\ RNet
  BY DEF EInv, EShape, RNet
<1>4. ASSUME NEW st \in {"wait", "hold"}, NEW snap, hist.stale \/ snap = db.rows,
             net' = [net EXCEPT ![s].st = st, ![s].snap = snap]
      PROVE  EInv'
  <2> DEFINE q == [net[s] EXCEPT !.st = st, !.snap = snap]
  <2>1. net'[s] = q /\ Only(s)
    BY <1>3, <1>4 DEF Only
  <2>2. /\ DOMAIN q = DOMAIN net[s] /\ q.st = st /\ q.snap = snap
        /\ \A f \in DOMAIN net[s] \ {"st", "snap"} : q[f] = net[s][f]
    BY <1>2
  <2> HIDE DEF q
  <2>3. /\ q.op = "set" /\ q.mine = net[s].mine /\ q.axes = net[s].axes /\ q.changes = net[s].changes
    BY <1>1, <1>2, <2>2
  <2>4. RShape(q) /\ ESlot(q)
    BY <1>2, <1>4, <2>2, <2>3 DEF RShape, ESlot
  <2>5. RNet'
    BY <1>3, <2>1, <2>4 DEF RNet, Only
  <2> QED
    BY <1>1, <1>4, <2>1, <2>2, <2>3, <2>4, <2>5, EMoveKeeps
<1>5. CASE Grid!Delete(s)
  BY <1>4, <1>5 DEF Grid!Delete
<1>6. CASE Grid!Hold(s)
  <2>1. hist.stale \/ net[s].snap = db.rows
    BY <1>1, <1>6 DEF EInv, EAlone, Grid!Hold, Grid!At
  <2>2. net' = [net EXCEPT ![s].st = "hold", ![s].snap = net[s].snap \cap db.rows]
    BY <1>2, <1>3, <1>6 DEF Grid!Hold
  <2>3. hist.stale \/ net[s].snap \cap db.rows = db.rows
    BY <2>1
  <2> QED
    BY <1>4, <2>2, <2>3
<1> QED
  BY <1>5, <1>6

\* The new rows: as many of each axis as the list names, under ids nobody has.
LEMMA ENewRows ==
    ASSUME EInv, NEW s \in R!Slots, net[s].op = "set"
    PROVE  /\ IsFiniteSet(Grid!NewRows(s))
           /\ \A x \in Grid!NewRows(s) :
                 DOMAIN x = {"id", "l"} /\ x.id \in Nat \X Nat /\ x.id[1] = db.saves + 1
           /\ \A x, y \in Grid!NewRows(s) : x.id = y.id => x = y
           /\ \A l : Grid!Copies(l, Grid!NewRows(s)) = Named(net[s].axes, l)
<1> DEFINE list == net[s].axes
           v == db.saves + 1
           row(i) == [id |-> <<v, i>>, l |-> list[i]]
           D == DOMAIN list
           S == Grid!NewRows(s)
           f == [i \in D |-> row(i)]
<1>1. PICK k \in Nat : D = 1 .. k
  BY EOfSet
<1>2. S = {row(i) : i \in D}
  BY DEF Grid!NewRows
<1>3. IsFiniteSet(D)
  BY <1>1, FS_Interval
<1>4. \A i \in D : /\ DOMAIN row(i) = {"id", "l"} /\ row(i).id = <<v, i>> /\ row(i).l = list[i]
                   /\ i \in Nat
  BY <1>1
<1>5. v \in Nat
  BY DEF EInv, EShape
<1> HIDE DEF v, list, D, row, S
<1>6. f \in Surjection(D, S)
  BY <1>2 DEF Surjection
<1>7. IsFiniteSet(S)
  BY <1>3, <1>6, FS_Surjection
<1>8. \A i, j \in D : row(i).id = row(j).id => i = j
  BY <1>4
<1>9. \A x, y \in S : x.id = y.id => x = y
  BY <1>2, <1>8
<1>10. \A x \in S : DOMAIN x = {"id", "l"} /\ x.id \in Nat \X Nat /\ x.id[1] = v
  <2>1. \A i \in Nat : <<v, i>> \in Nat \X Nat /\ <<v, i>>[1] = v
    BY <1>5
  <2>2. \A i \in D : DOMAIN row(i) = {"id", "l"} /\ row(i).id \in Nat \X Nat /\ row(i).id[1] = v
    BY <1>4, <2>1
  <2> QED
    BY <1>2, <2>2
<1>11. ASSUME NEW l PROVE Grid!Copies(l, S) = Named(list, l)
  <2> DEFINE I == {i \in D : list[i] = l}
             T == {x \in S : x.l = l}
             g == [i \in I |-> row(i)]
  <2>1. g \in Surjection(I, T)
    BY <1>2, <1>4 DEF Surjection
  <2>2. g \in Injection(I, T)
    <3>1. g \in [I -> T]
      BY <2>1 DEF Surjection
    <3>2. \A i, j \in I : g[i] = g[j] => i = j
      BY <1>8
    <3> QED
      BY <3>1, <3>2 DEF Injection, IsInjective
  <2>3. IsFiniteSet(I)
    BY <1>3, FS_Subset
  <2>4. Cardinality(I) = Cardinality(T)
    BY <2>1, <2>2, <2>3, FS_Bijection DEF ExistsBijection, Bijection
  <2> QED
    BY <2>4, ECount DEF Named, Grid!Copies, D
<1> QED
  BY <1>7, <1>9, <1>10, <1>11 DEF S, v, list

LEMMA ECommitKeeps ==
    ASSUME EInv, NEW s \in R!Slots, Grid!Commit(s)
    PROVE  EInv'
<1>1. /\ net[s].op = "set" /\ net[s].st = "hold" /\ ui' = ui /\ hist' = hist
      /\ db' = [rows |-> (db.rows \ net[s].snap) \cup Grid!NewRows(s), saves |-> db.saves + 1]
      /\ R!Answer(s, TRUE)
  BY ELinks DEF Grid!Commit, Grid!At
<1>2. /\ {"op", "st", "mine", "via", "axes", "snap", "changes"} \subseteq DOMAIN net[s]
      /\ net[s] # R!NoCall /\ \E k \in Nat : DOMAIN net[s].axes = 1 .. k
  BY <1>1, EOfSet
<1>3. /\ RNet' /\ Only(s) /\ DOMAIN net'[s] = DOMAIN net[s] \cup {"ans"} /\ net'[s].st = "done"
      /\ \A f \in DOMAIN net[s] \ {"st"} : net'[s][f] = net[s][f]
  BY <1>1, <1>2, RAnswered DEF EInv, EShape
<1>4. net'[s].op = "set" /\ net'[s].axes = net[s].axes
  BY <1>1, <1>2, <1>3
<1>5. /\ IsFiniteSet(Grid!NewRows(s))
      /\ \A x \in Grid!NewRows(s) : DOMAIN x = {"id", "l"} /\ x.id \in Nat \X Nat /\ x.id[1] = db.saves + 1
      /\ \A x, y \in Grid!NewRows(s) : x.id = y.id => x = y
  BY <1>1, ENewRows
<1>6. /\ DOMAIN db' = {"rows", "saves"} /\ db'.rows = (db.rows \ net[s].snap) \cup Grid!NewRows(s)
      /\ db'.saves = db.saves + 1 /\ db.saves \in Nat
  BY <1>1 DEF EInv, EShape
<1>7. EShape'
  <2>1. ESlot(net'[s])
    BY <1>2, <1>3, <1>4 DEF ESlot
  <2> QED
    BY <1>1, <1>3, <1>6, <2>1 DEF EInv, EShape, Only
<1>8. EAnswers' = EAnswers /\ \A t \in EAnswers : net'[t] = net[t]
  BY <1>1, <1>3, <1>4 DEF EAnswers, Only
<1>9. EIds'
  <2>1. EKnown' \subseteq EKnown \cup Grid!NewRows(s)
    BY <1>1, <1>6, <1>8 DEF EKnown
  <2>2. \A x \in EKnown : DOMAIN x = {"id", "l"} /\ x.id \in Nat \X Nat /\ x.id[1] <= db.saves
    BY DEF EInv, EIds
  <2>3. \A x, y \in EKnown : x.id = y.id => x = y
    BY DEF EInv, EIds
  <2>4. \A x \in EKnown', y \in EKnown' : x.id = y.id => x = y
    BY <1>5, <1>6, <2>1, <2>2, <2>3
  <2>5. \A x \in EKnown' : DOMAIN x = {"id", "l"} /\ x.id \in Nat \X Nat /\ x.id[1] <= db'.saves
    BY <1>5, <1>6, <2>1, <2>2
  <2> QED
    BY <2>4, <2>5 DEF EIds
<1>10. EFinite'
  <2>1. IsFiniteSet(db.rows) /\ IsFiniteSet(ui.axes) /\ \A t \in EAnswers : IsFiniteSet(net[t].ans.rows)
    BY DEF EInv, EFinite
  <2>2. IsFiniteSet(db.rows \ net[s].snap)
    BY <2>1, FS_Difference
  <2>3. IsFiniteSet((db.rows \ net[s].snap) \cup Grid!NewRows(s))
    BY <1>5, <2>2, FS_Union
  <2> QED
    BY <1>1, <1>6, <1>8, <2>1, <2>3 DEF EFinite
<1>11. EAlone'
  <2>1. hist.stale \/ \A t \in R!Slots : net[t].op = "set" => t = s
    BY <1>1 DEF EInv, EAlone
  <2> QED
    BY <1>1, <1>3, <2>1 DEF EAlone, Only
<1>12. ESeen'
  <2>1. EComes(s)'
    BY <1>3, <1>4 DEF EComes
  <2>2. (\A t \in R!Slots : net[t].st # "failed") => \A t \in R!Slots : net'[t].st # "failed"
    BY <1>3 DEF Only
  <2>3. ~hist.faulty => /\ \A t \in R!Slots : net[t].st # "failed"
                        /\ \A t \in EAnswers : net[t].ans.saves \in 0 .. db.saves
                        /\ hist.seen \in 0 .. db.saves
    BY DEF EInv, ESeen
  <2>4. ~hist.faulty =>
           /\ \A t \in EAnswers' : net'[t].ans.saves \in 0 .. db'.saves /\ net'[t].ans.saves # db'.saves
           /\ hist.seen \in 0 .. db'.saves /\ hist.seen # db'.saves
    BY <1>6, <1>8, <2>3
  <2> QED
    BY <1>1, <2>1, <2>2, <2>3, <2>4 DEF ESeen
<1> QED
  BY <1>7, <1>9, <1>10, <1>11, <1>12 DEF EInv

LEMMA EReadKeeps ==
    ASSUME EInv, NEW s \in R!Slots, Grid!Read(s)
    PROVE  EInv'
<1> DEFINE told == [rows |-> db.rows, saves |-> db.saves]
<1>1. net[s].op = "load" /\ net[s].st = "sent" /\ ui' = ui /\ db' = db /\ hist' = hist /\ R!Answer(s, told)
  BY ELinks DEF Grid!Read, Grid!At
<1>2. told.rows = db.rows /\ told.saves = db.saves /\ db.saves \in Nat
  BY DEF EInv, EShape
<1> HIDE DEF told
<1>3. net[s] # R!NoCall /\ {"op", "st", "mine"} \subseteq DOMAIN net[s] /\ "ans" \notin DOMAIN net[s]
  BY <1>1, EIdle DEF EInv, EShape, ESlot, RNet, RShape
<1>4. /\ RNet' /\ Only(s) /\ DOMAIN net'[s] = DOMAIN net[s] \cup {"ans"} /\ net'[s].st = "done"
      /\ \A f \in DOMAIN net[s] \ {"st"} : net'[s][f] = net[s][f]
      /\ net'[s].ans = told
  BY <1>1, <1>3, RAnswered DEF EInv, EShape
<1>5. net'[s].op = "load" /\ ESlot(net'[s])
  BY <1>1, <1>3, <1>4 DEF ESlot
<1>6. EShape'
  BY <1>1, <1>4, <1>5 DEF EInv, EShape, Only
<1>7. EAnswers' = EAnswers \cup {s} /\ \A t \in EAnswers : t # s /\ net'[t] = net[t]
  BY <1>1, <1>4, <1>5 DEF EAnswers, Only
<1>8. EIds'
  <2>1. EKnown' \subseteq EKnown
    BY <1>1, <1>2, <1>4, <1>7 DEF EKnown
  <2> QED
    BY <1>1, <2>1, EIdsStay DEF EInv
<1>9. EFinite'
  BY <1>1, <1>2, <1>4, <1>7 DEF EInv, EFinite
<1>10. EAlone'
  BY <1>1, <1>4, <1>5 DEF EInv, EAlone, Only
<1>11. ESeen'
  <2>1. \A t \in R!Slots : EComes(t) => EComes(t)'
    BY <1>1, <1>2, <1>4, <1>5 DEF EComes, Only
  <2>2. (\A t \in R!Slots : net[t].st # "failed") => \A t \in R!Slots : net'[t].st # "failed"
    BY <1>4 DEF Only
  <2>3. ~hist.faulty => \A t \in EAnswers' : /\ net'[t].ans.saves \in 0 .. db'.saves
                                             /\ net'[t].ans.saves = db'.saves => net'[t].ans.rows = db'.rows
    BY <1>1, <1>2, <1>4, <1>7 DEF EInv, ESeen
  <2> QED
    BY <1>1, <2>1, <2>2, <2>3 DEF EInv, ESeen
<1> QED
  BY <1>6, <1>8, <1>9, <1>10, <1>11 DEF EInv

LEMMA EFailKeeps ==
    ASSUME EInv, NEW s \in R!Slots, Grid!Fail(s)
    PROVE  EInv'
<1>1. net[s].st \in {"sent", "done"} /\ ui' = ui /\ db' = db /\ hist' = [hist EXCEPT !.faulty = TRUE] /\ R!Throw(s)
  BY ELinks DEF Grid!Fail
<1>2. net[s] # R!NoCall /\ {"op", "st", "mine"} \subseteq DOMAIN net[s] /\ ESlot(net[s])
  BY <1>1, EIdle DEF EInv, EShape, RNet, RShape
<1>3. /\ RNet' /\ Only(s) /\ DOMAIN net'[s] = DOMAIN net[s] /\ net'[s].st = "failed"
      /\ \A f \in DOMAIN net[s] \ {"st"} : net'[s][f] = net[s][f]
  BY <1>1, <1>2, RThrown DEF EInv, EShape
<1>4. net'[s].op = net[s].op
  BY <1>2, <1>3
<1>5. DOMAIN hist' = {"faulty", "stale", "seen"} /\ hist'.faulty = TRUE /\ hist'.stale = hist.stale
  BY <1>1 DEF EInv, EShape
<1>6. ESlot(net'[s])
  <2>1. CASE net[s].op = "set"
    <3>1. {"via", "axes", "snap", "changes"} \subseteq DOMAIN net[s] /\ \E k \in Nat : DOMAIN net[s].axes = 1 .. k
      BY <1>2, <2>1 DEF ESlot
    <3>2. net'[s].axes = net[s].axes
      BY <1>3, <3>1
    <3> QED
      BY <1>3, <1>4, <2>1, <3>1, <3>2 DEF ESlot
  <2>2. CASE net[s].op # "set"
    BY <1>2, <1>3, <1>4, <2>2 DEF ESlot
  <2> QED
    BY <2>1, <2>2
<1>7. EShape'
  BY <1>1, <1>3, <1>5, <1>6 DEF EInv, EShape, Only
<1>8. EAnswers' = EAnswers \ {s} /\ \A t \in EAnswers \ {s} : net'[t] = net[t]
  BY <1>3 DEF EAnswers, Only
<1>9. EIds'
  <2>1. EKnown' \subseteq EKnown
    BY <1>1, <1>8 DEF EKnown
  <2> QED
    BY <1>1, <2>1, EIdsStay DEF EInv
<1>10. EFinite'
  BY <1>1, <1>8 DEF EInv, EFinite
<1>11. EAlone'
  BY <1>1, <1>3, <1>4, <1>5 DEF EInv, EAlone, Only
<1>12. ESeen'
  BY <1>5 DEF ESeen
<1> QED
  BY <1>7, <1>9, <1>10, <1>11, <1>12 DEF EInv

\* The two busy flags and the dialogs are set beside the axes.
LEMMA EFlags ==
    ASSUME DOMAIN ui = EFields, DOMAIN ui.form = {"open", "axis"}, NEW s \in R!Slots
    PROVE  /\ Grid!Saved(s) => /\ DOMAIN ui' = EFields /\ ui'.axes = ui.axes /\ ui'.pending = ui.pending
                               /\ DOMAIN ui'.form = {"open", "axis"} /\ ui'.form.axis \in {ui.form.axis, Grid!None}
           /\ Grid!Failed(s) => DOMAIN ui' = EFields /\ ui'.axes = ui.axes /\ ui'.pending = ui.pending /\ ui'.form = ui.form
<1>1. ASSUME NEW via
      PROVE  /\ DOMAIN Grid!Idle(via) = EFields /\ Grid!Idle(via).axes = ui.axes
             /\ Grid!Idle(via).pending = ui.pending /\ Grid!Idle(via).form = ui.form
  BY DEF Grid!Idle, EFields
<1>2. DOMAIN Grid!Blank = {"open", "axis"} /\ Grid!Blank.axis = Grid!None
  BY DEF Grid!Blank
<1>3. ASSUME Grid!Saved(s)
      PROVE  /\ DOMAIN ui' = EFields /\ ui'.axes = ui.axes /\ ui'.pending = ui.pending
             /\ DOMAIN ui'.form = {"open", "axis"} /\ ui'.form.axis \in {ui.form.axis, Grid!None}
  <2> DEFINE p == Grid!Idle("form")
             q == Grid!Idle("import")
  <2>1. /\ DOMAIN p = EFields /\ p.axes = ui.axes /\ p.pending = ui.pending /\ p.form = ui.form
        /\ DOMAIN q = EFields /\ q.axes = ui.axes /\ q.pending = ui.pending /\ q.form = ui.form
    BY <1>1
  <2>2. ui' \in {[p EXCEPT !.form = Grid!Blank], [q EXCEPT !.import = FALSE], ui}
    BY <1>3 DEF Grid!Saved
  <2> HIDE DEF p, q
  <2>3. CASE ui' = [p EXCEPT !.form = Grid!Blank]
    BY <1>2, <2>1, <2>3 DEF EFields
  <2>4. CASE ui' = [q EXCEPT !.import = FALSE]
    BY <2>1, <2>4 DEF EFields
  <2> QED
    BY <2>2, <2>3, <2>4
<1> QED
  BY <1>1, <1>3 DEF Grid!Failed

LEMMA ESavedKeeps ==
    ASSUME EInv, NEW s \in R!Slots, Grid!Saved(s)
    PROVE  EInv'
<1>1. net[s].op = "set" /\ net[s].st = "done" /\ db' = db /\ hist' = hist /\ R!Follow(s, Grid!Load)
  BY ELinks DEF Grid!Saved, Grid!At
<1>2. DOMAIN Grid!Load = {"op"} /\ Grid!Load.op = "load"
  BY DEF Grid!Load
<1>3. "op" \in DOMAIN Grid!Load /\ {"st", "mine"} \cap DOMAIN Grid!Load = {}
  BY <1>2
<1>4. /\ RNet' /\ Only(s) /\ DOMAIN net'[s] = DOMAIN Grid!Load \cup {"st", "mine"}
      /\ net'[s].st = "sent" /\ \A f \in DOMAIN Grid!Load : net'[s][f] = Grid!Load[f]
  BY <1>1, <1>3, RFollowed DEF EInv, EShape
<1>5. net'[s].op = "load" /\ ESlot(net'[s])
  BY <1>2, <1>4 DEF ESlot
<1>6. /\ DOMAIN ui' = EFields /\ ui'.axes = ui.axes /\ ui'.pending = ui.pending
      /\ DOMAIN ui'.form = {"open", "axis"} /\ ui'.form.axis \in {ui.form.axis, Grid!None}
  BY EFlags DEF EInv, EShape
<1>7. EShape'
  BY <1>1, <1>4, <1>5, <1>6 DEF EInv, EShape, Only
<1>8. EAnswers' = EAnswers /\ \A t \in EAnswers : net'[t] = net[t]
  BY <1>1, <1>4, <1>5 DEF EAnswers, Only
<1>9. EIds'
  <2>1. EKnown' \subseteq EKnown
    BY <1>1, <1>6, <1>8 DEF EKnown
  <2> QED
    BY <1>1, <2>1, EIdsStay DEF EInv
<1>10. EFinite'
  BY <1>1, <1>6, <1>8 DEF EInv, EFinite
<1>11. EAlone'
  BY <1>1, <1>4, <1>5 DEF EInv, EAlone, Only
<1>12. ESeen'
  <2>1. \A t \in R!Slots : EComes(t) => EComes(t)'
    BY <1>1, <1>4, <1>5 DEF EComes, Only
  <2>2. (\A t \in R!Slots : net[t].st # "failed") => \A t \in R!Slots : net'[t].st # "failed"
    BY <1>4 DEF Only
  <2> QED
    BY <1>1, <1>6, <1>8, <2>1, <2>2 DEF EInv, ESeen
<1> QED
  BY <1>7, <1>9, <1>10, <1>11, <1>12 DEF EInv

LEMMA ELoadedKeeps ==
    ASSUME EInv, NEW s \in R!Slots, Grid!Loaded(s)
    PROVE  EInv'
<1> DEFINE told == net[s].ans
           b == hist.faulty \/ told.saves < hist.seen
<1>1. /\ s \in EAnswers /\ db' = db /\ R!Settle(s) /\ ui' = [ui EXCEPT !.axes = told.rows]
      /\ hist' = [hist EXCEPT !.faulty = b, !.seen = told.saves]
  <2>1. DOMAIN hist = {"faulty", "stale", "seen"}
    BY DEF EInv, EShape
  <2> QED
    BY <2>1, ELinks DEF Grid!Loaded, Grid!At, EAnswers
<1>2. b \in BOOLEAN /\ (~b => ~hist.faulty /\ ~(told.saves < hist.seen))
  BY DEF EInv, EShape
<1> HIDE DEF b
<1>3. RNet' /\ Only(s) /\ net'[s] = R!NoCall
  BY <1>1, RSettled DEF EInv, EShape
<1>4. /\ DOMAIN hist' = {"faulty", "stale", "seen"} /\ hist'.faulty = b
      /\ hist'.stale = hist.stale /\ hist'.seen = told.saves
  BY <1>1 DEF EInv, EShape
<1>5. DOMAIN ui' = EFields /\ ui'.axes = told.rows /\ ui'.form = ui.form /\ ui'.pending = ui.pending
  BY <1>1 DEF EInv, EShape, EFields
<1>6. EShape'
  BY <1>1, <1>2, <1>3, <1>4, <1>5 DEF EInv, EShape, ESlot, Only
<1>7. EAnswers' = EAnswers \ {s} /\ \A t \in EAnswers \ {s} : net'[t] = net[t]
  BY <1>3, EIdle DEF EAnswers, Only
<1>8. EIds'
  <2>1. EKnown' \subseteq EKnown
    BY <1>1, <1>5, <1>7 DEF EKnown
  <2> QED
    BY <1>1, <2>1, EIdsStay DEF EInv
<1>9. EFinite'
  BY <1>1, <1>5, <1>7 DEF EInv, EFinite
<1>10. EAlone'
  BY <1>1, <1>3, <1>4, EIdle DEF EInv, EAlone, Only
<1>11. ESeen'
  <2> SUFFICES ASSUME ~b PROVE ESeen'
    BY <1>4 DEF ESeen
  <2>1. /\ \A t \in R!Slots : net[t].st # "failed"
        /\ \A t \in EAnswers : /\ net[t].ans.saves \in 0 .. db.saves
                               /\ net[t].ans.saves = db.saves => net[t].ans.rows = db.rows
        /\ hist.seen \in 0 .. db.saves
        /\ hist.seen = db.saves \/ \E t \in R!Slots : EComes(t)
    BY <1>2 DEF EInv, ESeen
  <2>2. told.saves \in 0 .. db.saves /\ (told.saves = db.saves => told.rows = db.rows)
    BY <1>1, <2>1
  <2>3. ASSUME told.saves # db.saves PROVE \E t \in R!Slots : EComes(t)'
    <3>1. hist.seen # db.saves
      BY <1>2, <2>1, <2>2, <2>3 DEF EInv, EShape
    <3>2. PICK t \in R!Slots : EComes(t)
      BY <2>1, <3>1
    <3>3. t # s
      BY <1>1, <2>3, <3>2 DEF EComes, EAnswers
    <3> QED
      BY <1>1, <1>3, <3>2, <3>3 DEF EComes, Only
  <2>4. \A t \in R!Slots : net'[t].st # "failed"
    BY <1>3, <2>1, EIdle DEF Only
  <2>5. \A t \in EAnswers' : /\ net'[t].ans.saves \in 0 .. db'.saves
                             /\ net'[t].ans.saves = db'.saves => net'[t].ans.rows = db'.rows
    BY <1>1, <1>7, <2>1
  <2> HIDE DEF told
  <2> QED
    BY <1>1, <1>4, <1>5, <2>2, <2>3, <2>4, <2>5 DEF ESeen
<1> QED
  BY <1>6, <1>8, <1>9, <1>10, <1>11 DEF EInv

LEMMA EFailedKeeps ==
    ASSUME EInv, NEW s \in R!Slots, Grid!Failed(s)
    PROVE  EInv'
<1>1. net[s].st = "failed" /\ db' = db /\ hist' = hist /\ R!Settle(s)
  BY ELinks DEF Grid!Failed
<1>2. RNet' /\ Only(s) /\ net'[s] = R!NoCall
  BY <1>1, RSettled DEF EInv, EShape
<1>3. DOMAIN ui' = EFields /\ ui'.axes = ui.axes /\ ui'.pending = ui.pending /\ ui'.form = ui.form
  BY EFlags DEF EInv, EShape
<1>4. EShape'
  BY <1>1, <1>2, <1>3 DEF EInv, EShape, ESlot, Only
<1>5. EAnswers' = EAnswers /\ \A t \in EAnswers : net'[t] = net[t]
  BY <1>1, <1>2, EIdle DEF EAnswers, Only
<1>6. EIds'
  <2>1. EKnown' \subseteq EKnown
    BY <1>1, <1>3, <1>5 DEF EKnown
  <2> QED
    BY <1>1, <2>1, EIdsStay DEF EInv
<1>7. EFinite'
  BY <1>1, <1>3, <1>5 DEF EInv, EFinite
<1>8. EAlone'
  BY <1>1, <1>2, EIdle DEF EInv, EAlone, Only
<1>9. ESeen'
  BY <1>1 DEF EInv, ESeen
<1> QED
  BY <1>4, <1>6, <1>7, <1>8, <1>9 DEF EInv

LEMMA EInit ==
    ASSUME Grid!Init, IsFiniteSet(Names)
    PROVE  EInv
<1> DEFINE q(start) == Grid!SetToSeq(start)
           row(start, i) == [id |-> <<0, i>>, l |-> q(start)[i]]
<1>1. PICK start \in SUBSET Names :
        LET rows == {row(start, i) : i \in DOMAIN q(start)}
        IN  /\ db = [rows |-> rows, saves |-> 0]
            /\ ui = [axes |-> rows, form |-> Grid!Blank, pending |-> Grid!None, import |-> FALSE,
                     busy |-> FALSE, busyImport |-> FALSE]
  BY DEF Grid!Init
<1> DEFINE n0 == Cardinality(start)
           rows == {row(start, i) : i \in 1 .. n0}
           f == [i \in 1 .. n0 |-> row(start, i)]
<1>2. IsFiniteSet(start)
  BY FS_Subset
<1>3. n0 \in Nat /\ DOMAIN q(start) = 1 .. n0
  <2>1. n0 \in Nat /\ \E g \in [1 .. n0 -> start] : Grid!IsInjective(g)
    BY <1>2, FS_CardinalityType DEF ExistsBijection, Bijection, Injection, IsInjective, Grid!IsInjective
  <2> QED
    BY <2>1, ECount DEF Grid!SetToSeq
<1>4. /\ \A i \in 1 .. n0 : DOMAIN row(start, i) = {"id", "l"} /\ row(start, i).id = <<0, i>> /\ i \in Nat
  BY <1>3
<1>5. /\ DOMAIN db = {"rows", "saves"} /\ db.saves = 0 /\ db.rows = rows
      /\ DOMAIN ui = EFields /\ ui.axes = rows /\ ui.form = Grid!Blank /\ ui.pending = Grid!None
  BY <1>1, <1>3 DEF EFields
<1> HIDE DEF row, n0
<1>6. IsFiniteSet(rows)
  <2>1. f \in Surjection(1 .. n0, rows)
    BY DEF Surjection
  <2>2. IsFiniteSet(1 .. n0)
    BY <1>3, FS_Interval
  <2> QED
    BY <2>1, <2>2, FS_Surjection
<1>7. /\ \A x \in rows : DOMAIN x = {"id", "l"} /\ x.id \in Nat \X Nat /\ x.id[1] = 0
      /\ \A x, y \in rows : x.id = y.id => x = y
  <2>1. \A i, j \in 1 .. n0 : row(start, i).id = row(start, j).id => i = j
    BY <1>4
  <2> QED
    BY <1>4, <2>1
<1> HIDE DEF rows
<1>8. DOMAIN Grid!Blank = {"open", "axis"} /\ Grid!Blank.axis = Grid!None
  BY DEF Grid!Blank
<1>9. /\ net = R!NoCalls /\ DOMAIN hist = {"faulty", "stale", "seen"}
      /\ hist.faulty = FALSE /\ hist.stale = FALSE /\ hist.seen = 0
  BY DEF Grid!Init, Grid!NoCalls, R!NoCalls, Grid!Slots, R!Slots, Grid!NoCall, R!NoCall
<1>10. RNet /\ \A s \in R!Slots : net[s] = R!NoCall
  BY <1>9 DEF RNet, RShape, R!NoCalls
<1>11. EAnswers = {} /\ EKnown = rows
  BY <1>5, <1>8, <1>10, EIdle DEF EAnswers, EKnown
<1>12. EShape
  <2>1. \A s \in R!Slots : ESlot(net[s])
    BY <1>10 DEF ESlot
  <2>2. hist.faulty \in BOOLEAN /\ hist.stale \in BOOLEAN
    BY <1>9
  <2> QED
    BY <1>5, <1>8, <1>9, <1>10, <2>1, <2>2 DEF EShape
<1>13. EIds
  BY <1>5, <1>7, <1>11 DEF EIds
<1>14. EFinite
  BY <1>5, <1>6, <1>11 DEF EFinite
<1>15. EAlone
  BY <1>10, EIdle DEF EAlone
<1>16. ESeen
  BY <1>5, <1>9, <1>10, <1>11, EIdle DEF ESeen
<1> QED
  BY <1>12, <1>13, <1>14, <1>15, <1>16 DEF EInv

LEMMA EStep ==
    ASSUME EInv, [Grid!Next]_Grid!vars
    PROVE  EInv'
<1>1. CASE UNCHANGED Grid!vars
  <2>1. net' = net /\ ui' = ui /\ db' = db /\ hist' = hist
    BY <1>1 DEF Grid!vars
  <2>2. EInv <=> EInv'
    BY <2>1 DEF EInv, EShape, RNet, EIds, EKnown, EAnswers, EFinite, EAlone, ESeen, EComes
  <2> QED
    BY <2>2
<1>2. CASE Grid!User
  BY <1>2, EFormKeeps, ESavesKeep DEF Grid!User
<1>3. ASSUME NEW s \in R!Slots, Grid!Serve(s) \/ Grid!Settles(s) \/ Grid!Fail(s)
      PROVE  EInv'
  BY <1>3, EDeleteKeeps, ECommitKeeps, EReadKeeps, ESavedKeeps, ELoadedKeeps, EFailedKeeps, EFailKeeps
     DEF Grid!Serve, Grid!Settles
<1> QED
  BY <1>1, <1>2, <1>3, ELinks DEF Grid!Next

\* Only a commit makes a held replacement done.
LEMMA EOwn ==
    ASSUME EInv, Grid!Next, NEW s \in R!Slots, ~hist.stale
    PROVE  Grid!OnlyItsOwn(s)
<1> SUFFICES ASSUME net[s].op = "set", net[s].st = "hold", net'[s].st = "done"
             PROVE  \A l \in Names \ net[s].changes : Grid!Copies(l, db.rows) = Grid!Copies(l, db'.rows)
  BY DEF Grid!OnlyItsOwn, Grid!At
<1>1. RNet /\ net[s] # R!NoCall
  BY EIdle DEF EInv, EShape
<1>2. ASSUME NEW t \in R!Slots, Only(t), t # s PROVE FALSE
  BY <1>2 DEF Only
<1>3. CASE Grid!User
  <2>1. ASSUME NEW via, NEW labels, NEW changes, Grid!Save(via, labels, changes)
        PROVE  FALSE
    <3> DEFINE r == [op |-> "set", via |-> via, axes |-> labels, snap |-> {}, changes |-> changes]
    <3>1. R!Send(r) /\ "op" \in DOMAIN r /\ {"st", "mine"} \cap DOMAIN r = {}
      BY <2>1, ELinks DEF Grid!Save
    <3> HIDE DEF r
    <3>2. PICK t \in R!Slots : Only(t) /\ net[t] = R!NoCall
      BY <1>1, <3>1, RSent
    <3> QED
      BY <1>1, <1>2, <3>2
  <2>2. net' = net
    BY <1>3, <2>1
       DEF Grid!User, Grid!OpenAdd, Grid!CloseForm, Grid!CancelDelete, Grid!OpenImport, Grid!CloseImport,
           Grid!OpenEdit, Grid!AskDelete, Grid!ConfirmDelete, Grid!SubmitForm, Grid!SubmitImport
  <2> QED
    BY <2>2
<1>4. ASSUME NEW t \in R!Slots, Grid!Serve(t) \/ Grid!Settles(t) \/ Grid!Fail(t)
      PROVE  t = s /\ Grid!Commit(s)
  <2>1. Only(t)
    <3>1. ASSUME NEW q, net' = [net EXCEPT ![t] = q] PROVE Only(t)
      BY <1>1, <3>1 DEF RNet, Only
    <3>2. CASE Grid!Delete(t) \/ Grid!Hold(t)
      BY <1>1, <3>2 DEF RNet, Only, Grid!Delete, Grid!Hold
    <3>3. CASE Grid!Commit(t) \/ Grid!Read(t)
      BY <1>1, <3>3, ELinks DEF RNet, Only, Grid!Commit, Grid!Read, R!Answer
    <3>4. CASE Grid!Saved(t) \/ Grid!Loaded(t) \/ Grid!Failed(t)
      BY <3>1, <3>4, ELinks DEF Grid!Saved, Grid!Loaded, Grid!Failed, R!Follow, R!Settle
    <3>5. CASE Grid!Fail(t)
      BY <1>1, <3>5, ELinks DEF RNet, Only, Grid!Fail, R!Throw
    <3> QED
      BY <1>4, <3>2, <3>3, <3>4, <3>5 DEF Grid!Serve, Grid!Settles
  <2>2. t = s
    BY <1>2, <2>1
  <2>3. ~Grid!Delete(s) /\ ~Grid!Hold(s) /\ ~Grid!Read(s) /\ ~Grid!Saved(s) /\ ~Grid!Loaded(s) /\ ~Grid!Failed(s)
        /\ ~Grid!Fail(s)
    BY DEF Grid!Delete, Grid!Hold, Grid!Read, Grid!Saved, Grid!Loaded, Grid!Failed, Grid!Fail, Grid!At
  <2> QED
    BY <1>4, <2>2, <2>3 DEF Grid!Serve, Grid!Settles
<1>5. CASE Grid!Commit(s)
  <2>1. db'.rows = (db.rows \ net[s].snap) \cup Grid!NewRows(s)
    BY <1>5 DEF Grid!Commit
  <2>2. net[s].snap = db.rows
        /\ \A l \in Names \ net[s].changes : Named(net[s].axes, l) = Grid!Copies(l, db.rows)
    BY DEF EInv, EAlone
  <2>3. db'.rows = Grid!NewRows(s)
    BY <2>1, <2>2
  <2>4. \A l : Grid!Copies(l, Grid!NewRows(s)) = Named(net[s].axes, l)
    BY ENewRows
  <2> QED
    BY <2>2, <2>3, <2>4
<1> QED
  BY <1>3, <1>4, <1>5, ELinks DEF Grid!Next

GridInv == screen = "grid" => EInv

LEMMA GridStep ==
    ASSUME GridInv, [Next]_vars
    PROVE  GridInv'
<1>1. screen' = screen
  BY DEF Next, vars
<1>2. screen = "grid" => [Grid!Next]_Grid!vars
  BY DEF Next, vars, Grid!vars
<1> QED
  BY <1>1, <1>2, EStep DEF GridInv

\* Axes of the grid that are added, changed, removed or imported one at a time
\* from the current list: the replacement the server commits leaves every other
\* axis as it was, none lost, doubled or back again.
THEOREM OthersStay == Spec => OneAtATime
<1> DEFINE Own == screen = "grid" => \A s \in DOMAIN net : ~hist.stale => Grid!OnlyItsOwn(s)
<1>1. Init => GridInv
  BY ScreensAssumption, EInit DEF Init, GridInv, ScreensAssumption
<1>2. GridInv /\ [Next]_vars => [Own]_vars
  <2>1. ASSUME GridInv, Next, screen = "grid" PROVE Own
    <3>1. Grid!Next
      BY <2>1 DEF Next
    <3>2. DOMAIN net = R!Slots
      BY <2>1 DEF GridInv, EInv, EShape, RNet
    <3> QED
      BY <2>1, <3>1, <3>2, EOwn DEF GridInv
  <2> QED
    BY <2>1
<1>3. GridInv /\ [Next]_vars => GridInv'
  BY GridStep
<1> QED
  BY <1>1, <1>2, <1>3, PTL DEF Spec, OneAtATime

-----------------------------------------------------------------------------
(* A page that keeps one part of the server's row and has it loaded again  *)
(* after each change: W are the changes, ver counts them in the row, val   *)
(* is the part, at where the page keeps it, off what a run is excused by.  *)
VAnswers == {s \in R!Slots : net[s].op = "load" /\ net[s].st = "done"}
VComes(W, ver, s) ==
    \/ net[s].op \in W /\ net[s].st = "done"
    \/ net[s].op = "load" /\ (net[s].st = "sent" \/ (net[s].st = "done" /\ net[s].ans[ver] = db[ver]))
VSeen(W, ver, val, at, off) ==
    hist[off] \/
        /\ \A s \in R!Slots : /\ net[s].st # "failed"
                              /\ net[s].op = "load" => ("ans" \in DOMAIN net[s] <=> net[s].st = "done")
        /\ \A s \in VAnswers : /\ net[s].ans[ver] \in 0 .. db[ver]
                               /\ net[s].ans[ver] = db[ver] => net[s].ans[val] = db[val]
        /\ \/ hist.seen = db[ver] /\ ui[at] = db[val]
           \/ \E s \in R!Slots : VComes(W, ver, s)
VInv(W, ver, val, at, off) == RNet /\ db[ver] \in Nat /\ VSeen(W, ver, val, at, off)

\* A request that stays what it is to the page, and one that comes to be
\* something else than an answer.
VSame(t) ==
    /\ net'[t].op = net[t].op /\ net'[t].st = net[t].st /\ DOMAIN net'[t] = DOMAIN net[t]
    /\ "ans" \in DOMAIN net[t] => net'[t].ans = net[t].ans
VOther(W, ver, t) ==
    /\ net'[t].st # "failed"
    /\ net'[t].op = "load" => net'[t].st = "sent" /\ "ans" \notin DOMAIN net'[t]
    /\ VComes(W, ver, t) => VComes(W, ver, t)'

LEMMA VFrame ==
    ASSUME NEW W, NEW ver, NEW val, NEW at, NEW off, VInv(W, ver, val, at, off), RNet',
           db'[ver] = db[ver], db'[val] = db[val], ui'[at] = ui[at], hist'.seen = hist.seen,
           hist[off] => hist'[off],
           hist'[off] \/ \A t \in R!Slots : VSame(t) \/ VOther(W, ver, t)
    PROVE  VInv(W, ver, val, at, off)'
<1>1. CASE hist'[off]
  BY <1>1 DEF VInv, VSeen
<1>2. CASE ~hist'[off]
  <2>1. ~hist[off] /\ \A t \in R!Slots : VSame(t) \/ VOther(W, ver, t)
    BY <1>2
  <2>2. \A t \in R!Slots : /\ net'[t].st # "failed"
                           /\ net'[t].op = "load" => ("ans" \in DOMAIN net'[t] <=> net'[t].st = "done")
    BY <2>1 DEF VInv, VSeen, VSame, VOther
  <2>3. \A t \in VAnswers' : t \in VAnswers /\ net'[t].ans = net[t].ans
    BY <2>1, <2>2 DEF VInv, VSeen, VAnswers, VSame, VOther
  <2>4. \A t \in R!Slots : VComes(W, ver, t) => VComes(W, ver, t)'
    BY <2>1 DEF VInv, VSeen, VSame, VOther, VComes
  <2> QED
    BY <2>1, <2>2, <2>3, <2>4 DEF VInv, VSeen
<1> QED
  BY <1>1, <1>2

\* The server has done a change, and counted it.
LEMMA VWritten ==
    ASSUME NEW W, NEW ver, NEW val, NEW at, NEW off, VInv(W, ver, val, at, off), RNet', "load" \notin W,
           NEW s \in R!Slots, Only(s), net'[s].op \in W, net'[s].st = "done",
           db'[ver] = db[ver] + 1, hist' = hist
    PROVE  VInv(W, ver, val, at, off)'
<1>1. db[ver] \in Nat /\ db'[ver] \in Nat
  BY DEF VInv
<1>2. VComes(W, ver, s)'
  BY DEF VComes
<1>3. VAnswers' \subseteq VAnswers \ {s} /\ \A t \in VAnswers' : net'[t] = net[t]
  BY DEF VAnswers, Only
<1>4. ~hist[off] => /\ \A t \in R!Slots : /\ net'[t].st # "failed"
                                          /\ net'[t].op = "load" => ("ans" \in DOMAIN net'[t] <=> net'[t].st = "done")
                    /\ \A t \in VAnswers' : net'[t].ans[ver] \in 0 .. db'[ver] /\ net'[t].ans[ver] # db'[ver]
  <2>1. ~hist[off] => \A t \in R!Slots :
            /\ net'[t].st # "failed"
            /\ net'[t].op = "load" => ("ans" \in DOMAIN net'[t] <=> net'[t].st = "done")
    BY DEF VInv, VSeen, Only
  <2>2. ~hist[off] => \A t \in VAnswers : net[t].ans[ver] \in 0 .. db[ver]
    BY DEF VInv, VSeen
  <2>3. ~hist[off] => \A t \in VAnswers' : net'[t].ans[ver] \in 0 .. db'[ver] /\ net'[t].ans[ver] # db'[ver]
    BY <1>1, <1>3, <2>2
  <2> QED
    BY <2>1, <2>3
<1> QED
  BY <1>1, <1>2, <1>4 DEF VInv, VSeen

\* The server reads the row.
LEMMA VRead ==
    ASSUME NEW W, NEW ver, NEW val, NEW at, NEW off, VInv(W, ver, val, at, off), "load" \notin W,
           NEW s \in R!Slots, NEW row, net[s].op = "load", net[s].st = "sent", R!Answer(s, row),
           row[ver] = db[ver], row[val] = db[val], db' = db, hist' = hist, ui' = ui
    PROVE  VInv(W, ver, val, at, off)'
<1>1. net[s] # R!NoCall /\ {"op", "st", "mine"} \subseteq DOMAIN net[s]
  BY DEF VInv, RNet, RShape, R!NoCall
<1>2. /\ RNet' /\ Only(s) /\ DOMAIN net'[s] = DOMAIN net[s] \cup {"ans"} /\ net'[s].st = "done"
      /\ \A f \in DOMAIN net[s] \ {"st"} : net'[s][f] = net[s][f]
      /\ "ans" \notin DOMAIN net[s] => net'[s].ans = row
  BY <1>1, RAnswered DEF VInv
<1>3. CASE hist[off]
  BY <1>2, <1>3 DEF VInv, VSeen
<1>4. CASE ~hist[off]
  <2>1. net'[s].op = "load" /\ net'[s].ans = row
    BY <1>1, <1>2, <1>4 DEF VInv, VSeen
  <2>2. \A t \in R!Slots : /\ net'[t].st # "failed"
                           /\ net'[t].op = "load" => ("ans" \in DOMAIN net'[t] <=> net'[t].st = "done")
    BY <1>2, <1>4, <2>1 DEF VInv, VSeen, Only
  <2>3. \A t \in VAnswers' \ {s} : t \in VAnswers /\ net'[t] = net[t]
    BY <1>2 DEF VAnswers, Only
  <2>4. \A t \in VAnswers' : /\ net'[t].ans[ver] \in 0 .. db'[ver]
                             /\ net'[t].ans[ver] = db'[ver] => net'[t].ans[val] = db'[val]
    <3>1. ASSUME NEW t \in VAnswers', t # s
          PROVE  /\ net'[t].ans[ver] \in 0 .. db'[ver]
                 /\ net'[t].ans[ver] = db'[ver] => net'[t].ans[val] = db'[val]
      BY <1>4, <2>3, <3>1 DEF VInv, VSeen
    <3>2. net'[s].ans[ver] \in 0 .. db'[ver] /\ net'[s].ans[val] = db'[val]
      BY <2>1 DEF VInv
    <3> QED
      BY <3>1, <3>2
  <2>5. \A t \in R!Slots : VComes(W, ver, t) => VComes(W, ver, t)'
    BY <1>2, <2>1 DEF VComes, Only
  <2> QED
    BY <1>2, <1>4, <2>2, <2>4, <2>5 DEF VInv, VSeen
<1> QED
  BY <1>3, <1>4

\* The page takes an answer; one older than what it has seen is an excuse.
LEMMA VLoaded ==
    ASSUME NEW W, NEW ver, NEW val, NEW at, NEW off, VInv(W, ver, val, at, off), "load" \notin W,
           NEW s \in R!Slots, net[s].op = "load", net[s].st = "done", R!Settle(s), db' = db,
           ui'[at] = net[s].ans[val], hist'.seen = net[s].ans[ver],
           hist'[off] <=> (hist[off] \/ net[s].ans[ver] < hist.seen)
    PROVE  VInv(W, ver, val, at, off)'
<1>1. RNet' /\ Only(s) /\ net'[s].op = "none" /\ net'[s].st = "idle"
  BY RSettled DEF VInv, R!NoCall
<1>2. CASE hist'[off]
  BY <1>1, <1>2 DEF VInv, VSeen
<1>3. CASE ~hist'[off]
  <2>1. ~hist[off] /\ ~(net[s].ans[ver] < hist.seen) /\ s \in VAnswers
    BY <1>3 DEF VAnswers
  <2>2. \A t \in R!Slots : /\ net'[t].st # "failed"
                           /\ net'[t].op = "load" => ("ans" \in DOMAIN net'[t] <=> net'[t].st = "done")
    BY <1>1, <2>1 DEF VInv, VSeen, Only
  <2>3. \A t \in VAnswers' : t \in VAnswers /\ net'[t] = net[t]
    BY <1>1 DEF VAnswers, Only
  <2>4. \/ hist'.seen = db'[ver] /\ ui'[at] = db'[val]
        \/ \E t \in R!Slots : VComes(W, ver, t)'
    <3>1. net[s].ans[ver] \in 0 .. db[ver] /\ (net[s].ans[ver] = db[ver] => net[s].ans[val] = db[val])
      BY <2>1 DEF VInv, VSeen
    <3>2. CASE net[s].ans[ver] = db[ver]
      BY <3>1, <3>2
    <3>3. CASE net[s].ans[ver] # db[ver]
      <4>1. db[ver] \in Nat /\ hist.seen # db[ver]
        BY <2>1, <3>1, <3>3 DEF VInv
      <4>2. PICK t \in R!Slots : VComes(W, ver, t)
        BY <2>1, <4>1 DEF VInv, VSeen
      <4>3. t # s
        BY <3>3, <4>2 DEF VComes
      <4>4. net'[t] = net[t]
        BY <1>1, <4>3 DEF Only
      <4> QED
        BY <4>2, <4>4 DEF VComes
    <3> QED
      BY <3>2, <3>3
  <2> QED
    BY <1>1, <2>1, <2>2, <2>3, <2>4 DEF VInv, VSeen
<1> QED
  BY <1>2, <1>3

\* Once nothing is under way the page has what the server has.
LEMMA VQuiet ==
    ASSUME NEW W, NEW ver, NEW val, NEW at, NEW off, VInv(W, ver, val, at, off), "none" \notin W,
           \A s \in R!Slots : net[s] = R!NoCall, ~hist[off]
    PROVE  ui[at] = db[val]
BY DEF VInv, VSeen, VComes, R!NoCall

\* A request is sent, or the page hears of something else than an answer.
LEMMA VSent ==
    ASSUME NEW W, NEW ver, NEW val, NEW at, NEW off, VInv(W, ver, val, at, off), "none" \notin W,
           NEW r, R!Send(r), "op" \in DOMAIN r, {"st", "mine", "ans"} \cap DOMAIN r = {},
           db' = db, ui'[at] = ui[at], hist'.seen = hist.seen, hist[off] => hist'[off]
    PROVE  VInv(W, ver, val, at, off)'
<1>1. /\ RNet'
      /\ \E s \in R!Slots :
            /\ Only(s) /\ net[s] = R!NoCall /\ DOMAIN net'[s] = DOMAIN r \cup {"st", "mine"}
            /\ net'[s].st = "sent"
  BY RSent DEF VInv
<1>2. \A t \in R!Slots : VSame(t) \/ VOther(W, ver, t)
  BY <1>1 DEF VSame, VOther, VComes, Only, R!NoCall
<1> QED
  BY <1>1, <1>2, VFrame

\* A request is over that no answer of the page was asked with.
LEMMA VSettled ==
    ASSUME NEW W, NEW ver, NEW val, NEW at, NEW off, VInv(W, ver, val, at, off), "none" \notin W,
           NEW s \in R!Slots, R!Settle(s), ~VComes(W, ver, s) \/ hist'[off],
           db' = db, ui'[at] = ui[at], hist'.seen = hist.seen, hist[off] => hist'[off]
    PROVE  VInv(W, ver, val, at, off)'
<1>1. RNet' /\ Only(s) /\ net'[s].op = "none" /\ net'[s].st = "idle"
  BY RSettled DEF VInv, R!NoCall
<1>2. hist'[off] \/ \A t \in R!Slots : VSame(t) \/ VOther(W, ver, t)
  BY <1>1 DEF VSame, VOther, Only
<1> QED
  BY <1>1, <1>2, VFrame

\* It is over, and the page is loaded again.
LEMMA VFollowed ==
    ASSUME NEW W, NEW ver, NEW val, NEW at, NEW off, VInv(W, ver, val, at, off), "none" \notin W,
           NEW s \in R!Slots, NEW r, R!Follow(s, r), r.op = "load", DOMAIN r = {"op"},
           db' = db, ui'[at] = ui[at], hist'.seen = hist.seen, hist[off] => hist'[off]
    PROVE  VInv(W, ver, val, at, off)'
<1>1. /\ RNet' /\ Only(s) /\ DOMAIN net'[s] = DOMAIN r \cup {"st", "mine"}
      /\ net'[s].st = "sent" /\ \A f \in DOMAIN r : net'[s][f] = r[f]
  <2>1. "op" \in DOMAIN r /\ {"st", "mine"} \cap DOMAIN r = {}
    OBVIOUS
  <2> QED
    BY <2>1, RFollowed DEF VInv
<1>2. net'[s].op = "load" /\ "ans" \notin DOMAIN net'[s]
  BY <1>1
<1>3. \A t \in R!Slots : VSame(t) \/ VOther(W, ver, t)
  BY <1>1, <1>2 DEF VSame, VOther, VComes, Only
<1> QED
  BY <1>1, <1>3, VFrame

\* An answer to something the page does not wait for.
LEMMA VAnswered ==
    ASSUME NEW W, NEW ver, NEW val, NEW at, NEW off, VInv(W, ver, val, at, off), "load" \notin W,
           NEW s \in R!Slots, NEW w, R!Answer(s, w), net[s].st # "idle", net[s].op # "load",
           db'[ver] = db[ver], db'[val] = db[val], ui'[at] = ui[at], hist' = hist
    PROVE  VInv(W, ver, val, at, off)'
<1>1. net[s] # R!NoCall /\ {"op", "st", "mine"} \subseteq DOMAIN net[s]
  BY DEF VInv, RNet, RShape, R!NoCall
<1>2. RNet' /\ Only(s) /\ net'[s].st = "done" /\ net'[s].op = net[s].op
  BY <1>1, RAnswered DEF VInv
<1>3. \A t \in R!Slots : VSame(t) \/ VOther(W, ver, t)
  BY <1>2 DEF VSame, VOther, VComes, Only
<1> QED
  BY <1>2, <1>3, VFrame

\* The server answers a change.
LEMMA VPut ==
    ASSUME NEW W, NEW ver, NEW val, NEW at, NEW off, VInv(W, ver, val, at, off), "load" \notin W, "none" \notin W,
           NEW s \in R!Slots, NEW w, R!Answer(s, w), net[s].op \in W,
           db'[ver] = db[ver] + 1, hist' = hist
    PROVE  VInv(W, ver, val, at, off)'
<1>1. net[s] # R!NoCall /\ {"op", "st", "mine"} \subseteq DOMAIN net[s]
  BY DEF VInv, RNet, RShape, R!NoCall
<1>2. RNet' /\ Only(s) /\ net'[s].st = "done" /\ net'[s].op = net[s].op
  BY <1>1, RAnswered DEF VInv
<1> QED
  BY <1>2, VWritten

\* A page that goes leaves its requests as they are.
LEMMA VOrphans ==
    ASSUME RNet, net' = net \/ net' = R!Orphaned
    PROVE  RNet' /\ \A t \in R!Slots : VSame(t)
<1>1. CASE net' = net
  BY <1>1 DEF RNet, VSame
<1>2. CASE net' = R!Orphaned
  <2>1. RNet' /\ \A s \in R!Slots :
                 /\ net'[s] = R!NoCall <=> net[s] = R!NoCall
                 /\ net[s] # R!NoCall =>
                       /\ net'[s].mine = FALSE /\ DOMAIN net'[s] = DOMAIN net[s]
                       /\ \A f \in DOMAIN net[s] \ {"mine"} : net'[s][f] = net[s][f]
    BY <1>2, ROrphaned
  <2>2. \A s \in R!Slots : net[s] = R!NoCall \/ {"op", "st", "mine"} \subseteq DOMAIN net[s]
    BY DEF RNet, RShape
  <2> QED
    BY <2>1, <2>2 DEF VSame
<1> QED
  BY <1>1, <1>2

\* Part of the page goes, with the requests that are its own.
LEMMA VPartly ==
    ASSUME RNet, net' = net \/ (/\ DOMAIN net' = R!Slots
                                /\ \A t \in R!Slots : net'[t] = net[t] \/ net'[t] = R!Orphaned[t])
    PROVE  RNet' /\ \A t \in R!Slots : VSame(t)
<1>1. CASE net' = net
  BY <1>1 DEF RNet, VSame
<1>2. CASE net' # net
  <2>1. ASSUME NEW t \in R!Slots PROVE RShape(net'[t]) /\ VSame(t)
    <3>1. CASE net'[t] = net[t]
      BY <3>1 DEF RNet, VSame
    <3>2. CASE net'[t] # net[t]
      <4> DEFINE q == [net[t] EXCEPT !.mine = FALSE]
      <4>1. net[t] # R!NoCall /\ net'[t] = q
        BY <1>2, <3>2 DEF R!Orphaned
      <4>2. RShape(net[t]) /\ {"op", "st", "mine"} \subseteq DOMAIN net[t]
        BY <4>1 DEF RNet, RShape
      <4>3. /\ RShape(q) /\ DOMAIN q = DOMAIN net[t]
            /\ \A g \in DOMAIN net[t] \ {"mine"} : q[g] = net[t][g]
        BY <4>1, <4>2, RSet
      <4> HIDE DEF q
      <4> QED
        BY <4>1, <4>2, <4>3 DEF VSame
    <3> QED
      BY <3>1, <3>2
  <2> QED
    BY <1>2, <2>1 DEF RNet
<1> QED
  BY <1>1, <1>2
-----------------------------------------------------------------------------
(* The boundary's page.                                                    *)
BPage == VInv({"set"}, "saves", "ring", "page", "faulty")
BDom == DOMAIN db = {"ring", "saves"} /\ DOMAIN hist = {"faulty", "seen"}
BSeen == BInv /\ BPage /\ BDom

LEMMA BDrawStays ==
    ASSUME BSeen, \/ Boundary!StartEdit \/ Boundary!Cancel \/ (\E v \in Some : Boundary!AddVertex(v))
                  \/ (\E i \in DOMAIN ui.verts : Boundary!RemoveVertex(i)) \/ Boundary!Return \/ Boundary!Leave
    PROVE  BPage' /\ BDom'
<1>1. db' = db /\ hist' = hist /\ (net' = net \/ net' = R!Orphaned)
  BY BCalls DEF Boundary!StartEdit, Boundary!Cancel, Boundary!AddVertex, Boundary!RemoveVertex, Boundary!Return,
                Boundary!Leave
<1>2. ui'.page = ui.page
  <2>1. DOMAIN ui = BFields
    BY DEF BSeen, BInv, BShape
  <2>2. ASSUME NEW e, NEW v, ui' = Boundary!Effects([ui EXCEPT !.editing = e, !.verts = v]) PROVE ui'.page = ui.page
    BY <2>1, <2>2 DEF Boundary!Effects, BFields
  <2>3. ASSUME NEW v, ui' = Boundary!Effects([ui EXCEPT !.verts = v]) PROVE ui'.page = ui.page
    BY <2>1, <2>3 DEF Boundary!Effects, BFields
  <2>4. CASE Boundary!Return \/ Boundary!Leave
    BY <2>4 DEF Boundary!Return, Boundary!Leave, Boundary!Fresh
  <2> QED
    BY <2>2, <2>3, <2>4 DEF Boundary!StartEdit, Boundary!Cancel, Boundary!AddVertex, Boundary!RemoveVertex, Boundary!Set
<1>3. RNet' /\ \A t \in R!Slots : VSame(t)
  BY <1>1, VOrphans DEF BSeen, BInv
<1> QED
  BY <1>1, <1>2, <1>3, VFrame DEF BSeen, BPage, BDom

LEMMA BAskStays ==
    ASSUME BSeen, Boundary!FindParcel \/ Boundary!Save \/ Boundary!Clear
    PROVE  BPage' /\ BDom'
<1>1. db' = db /\ hist' = hist /\ ui'.page = ui.page
  BY DEF BSeen, BInv, BShape, BFields, Boundary!FindParcel, Boundary!Save, Boundary!Clear, Boundary!Put
<1>2. PICK r : R!Send(r) /\ "op" \in DOMAIN r /\ {"st", "mine", "ans"} \cap DOMAIN r = {}
  <2>1. Boundary!Send([op |-> "parcel"]) \/ \E ring : Boundary!Send([op |-> "set", ring |-> ring])
    BY DEF Boundary!FindParcel, Boundary!Save, Boundary!Clear, Boundary!Put
  <2>2. ASSUME NEW ring
        PROVE  LET r == [op |-> "set", ring |-> ring] IN "op" \in DOMAIN r /\ {"st", "mine", "ans"} \cap DOMAIN r = {}
    OBVIOUS
  <2>3. LET r == [op |-> "parcel"] IN "op" \in DOMAIN r /\ {"st", "mine", "ans"} \cap DOMAIN r = {}
    OBVIOUS
  <2> QED
    BY <2>1, <2>2, <2>3, BCalls
<1> QED
  BY <1>1, <1>2, VSent DEF BSeen, BPage, BDom

LEMMA BServeStays ==
    ASSUME BSeen, NEW s \in R!Slots, Boundary!Serve(s) \/ Boundary!Fail(s)
    PROVE  BPage' /\ BDom'
<1>1. CASE Boundary!Store(s)
  <2>1. net[s].op = "set" /\ R!Answer(s, TRUE) /\ ui' = ui /\ hist' = hist
    BY <1>1, BCalls DEF Boundary!Store, Boundary!At
  <2>2. db'.saves = db.saves + 1 /\ DOMAIN db' = {"ring", "saves"}
    BY <1>1 DEF Boundary!Store
  <2> QED
    BY <2>1, <2>2, VPut DEF BSeen, BPage, BDom
<1>2. CASE Boundary!ReadPage(s)
  BY <1>2, BCalls, VRead DEF Boundary!ReadPage, Boundary!At, BSeen, BPage, BDom
<1>3. CASE Boundary!AskService(s)
  BY <1>3, BCalls, VAnswered DEF Boundary!AskService, Boundary!At, BSeen, BPage, BDom
<1>4. CASE Boundary!Fail(s)
  <2>1. R!Throw(s) /\ net[s] # R!NoCall /\ ui' = ui /\ db' = db /\ hist' = [hist EXCEPT !.faulty = TRUE]
    BY <1>4, BCalls DEF Boundary!Fail, R!NoCall
  <2>2. RNet' /\ hist'.faulty /\ hist'.seen = hist.seen /\ DOMAIN hist' = DOMAIN hist
    BY <2>1, RThrown DEF BSeen, BInv, BDom
  <2> QED
    BY <2>1, <2>2, VFrame DEF BSeen, BPage, BDom
<1> QED
  BY <1>1, <1>2, <1>3, <1>4 DEF Boundary!Serve

LEMMA BSettlesStay ==
    ASSUME BSeen, NEW s \in R!Slots, Boundary!Settles(s)
    PROVE  BPage' /\ BDom'
<1>1. DOMAIN ui = BFields
  BY DEF BSeen, BInv, BShape
<1>2. CASE Boundary!Loaded(s)
  <2>1. /\ net[s].op = "load" /\ net[s].st = "done" /\ R!Settle(s) /\ db' = db /\ ui'.page = net[s].ans.ring
        /\ hist'.seen = net[s].ans.saves /\ DOMAIN hist' = DOMAIN hist
        /\ hist'.faulty = (hist.faulty \/ net[s].ans.saves < hist.seen)
    BY <1>1, <1>2, BCalls DEF Boundary!Loaded, Boundary!At, BSeen, BDom, BFields
  <2> QED
    BY <2>1, VLoaded DEF BSeen, BPage, BDom
<1>3. CASE Boundary!ParcelCame(s) \/ Boundary!Stored(s) \/ Boundary!Failed(s)
  <2>1. db' = db /\ hist' = hist
    BY <1>3 DEF Boundary!ParcelCame, Boundary!Stored, Boundary!Failed
  <2>2. ui'.page = ui.page
    <3>1. ASSUME NEW u, DOMAIN u = BFields, u.page = ui.page PROVE Boundary!Effects(u).page = ui.page
      BY <3>1 DEF Boundary!Effects, BFields
    <3>2. CASE Boundary!ParcelCame(s)
      <4> DEFINE u == [ui EXCEPT !.finding = FALSE, !.verts = net[s].ans, !.editing = TRUE]
      <4>1. DOMAIN u = BFields /\ u.page = ui.page
        BY <1>1 DEF BFields
      <4>2. ui' = ui \/ ui' = [ui EXCEPT !.finding = FALSE] \/ ui' = Boundary!Effects(u)
        BY <3>2 DEF Boundary!ParcelCame, Boundary!Set
      <4> HIDE DEF u
      <4> QED
        BY <1>1, <3>1, <4>1, <4>2 DEF BFields
    <3>3. CASE Boundary!Stored(s)
      <4> DEFINE u == [ui EXCEPT !.busy = FALSE, !.editing = FALSE, !.verts = <<>>]
      <4>1. DOMAIN u = BFields /\ u.page = ui.page
        BY <1>1 DEF BFields
      <4>2. ui' = ui \/ ui' = Boundary!Effects(u)
        BY <3>3 DEF Boundary!Stored, Boundary!Set
      <4> HIDE DEF u
      <4> QED
        BY <3>1, <4>1, <4>2
    <3>4. CASE Boundary!Failed(s)
      BY <1>1, <3>4 DEF Boundary!Failed, BFields
    <3> QED
      BY <1>3, <3>2, <3>3, <3>4
  <2>3. CASE Boundary!Stored(s)
    <3>1. R!Follow(s, Boundary!Load) /\ Boundary!Load.op = "load" /\ DOMAIN Boundary!Load = {"op"}
      BY <2>3, BCalls DEF Boundary!Stored, Boundary!Load
    <3> QED
      BY <2>1, <2>2, <3>1, VFollowed DEF BSeen, BPage, BDom
  <2>4. CASE Boundary!ParcelCame(s) \/ Boundary!Failed(s)
    <3>1. R!Settle(s) /\ (net[s].st = "failed" \/ net[s].op = "parcel")
      BY <2>4, BCalls DEF Boundary!ParcelCame, Boundary!Failed, Boundary!At
    <3>2. \A W, ver : "parcel" \notin W => ~VComes(W, ver, s)
      BY <3>1 DEF VComes
    <3> QED
      BY <2>1, <2>2, <3>1, <3>2, VSettled DEF BSeen, BPage, BDom
  <2> QED
    BY <1>3, <2>3, <2>4
<1> QED
  BY <1>2, <1>3 DEF Boundary!Settles

LEMMA BSeenStep ==
    ASSUME BSeen, [Boundary!Next]_Boundary!vars
    PROVE  BSeen'
<1>1. BInv'
  BY BStep DEF BSeen
<1>2. CASE UNCHANGED Boundary!vars
  BY <1>1, <1>2 DEF BSeen, BPage, BDom, VInv, VSeen, VComes, VAnswers, Boundary!vars, RNet
<1> QED
  BY <1>1, <1>2, BCalls, BDrawStays, BAskStays, BServeStays, BSettlesStay DEF BSeen, Boundary!Next, Boundary!User

LEMMA BSeenInit ==
    ASSUME Boundary!Init
    PROVE  BSeen
<1>1. BInv /\ \A s \in R!Slots : net[s] = R!NoCall
  BY BInit, BCalls DEF Boundary!Init, Boundary!NoCalls
<1>2. db.saves = 0 /\ hist.seen = 0 /\ ui.page = db.ring /\ BDom
  BY DEF Boundary!Init, Boundary!Fresh, BDom
<1> QED
  BY <1>1, <1>2 DEF BSeen, BPage, BInv, VInv, VSeen, VAnswers, R!NoCall
-----------------------------------------------------------------------------
(* The georeference's page.                                                *)
GPage == VInv({"save"}, "changes", "v", "project", "odd")
GDom == DOMAIN db = {"v", "changes"} /\ DOMAIN hist = {"odd", "seen"}
GSeen == GInv /\ GPage /\ GDom

LEMMA GLinks ==
    /\ Georef!Slots = R!Slots /\ Georef!NoCall = R!NoCall /\ Georef!Orphaned = R!Orphaned
    /\ \A r : Georef!Send(r) <=> R!Send(r)
    /\ \A s : Georef!Settle(s) <=> R!Settle(s)
    /\ \A s, r : (Georef!Follow(s, r) <=> R!Follow(s, r)) /\ (Georef!Answer(s, r) <=> R!Answer(s, r))
BY DEF Georef!Slots, R!Slots, Georef!NoCall, R!NoCall, Georef!Orphaned, R!Orphaned, Georef!Send, R!Send,
       Georef!Settle, R!Settle, Georef!Follow, R!Follow, Georef!Answer, R!Answer,
       Georef!Asked, R!Asked, Georef!Extended, R!Extended

LEMMA GCardStays ==
    ASSUME GSeen, \/ \E v \in Names \cup {n}, slider \in BOOLEAN : Georef!Edit(v, slider)
                  \/ Georef!Reset \/ Georef!Return \/ Georef!Leave
    PROVE  GPage' /\ GDom'
<1>1. /\ db' = db /\ ui'.project = ui.project /\ DOMAIN hist' = DOMAIN hist
      /\ hist'.seen = hist.seen /\ (hist.odd => hist'.odd)
  <2>1. DOMAIN ui = GFields /\ DOMAIN hist = {"odd", "seen"}
    BY DEF GSeen, GInv, GDom
  <2>2. db' = db /\ ui'.project = ui.project
    <3>1. ASSUME NEW v, NEW b, Georef!Edit(v, b) PROVE db' = db /\ ui'.project = ui.project
      BY <2>1, <3>1 DEF GFields, Georef!Edit
    <3>2. CASE Georef!Reset
      BY <2>1, <3>2 DEF GFields, Georef!Reset
    <3>3. CASE Georef!Return
      BY <3>3 DEF Georef!Return, Georef!Card
    <3>4. CASE Georef!Leave
      BY <2>1, <3>4 DEF GFields, Georef!Leave
    <3> QED
      BY <3>1, <3>2, <3>3, <3>4
  <2>3. hist' = hist \/ Georef!Crossing
    BY DEF Georef!Edit, Georef!Reset, Georef!Return, Georef!Leave
  <2> QED
    BY <2>1, <2>2, <2>3 DEF Georef!Crossing
<1>2. net' = net \/ Georef!Leave
  BY DEF Georef!Edit, Georef!Reset, Georef!Return
<1>3. RNet' /\ \A t \in R!Slots : VSame(t)
  <2>1. CASE Georef!Leave
    <3>1. /\ DOMAIN net' = R!Slots
          /\ \A t \in R!Slots : net'[t] = IF net[t].op = "load" THEN net[t] ELSE R!Orphaned[t]
      BY <2>1, GLinks DEF Georef!Leave
    <3>2. RNet
      BY DEF GSeen, GPage, VInv
    <3> QED
      BY <3>1, <3>2, VPartly
  <2> QED
    BY <1>2, <2>1, VOrphans DEF GSeen, GPage, VInv
<1> QED
  BY <1>1, <1>3, VFrame DEF GSeen, GPage, GDom

LEMMA GAskStays ==
    ASSUME GSeen, Georef!Save \/ Georef!Reload
    PROVE  GPage' /\ GDom'
<1>1. /\ db' = db /\ ui'.project = ui.project /\ DOMAIN hist' = DOMAIN hist
      /\ hist'.seen = hist.seen /\ (hist.odd => hist'.odd)
  BY DEF GSeen, GInv, GFields, GDom, Georef!Save, Georef!Reload, Georef!Crossing
<1>2. PICK r : R!Send(r) /\ "op" \in DOMAIN r /\ {"st", "mine", "ans"} \cap DOMAIN r = {}
  <2>1. Georef!Send(Georef!Load) \/ \E v : Georef!Send([op |-> "save", v |-> v])
    BY DEF Georef!Save, Georef!Reload
  <2>2. ASSUME NEW v
        PROVE  LET r == [op |-> "save", v |-> v] IN "op" \in DOMAIN r /\ {"st", "mine", "ans"} \cap DOMAIN r = {}
    OBVIOUS
  <2>3. "op" \in DOMAIN Georef!Load /\ {"st", "mine", "ans"} \cap DOMAIN Georef!Load = {}
    BY DEF Georef!Load
  <2> QED
    BY <2>1, <2>2, <2>3, GLinks
<1> QED
  BY <1>1, <1>2, VSent DEF GSeen, GPage, GDom

LEMMA GServeStays ==
    ASSUME GSeen, NEW s \in R!Slots, Georef!Write(s) \/ Georef!Read(s)
    PROVE  GPage' /\ GDom'
<1>1. CASE Georef!Write(s)
  <2>1. net[s].op = "save" /\ R!Answer(s, TRUE) /\ ui' = ui /\ hist' = hist
    BY <1>1, GLinks DEF Georef!Write, Georef!At
  <2>2. db'.changes = db.changes + 1 /\ DOMAIN db' = {"v", "changes"}
    BY <1>1 DEF Georef!Write
  <2> QED
    BY <2>1, <2>2, VPut DEF GSeen, GPage, GDom
<1>2. CASE Georef!Read(s)
  BY <1>2, GLinks, VRead DEF Georef!Read, Georef!At, GSeen, GPage, GDom
<1> QED
  BY <1>1, <1>2

LEMMA GOddStays ==
    ASSUME GSeen, (\E v : Georef!Elsewhere(v)) \/ \E s \in R!Slots : Georef!Failed(s)
    PROVE  GPage' /\ GDom'
<1>1. hist'.odd /\ DOMAIN hist' = DOMAIN hist
  BY DEF GSeen, GDom, Georef!Elsewhere, Georef!Failed
<1>2. DOMAIN db' = DOMAIN db /\ db'.changes \in Nat
  BY DEF GSeen, GPage, VInv, GDom, Georef!Elsewhere, Georef!Failed
<1>3. RNet'
  <2>1. RNet
    BY DEF GSeen, GPage, VInv
  <2> QED
    BY <2>1, GLinks, RSettled DEF RNet, Georef!Elsewhere, Georef!Failed
<1> QED
  BY <1>1, <1>2, <1>3 DEF GSeen, GPage, GDom, VInv, VSeen

LEMMA GSettlesStay ==
    ASSUME GSeen, NEW s \in R!Slots, Georef!Saved(s) \/ Georef!Loaded(s)
    PROVE  GPage' /\ GDom'
<1>1. CASE Georef!Saved(s)
  <2>1. db' = db /\ hist' = hist /\ ui'.project = ui.project
    BY <1>1 DEF Georef!Saved, GSeen, GInv, GFields
  <2>2. R!Follow(s, Georef!Load) /\ Georef!Load.op = "load" /\ DOMAIN Georef!Load = {"op"}
    BY <1>1, GLinks DEF Georef!Saved, Georef!Load
  <2> QED
    BY <2>1, <2>2, VFollowed DEF GSeen, GPage, GDom
<1>2. CASE Georef!Loaded(s)
  <2>1. /\ net[s].op = "load" /\ net[s].st = "done" /\ R!Settle(s) /\ db' = db
        /\ hist'.seen = net[s].ans.changes /\ DOMAIN hist' = DOMAIN hist
        /\ hist'.odd = (hist.odd \/ net[s].ans.changes < hist.seen)
    BY <1>2, GLinks DEF Georef!Loaded, Georef!At, GSeen, GDom
  <2>2. ui'.project = net[s].ans.v
    <3> DEFINE v == net[s].ans.v
               u == [ui EXCEPT !.project = v]
    <3>1. DOMAIN u = GFields /\ u.project = v
      BY DEF GSeen, GInv, GFields
    <3>2. ui' = IF ui.mounted THEN Georef!Render(u) ELSE [ui EXCEPT !.project = v, !.synced = v, !.draft = v]
      BY <1>2 DEF Georef!Loaded
    <3> HIDE DEF u, v
    <3>3. ui'.project = v
      BY <3>1, <3>2 DEF GSeen, GInv, GFields, Georef!Render
    <3> QED
      BY <3>3 DEF v
  <2> QED
    BY <2>1, <2>2, VLoaded DEF GSeen, GPage, GDom
<1> QED
  BY <1>1, <1>2

LEMMA GSeenStep ==
    ASSUME GSeen, [Georef!Next]_Georef!vars
    PROVE  GSeen'
<1>1. GInv'
  BY GStep DEF GSeen
<1>2. CASE UNCHANGED Georef!vars
  BY <1>1, <1>2 DEF GSeen, GPage, GDom, VInv, VSeen, VComes, VAnswers, Georef!vars, RNet
<1> QED
  BY <1>1, <1>2, GLinks, GCardStays, GAskStays, GServeStays, GOddStays, GSettlesStay DEF GSeen, Georef!Next

LEMMA GSeenInit ==
    ASSUME Georef!Init
    PROVE  GSeen
<1>1. RNet /\ \A s \in R!Slots : net[s] = R!NoCall
  BY GLinks DEF Georef!Init, Georef!NoCalls, RNet, RShape
<1>2. GInv /\ db.changes = 0 /\ hist.seen = 0 /\ ui.project = db.v /\ GDom
  BY DEF Georef!Init, Georef!Card, GInv, GFields, GDom, Georef!EditsMarked
<1> QED
  BY <1>1, <1>2 DEF GSeen, GPage, VInv, VSeen, VAnswers, R!NoCall
-----------------------------------------------------------------------------
(* The project's page.                                                     *)
CPage == VInv({"put", "delete"}, "v", "cps", "cps", "faulty")
CDom == DOMAIN db = {"cps", "v", "solved", "count", "plan"}
CSeen == CInv /\ CPage /\ CDom

LEMMA CLinks ==
    /\ Control!Slots = R!Slots /\ Control!NoCall = R!NoCall /\ Control!Orphaned = R!Orphaned
    /\ \A r : (Control!Send(r) <=> R!Send(r)) /\ Control!Asked(r) = R!Asked(r)
    /\ \A s : (Control!Settle(s) <=> R!Settle(s)) /\ (Control!Throw(s) <=> R!Throw(s))
    /\ \A s, r : (Control!Follow(s, r) <=> R!Follow(s, r)) /\ (Control!Answer(s, r) <=> R!Answer(s, r))
BY DEF Control!Slots, R!Slots, Control!NoCall, R!NoCall, Control!Orphaned, R!Orphaned, Control!Send, R!Send,
       Control!Settle, R!Settle, Control!Throw, R!Throw, Control!Follow, R!Follow, Control!Answer, R!Answer,
       Control!Asked, R!Asked, Control!Extended, R!Extended

LEMMA CGotoStays ==
    ASSUME CSeen, NEW tab, Control!Goto(tab)
    PROVE  CPage' /\ CDom'
<1> DEFINE u == [ui EXCEPT !.tab = tab]
<1>1. DOMAIN u = CFields /\ u.cps = ui.cps
  BY DEF CSeen, CInv, CFields
<1>2. ui' = Control!Render(u) /\ hist' = [hist EXCEPT !.chosen = tab] /\ db' = db
  BY DEF Control!Goto
<1> HIDE DEF u
<1>3. ui'.cps = ui.cps
  BY <1>1, <1>2, CRendered DEF CFields
<1>4. hist'.seen = hist.seen /\ (hist.faulty <=> hist'.faulty)
  BY <1>2 DEF CSeen, CInv
<1>5. net' = net \/ (/\ DOMAIN net' = R!Slots
                     /\ \A t \in R!Slots : net'[t] = net[t] \/ net'[t] = R!Orphaned[t])
  BY CLinks DEF Control!Goto
<1>6. RNet' /\ \A t \in R!Slots : VSame(t)
  BY <1>5, VPartly DEF CSeen, CPage, VInv
<1> QED
  BY <1>2, <1>3, <1>4, <1>6, VFrame DEF CSeen, CPage, CDom

LEMMA CDialogStays ==
    ASSUME CSeen, \/ Control!CloseUpgrade \/ Control!CloseDialog \/ (\E kind, p : Control!Open(kind, p))
                  \/ (ui' = [ui EXCEPT !.upgrade = TRUE] /\ UNCHANGED <<net, db, hist>>)
    PROVE  CPage' /\ CDom'
<1>1. net' = net /\ db' = db /\ hist' = hist
  BY DEF Control!CloseUpgrade, Control!CloseDialog, Control!Open
<1>2. ui'.cps = ui.cps
  BY DEF CSeen, CInv, CFields, Control!CloseUpgrade, Control!CloseDialog, Control!Open
<1>3. RNet' /\ \A t \in R!Slots : VSame(t)
  BY <1>1, VOrphans DEF CSeen, CPage, VInv
<1> QED
  BY <1>1, <1>2, <1>3, VFrame DEF CSeen, CPage, CDom

LEMMA CAskStays ==
    ASSUME CSeen, Control!ConfirmDelete \/ Control!Solve \/ \E p, tie : Control!SubmitPoint(p, tie)
    PROVE  CPage' /\ CDom'
<1>1. db' = db /\ hist' = hist /\ ui'.cps = ui.cps
  BY DEF CSeen, CInv, CFields, Control!ConfirmDelete, Control!Solve, Control!SubmitPoint
<1>2. PICK r : R!Send(r) /\ "op" \in DOMAIN r /\ {"st", "mine", "ans"} \cap DOMAIN r = {}
  <2>1. \/ Control!Send([op |-> "solve"]) \/ \E p : Control!Send([op |-> "delete", p |-> p])
        \/ \E p, new, tie : Control!Send([op |-> "put", p |-> p, new |-> new, tie |-> tie])
    BY DEF Control!ConfirmDelete, Control!Solve, Control!SubmitPoint
  <2>2. ASSUME NEW p
        PROVE  LET r == [op |-> "delete", p |-> p] IN "op" \in DOMAIN r /\ {"st", "mine", "ans"} \cap DOMAIN r = {}
    OBVIOUS
  <2>3. ASSUME NEW p, NEW new, NEW tie
        PROVE  LET r == [op |-> "put", p |-> p, new |-> new, tie |-> tie]
               IN  "op" \in DOMAIN r /\ {"st", "mine", "ans"} \cap DOMAIN r = {}
    OBVIOUS
  <2>4. LET r == [op |-> "solve"] IN "op" \in DOMAIN r /\ {"st", "mine", "ans"} \cap DOMAIN r = {}
    OBVIOUS
  <2> QED
    BY <2>1, <2>2, <2>3, <2>4, CLinks
<1> QED
  BY <1>1, <1>2, VSent DEF CSeen, CPage, CDom

LEMMA CServeStays ==
    ASSUME CSeen, NEW s \in R!Slots, Control!Serve(s) \/ Control!Fail(s)
    PROVE  CPage' /\ CDom'
<1>1. CASE Control!Put(s) \/ Control!Delete(s)
  <2>1. net[s].op \in {"put", "delete"} /\ R!Answer(s, TRUE) /\ ui' = ui /\ hist' = hist
    BY <1>1, CLinks DEF Control!Put, Control!Delete, Control!At
  <2>2. db'.v = db.v + 1 /\ DOMAIN db' = DOMAIN db
    BY <1>1 DEF Control!Put, Control!Delete, CSeen, CDom
  <2> QED
    BY <2>1, <2>2, VPut DEF CSeen, CPage, CDom
<1>2. CASE Control!ReadTied(s)
  <2> DEFINE q == [net[s] EXCEPT !.st = "solved"]
  <2>1. net[s].op = "solve" /\ net[s].st = "sent" /\ ui' = ui /\ db' = db /\ hist' = hist
    BY <1>2 DEF Control!ReadTied, Control!At
  <2>2. RNet /\ net[s] # R!NoCall /\ RShape(net[s]) /\ {"op", "st", "mine"} \subseteq DOMAIN net[s]
    BY <2>1 DEF CSeen, CPage, VInv, RNet, RShape, R!NoCall
  <2>3. net'[s] = q /\ Only(s)
    BY <1>2, <2>2 DEF Control!ReadTied, Only, RNet
  <2>4. RShape(q) /\ q.st = "solved" /\ \A g \in DOMAIN net[s] \ {"st"} : q[g] = net[s][g]
    BY <2>2, RSet
  <2> HIDE DEF q
  <2>5. RNet' /\ net'[s].op = "solve" /\ net'[s].st = "solved"
    BY <2>1, <2>2, <2>3, <2>4 DEF RNet, Only
  <2>6. \A t \in R!Slots : VSame(t) \/ VOther({"put", "delete"}, "v", t)
    BY <2>1, <2>3, <2>5 DEF VSame, VOther, VComes, Only
  <2> QED
    BY <2>1, <2>5, <2>6, VFrame DEF CSeen, CPage, CDom
<1>3. CASE Control!StoreTransform(s)
  <2>1. /\ net[s].op = "solve" /\ net[s].st = "solved" /\ R!Answer(s, TRUE) /\ ui' = ui /\ hist' = hist
        /\ db'.v = db.v /\ db'.cps = db.cps /\ DOMAIN db' = DOMAIN db
    BY <1>3, CLinks DEF Control!StoreTransform, Control!At, CSeen, CDom
  <2> QED
    BY <2>1, VAnswered DEF CSeen, CPage, CDom
<1>4. CASE Control!ReadPage(s)
  BY <1>4, CLinks, VRead DEF Control!ReadPage, Control!At, CSeen, CPage, CDom
<1>5. CASE Control!ReadBilling(s)
  <2>1. net[s].op = "billing" /\ net[s].st = "sent" /\ R!Answer(s, db.plan) /\ ui' = ui /\ db' = db /\ hist' = hist
    BY <1>5, CLinks DEF Control!ReadBilling, Control!At
  <2> QED
    BY <2>1, VAnswered DEF CSeen, CPage, CDom
<1>6. CASE Control!Fail(s)
  <2>1. R!Throw(s) /\ net[s] # R!NoCall /\ ui' = ui /\ db' = db /\ hist' = [hist EXCEPT !.faulty = TRUE]
    BY <1>6, CLinks DEF Control!Fail, R!NoCall
  <2>2. RNet' /\ hist'.faulty /\ hist'.seen = hist.seen
    BY <2>1, RThrown DEF CSeen, CInv, CPage, VInv
  <2> QED
    BY <2>1, <2>2, VFrame DEF CSeen, CPage, CDom
<1> QED
  BY <1>1, <1>2, <1>3, <1>4, <1>5, <1>6 DEF Control!Serve

LEMMA CSettlesStay ==
    ASSUME CSeen, NEW s \in R!Slots, Control!Settles(s)
    PROVE  CPage' /\ CDom'
<1>1. DOMAIN ui = CFields /\ DOMAIN hist = {"faulty", "seen", "chosen"}
  BY DEF CSeen, CInv
<1>2. CASE Control!Loaded(s)
  <2>1. /\ net[s].op = "load" /\ net[s].st = "done" /\ R!Settle(s) /\ db' = db
        /\ hist' = [hist EXCEPT !.faulty = @ \/ net[s].ans.v < hist.seen, !.seen = net[s].ans.v]
    BY <1>2, CLinks DEF Control!Loaded, Control!At
  <2>2. hist'.seen = net[s].ans.v /\ hist'.faulty = (hist.faulty \/ net[s].ans.v < hist.seen)
    BY <1>1, <2>1
  <2>3. ui'.cps = net[s].ans.cps
    <3> DEFINE got == net[s].ans
               u == [ui EXCEPT !.loading = FALSE, !.found = TRUE, !.cps = got.cps, !.count = got.count,
                               !.solved = got.solved, !.tabPicked = TRUE,
                               !.tab = IF ui.tabPicked THEN @ ELSE IF got.solved THEN "points" ELSE "setup"]
    <3>1. DOMAIN u = CFields /\ u.cps = got.cps
      BY <1>1 DEF CFields
    <3>2. ui' = Control!Render(u)
      BY <1>2 DEF Control!Loaded
    <3> HIDE DEF u
    <3> QED
      BY <3>1, <3>2, CRendered DEF CFields
  <2> QED
    BY <2>1, <2>2, <2>3, VLoaded DEF CSeen, CPage, CDom
<1>3. CASE Control!Billed(s)
  <2>1. net[s].op = "billing" /\ R!Settle(s) /\ db' = db /\ hist' = hist
    BY <1>3, CLinks DEF Control!Billed
  <2>2. ui'.cps = ui.cps
    <3> DEFINE u == [ui EXCEPT !.plan = IF net[s].st = "done" THEN net[s].ans ELSE "none"]
    <3>1. DOMAIN u = CFields /\ u.cps = ui.cps
      BY <1>1 DEF CFields
    <3>2. ui' = Control!Render(u)
      BY <1>3 DEF Control!Billed
    <3> HIDE DEF u
    <3> QED
      BY <3>1, <3>2, CRendered DEF CFields
  <2>3. ~VComes({"put", "delete"}, "v", s)
    BY <2>1 DEF VComes
  <2> QED
    BY <2>1, <2>2, <2>3, VSettled DEF CSeen, CPage, CDom
<1>4. CASE Control!Changed(s)
  <2>1. db' = db /\ hist' = hist /\ ui'.cps = ui.cps
    BY <1>1, <1>4 DEF Control!Changed, CFields
  <2>2. R!Follow(s, Control!Load) /\ Control!Load.op = "load" /\ DOMAIN Control!Load = {"op"}
    BY <1>4, CLinks DEF Control!Changed, Control!Load
  <2> QED
    BY <2>1, <2>2, VFollowed DEF CSeen, CPage, CDom
<1>5. CASE Control!Solved(s) \/ Control!Failed(s)
  <2>1. db' = db /\ hist' = hist /\ ui'.cps = ui.cps
    BY <1>1, <1>5 DEF Control!Solved, Control!Failed, CFields
  <2>2. R!Settle(s) /\ (net[s].st = "failed" \/ net[s].op = "solve")
    BY <1>5, CLinks DEF Control!Solved, Control!Failed, Control!At
  <2>3. ~VComes({"put", "delete"}, "v", s)
    BY <2>2 DEF VComes
  <2> QED
    BY <2>1, <2>2, <2>3, VSettled DEF CSeen, CPage, CDom
<1> QED
  BY <1>2, <1>3, <1>4, <1>5 DEF Control!Settles

LEMMA CSeenStep ==
    ASSUME CSeen, [Control!Next]_Control!vars
    PROVE  CSeen'
<1>1. CInv'
  BY CStep DEF CSeen
<1>2. CASE UNCHANGED Control!vars
  BY <1>1, <1>2 DEF CSeen, CPage, CDom, VInv, VSeen, VComes, VAnswers, Control!vars, RNet
<1>3. CASE Control!User
  <2>1. \/ (\E tab : Control!Goto(tab))
        \/ Control!CloseUpgrade \/ Control!CloseDialog \/ (\E kind, p : Control!Open(kind, p))
        \/ (ui' = [ui EXCEPT !.upgrade = TRUE] /\ UNCHANGED <<net, db, hist>>)
        \/ Control!ConfirmDelete \/ Control!Solve \/ \E p, tie : Control!SubmitPoint(p, tie)
    BY <1>3 DEF Control!User, Control!ClickTab, Control!FollowChecklist
  <2> QED
    BY <1>1, <2>1, CGotoStays, CDialogStays, CAskStays DEF CSeen
<1> QED
  BY <1>1, <1>2, <1>3, CLinks, CServeStays, CSettlesStay DEF CSeen, Control!Next

LEMMA CSeenInit ==
    ASSUME Control!Init
    PROVE  CSeen
<1>1. CInv /\ db.v = 0 /\ CDom
  BY DEF Control!Init, CInv, CFields, CDom
<1> DEFINE r == Control!Load
           q == [op |-> "billing"]
<1>2. /\ "op" \in DOMAIN r /\ {"st", "mine", "ans"} \cap DOMAIN r = {} /\ r.op = "load"
      /\ "op" \in DOMAIN q /\ {"st", "mine", "ans"} \cap DOMAIN q = {} /\ q.op = "billing"
  BY DEF Control!Load
<1>3. net = [R!NoCalls EXCEPT ![1] = R!Asked(r), ![2] = R!Asked(q)]
  BY CLinks DEF Control!Init, Control!NoCalls, R!NoCalls
<1> HIDE DEF r, q
<1>4. RNet /\ \A s \in R!Slots : net[s] \in {R!NoCall, R!Asked(r), R!Asked(q)}
  BY <1>2, <1>3, RStart
<1>5. /\ R!Asked(r).op = "load" /\ R!Asked(q).op = "billing" /\ "ans" \notin DOMAIN R!Asked(r)
      /\ R!Asked(r).st = "sent" /\ R!Asked(q).st = "sent"
  <2>1. {"st", "mine"} \cap DOMAIN r = {} /\ {"st", "mine"} \cap DOMAIN q = {}
    BY <1>2
  <2>2. /\ R!Asked(r).st = "sent" /\ DOMAIN R!Asked(r) = DOMAIN r \cup {"st", "mine"} /\ R!Asked(r).op = r.op
        /\ R!Asked(q).st = "sent" /\ R!Asked(q).op = q.op
    BY <1>2, <2>1, RAsked
  <2> QED
    BY <1>2, <2>2
<1>6. /\ \A s \in R!Slots : /\ net[s].st # "failed"
                            /\ net[s].op = "load" => ("ans" \in DOMAIN net[s] <=> net[s].st = "done")
      /\ VAnswers = {}
  BY <1>4, <1>5 DEF VAnswers, R!NoCall
<1>7. \E s \in R!Slots : VComes({"put", "delete"}, "v", s)
  <2>1. 1 \in R!Slots /\ net[1] = R!Asked(r)
    BY <1>3, ScreensAssumption DEF ScreensAssumption, R!Slots, R!NoCalls
  <2> QED
    BY <1>5, <2>1 DEF VComes
<1> QED
  BY <1>1, <1>4, <1>6, <1>7 DEF CSeen, CPage, VInv, VSeen

-----------------------------------------------------------------------------
(* The page of survey points.  An answer that is not the last to come may  *)
(* show an older question: another one is under way, or the timer is.      *)
PUp == {s \in R!Slots : net[s].op = "load"}
PFresh(s) ==
    net[s].op = "load" /\ (net[s].st = "sent" \/ (net[s].st = "done" /\ net[s].ans.v = db.v))
PTold(s) ==
    /\ net[s].ans.v \in 0 .. db.v
    /\ net[s].ans.v = db.v =>
          /\ net[s].ans.rows = Points!PageOf(db, net[s].view, net[s].page)
          /\ net[s].ans.total = Points!Cardinality(Points!Filtered(db, net[s].view))
PShows ==
    /\ ui.rows = Points!PageOf(db, ui.view, ui.page)
    /\ ui.total = Points!Cardinality(Points!Filtered(db, ui.view))
PPage ==
    hist.faulty \/
        /\ db.v \in Nat /\ hist.seen \in 0 .. db.v
        /\ \A s \in PUp : /\ net[s].st \in {"sent", "done"} /\ {"view", "page"} \subseteq DOMAIN net[s]
                          /\ "ans" \in DOMAIN net[s] <=> net[s].st = "done"
                          /\ net[s].st = "done" => PTold(s)
        /\ ui.timer \/ hist.seen = db.v \/ \E s \in R!Slots : PFresh(s)
        /\ ui.timer \/ PUp # {} \/ PShows
PDom == DOMAIN hist = {"faulty", "seen", "turns"} /\ DOMAIN db = {"pts", "tagged", "members", "v"}
PSeen == PInv /\ PPage /\ PDom

\* What the table shows and what is to come for it stay.
PSlot(t) ==
    \/ net'[t] = net[t]
    \/ net[t].op # "load" /\ net'[t].op # "load"
    \/ /\ net[t].op # "load" /\ net'[t].op = "load" /\ net'[t].st = "sent"
       /\ {"view", "page"} \subseteq DOMAIN net'[t] /\ "ans" \notin DOMAIN net'[t]

LEMMA PFrame ==
    ASSUME PPage, db' = db, hist'.seen = hist.seen, hist.faulty => hist'.faulty,
           \A f \in {"rows", "total", "view", "page", "timer"} : ui'[f] = ui[f],
           hist'.faulty \/ \A t \in R!Slots : PSlot(t)
    PROVE  PPage'
<1>1. CASE hist'.faulty
  BY <1>1 DEF PPage
<1>2. CASE ~hist'.faulty
  <2>1. ~hist.faulty /\ (\A t \in R!Slots : PSlot(t)) /\ PUp \subseteq PUp'
    BY <1>2 DEF PSlot, PUp
  <2>2. \A t \in R!Slots : PFresh(t) => PFresh(t)'
    BY <2>1 DEF PFresh, PSlot
  <2>3. PShows => PShows'
    BY DEF PShows
  <2>4. ASSUME NEW t \in PUp'
        PROVE  /\ net'[t].st \in {"sent", "done"} /\ {"view", "page"} \subseteq DOMAIN net'[t]
               /\ "ans" \in DOMAIN net'[t] <=> net'[t].st = "done"
               /\ net'[t].st = "done" => PTold(t)'
    <3>1. CASE net'[t] = net[t]
      BY <2>1, <3>1 DEF PPage, PUp, PTold
    <3>2. CASE net'[t] # net[t]
      BY <2>1, <3>2 DEF PSlot, PUp
    <3> QED
      BY <3>1, <3>2
  <2> QED
    BY <2>1, <2>2, <2>3, <2>4 DEF PPage
<1> QED
  BY <1>1, <1>2

LEMMA PSlots ==
    ASSUME RNet, NEW s \in R!Slots, Only(s), PSlot(s)
    PROVE  \A t \in R!Slots : PSlot(t)
BY DEF PSlot, Only

\* A load of the table is asked for.
LEMMA PAsked ==
    ASSUME PInv, PPage, NEW u, NEW g, R!Send(Points!Load(u, g)), db' = db,
           hist'.seen = hist.seen, hist'.faulty = hist.faulty
    PROVE  PPage'
<1> DEFINE r == Points!Load(u, g)
<1>1. /\ "op" \in DOMAIN r /\ {"st", "mine"} \cap DOMAIN r = {} /\ r.op = "load" /\ {"view", "page"} \subseteq DOMAIN r
      /\ "ans" \notin DOMAIN r /\ R!Send(r)
  BY DEF Points!Load
<1> HIDE DEF r
<1>2. PICK s \in R!Slots : /\ Only(s) /\ DOMAIN net'[s] = DOMAIN r \cup {"st", "mine"}
                           /\ net'[s].st = "sent" /\ \A f \in DOMAIN r : net'[s][f] = r[f]
  BY <1>1, RSent DEF PInv, PCalls
<1>3. /\ net'[s].op = "load" /\ {"view", "page"} \subseteq DOMAIN net'[s] /\ "ans" \notin DOMAIN net'[s]
      /\ s \in PUp' /\ PFresh(s)'
  BY <1>1, <1>2 DEF PUp, PFresh
<1>4. \A t \in PUp' : t = s \/ (t \in PUp /\ net'[t] = net[t])
  BY <1>2 DEF PUp, Only
<1>5. ~hist.faulty => \A t \in PUp' :
          /\ net'[t].st \in {"sent", "done"} /\ {"view", "page"} \subseteq DOMAIN net'[t]
          /\ "ans" \in DOMAIN net'[t] <=> net'[t].st = "done"
          /\ net'[t].st = "done" => PTold(t)'
  BY <1>2, <1>3, <1>4 DEF PPage, PTold
<1> QED
  BY <1>3, <1>5 DEF PPage

\* The points change: whoever hears of it reloads, or a run is excused.
LEMMA PChanged ==
    ASSUME PPage, db'.v = db.v + 1, hist'.seen = hist.seen, hist.faulty => hist'.faulty, hist'.faulty \/ ui'.timer,
           \A t \in R!Slots : net'[t] = net[t] \/ (net[t].op # "load" /\ net'[t].op # "load")
    PROVE  PPage'
<1>1. CASE hist'.faulty
  BY <1>1 DEF PPage
<1>2. CASE ~hist'.faulty
  <2>1. ~hist.faulty /\ ui'.timer /\ db.v \in Nat /\ hist.seen \in 0 .. db.v /\ db'.v \in Nat /\ hist'.seen \in 0 .. db'.v
    BY <1>2 DEF PPage
  <2>2. \A t \in PUp' : t \in PUp /\ net'[t] = net[t]
    BY DEF PUp
  <2>3. ASSUME NEW t \in PUp', net'[t].st = "done"
        PROVE  PTold(t)'
    <3>1. net'[t] = net[t] /\ net[t].ans.v \in 0 .. db.v
      BY <2>1, <2>2, <2>3 DEF PPage, PTold
    <3>2. net'[t].ans.v \in 0 .. db'.v /\ net'[t].ans.v # db'.v
      BY <2>1, <3>1
    <3> QED
      BY <3>2 DEF PTold
  <2>4. \A t \in PUp' : /\ net'[t].st \in {"sent", "done"} /\ {"view", "page"} \subseteq DOMAIN net'[t]
                        /\ "ans" \in DOMAIN net'[t] <=> net'[t].st = "done"
    BY <2>1, <2>2 DEF PPage
  <2> QED
    BY <2>1, <2>3, <2>4 DEF PPage
<1> QED
  BY <1>1, <1>2

\* Something else than a load is asked for.
LEMMA PAside ==
    ASSUME PInv, PPage, NEW r, R!Send(r) \/ net' = net, "op" \in DOMAIN r, {"st", "mine"} \cap DOMAIN r = {}, r.op # "load",
           db' = db, hist' = hist, \A f \in {"rows", "total", "view", "page", "timer"} : ui'[f] = ui[f]
    PROVE  PPage'
<1>1. CASE net' = net
  BY <1>1, PFrame DEF PSlot
<1>2. CASE R!Send(r)
  <2>1. PICK s \in R!Slots : /\ Only(s) /\ net[s] = R!NoCall /\ DOMAIN net'[s] = DOMAIN r \cup {"st", "mine"}
                             /\ \A f \in DOMAIN r : net'[s][f] = r[f]
    <3>1. RNet
      BY DEF PInv, PCalls
    <3> QED
      BY <1>2, <3>1, RSent
  <2>2. PSlot(s)
    BY <2>1 DEF PSlot, R!NoCall
  <2> QED
    BY <2>1, <2>2, PSlots, PFrame DEF PInv, PCalls
<1> QED
  BY <1>1, <1>2

LEMMA PChangePages ==
    ASSUME PSeen, NEW op, op # "load", NEW ids, NEW who, NEW u, DOMAIN u = PFields,
           \A f \in {"rows", "total", "view", "page", "timer"} : u[f] = ui[f],
           Points!Change(op, ids, who, u)
    PROVE  PPage' /\ PDom'
<1> DEFINE r == [op |-> op, ids |-> ids, who |-> who, view |-> ui.view, page |-> ui.page]
           b == u.busy \cup ({who} \ {"none"})
<1>1. "op" \in DOMAIN r /\ {"st", "mine"} \cap DOMAIN r = {} /\ r.op # "load"
  OBVIOUS
<1>2. R!Send(r) /\ ui' = [u EXCEPT !.busy = b] /\ db' = db /\ hist' = hist
  BY PLinks DEF Points!Change
<1> HIDE DEF r, b
<1>3. \A f \in {"rows", "total", "view", "page", "timer"} : ui'[f] = ui[f]
  BY <1>2 DEF PFields
<1> QED
  BY <1>1, <1>2, <1>3, PAside DEF PSeen, PDom

LEMMA PAskPages ==
    ASSUME PSeen, NEW u, Points!Ask(u)
    PROVE  PPage' /\ PDom'
<1>1. R!Send(Points!Load(u, FALSE)) /\ db' = db /\ hist' = [hist EXCEPT !.turns = @ + 1]
  BY PLinks DEF Points!Ask
<1>2. hist'.seen = hist.seen /\ hist'.faulty = hist.faulty /\ DOMAIN hist' = DOMAIN hist
  BY <1>1 DEF PSeen, PDom
<1> QED
  BY <1>1, <1>2, PAsked DEF PSeen, PDom

LEMMA PTurnPages ==
    ASSUME PSeen, Points!Previous \/ Points!NextPage
    PROVE  PPage' /\ PDom'
BY PAskPages DEF Points!Previous, Points!NextPage

LEMMA PViewPages ==
    ASSUME PSeen, NEW view, Points!SetView(view)
    PROVE  PPage' /\ PDom'
BY Zenon, PAskPages DEF Points!SetView

LEMMA PChoosePages ==
    ASSUME PSeen, \/ \E ids : Points!Select(ids)
                  \/ Points!CloseDialog \/ Points!ApplyGroup
                  \/ \E kind, of : Points!Open(kind, of)
    PROVE  PPage' /\ PDom'
<1>1. \A f \in {"rows", "total", "view", "page", "timer"} : ui'[f] = ui[f]
  BY DEF PSeen, PInv, PFields, Points!Select, Points!CloseDialog, Points!ApplyGroup, Points!Open
<1>2. db' = db /\ hist' = hist /\ (R!Send(Points!Groups) \/ net' = net)
  BY PLinks DEF Points!Select, Points!CloseDialog, Points!ApplyGroup, Points!Open
<1>3. LET r == Points!Groups IN r.op # "load" /\ "op" \in DOMAIN r /\ {"st", "mine"} \cap DOMAIN r = {}
  BY DEF Points!Groups
<1> QED
  BY <1>1, <1>2, <1>3, PAside DEF PSeen, PDom

LEMMA PSubmitPages ==
    ASSUME PSeen, \/ Points!RemovePoint \/ Points!BulkDelete \/ Points!AddToGroup \/ Points!SaveGroup
                  \/ Points!ManagerCreate \/ Points!ManagerRemove \/ Points!RemoveCategory
                  \/ \E op \in {"assign", "clear"} : Points!BulkAssign(op)
                  \/ \E op \in {"tag", "untag"} : Points!SubmitEdit(op)
                  \/ \E ids : Points!SubmitNew(ids)
    PROVE  PPage' /\ PDom'
<1> DEFINE w == [ui EXCEPT !.dialog = Points!NoDialog]
<1>1. DOMAIN ui = PFields /\ DOMAIN w = PFields /\ \A f \in {"rows", "total", "view", "page", "timer"} : w[f] = ui[f]
  BY DEF PSeen, PInv, PFields
<1>2. PICK op, ids, who : op # "load" /\ (Points!Change(op, ids, who, ui) \/ Points!Change(op, ids, who, w))
  BY DEF Points!RemovePoint, Points!BulkDelete, Points!AddToGroup, Points!SaveGroup, Points!ManagerCreate,
         Points!ManagerRemove, Points!RemoveCategory, Points!BulkAssign, Points!SubmitEdit, Points!SubmitNew
<1> HIDE DEF w
<1> QED
  BY <1>1, <1>2, PChangePages

LEMMA PUserPages ==
    ASSUME PSeen, Points!User
    PROVE  PPage' /\ PDom'
<1>1. CASE Points!ToggleAll \/ Points!ClearSelection \/ \E p \in 1 .. Several : Points!Toggle(p)
  <2>1. \E ids : Points!Select(ids)
    BY <1>1 DEF Points!ToggleAll, Points!ClearSelection, Points!Toggle
  <2> QED
    BY <2>1, PChoosePages
<1>2. CASE \/ \E p \in 1 .. Several : \E kind \in {"edit", "delete"} : Points!OpenRow(kind, p)
           \/ \E kind \in {"bulk", "save"} : Points!OpenBulk(kind)
           \/ \E kind \in {"new", "groups", "categories"} : Points!OpenManage(kind)
  <2>1. \E kind, of : Points!Open(kind, of)
    BY <1>2 DEF Points!OpenRow, Points!OpenBulk, Points!OpenManage
  <2> QED
    BY <2>1, PChoosePages
<1> QED
  BY <1>1, <1>2, PViewPages, PTurnPages, PChoosePages, PSubmitPages DEF Points!User

LEMMA PApplied ==
    ASSUME PDom, NEW op, NEW ids
    PROVE  LET d == Points!Applied(db, op, ids) IN DOMAIN d = DOMAIN db /\ d.v = db.v
BY DEF PDom, Points!Applied

\* The server, other sessions, and the timer.
LEMMA PWritePages ==
    ASSUME PSeen, (\E s \in R!Slots : Points!Write(s)) \/ Points!Others
    PROVE  PPage' /\ PDom'
<1>1. CASE Points!Others
  <2>1. PICK op, p : Points!Elsewhere(op, p)
    BY <1>1 DEF Points!Others
  <2> DEFINE d == Points!Applied(db, op, {p})
  <2>2. DOMAIN d = DOMAIN db /\ d.v = db.v
    BY PApplied DEF PSeen
  <2>3. db' = [d EXCEPT !.v = @ + 1] /\ net' = net /\ hist' = hist /\ ui' = [ui EXCEPT !.timer = TRUE]
    BY <2>1 DEF Points!Elsewhere
  <2> HIDE DEF d
  <2>4. db'.v = db.v + 1 /\ DOMAIN db' = DOMAIN db /\ ui'.timer
    BY <2>2, <2>3 DEF PSeen, PDom, PInv, PFields
  <2> QED
    BY <2>3, <2>4, PChanged DEF PSeen, PDom
<1>2. ASSUME NEW s \in R!Slots, Points!Write(s)
      PROVE  PPage' /\ PDom'
  <2> DEFINE d == Points!Applied(db, net[s].op, net[s].ids)
             heard == Points!Publishes(net[s].op, net[s].ids)
  <2>1. DOMAIN d = DOMAIN db /\ d.v = db.v
    BY PApplied DEF PSeen
  <2>2. /\ db' = [d EXCEPT !.v = @ + 1] /\ ui' = [ui EXCEPT !.timer = @ \/ heard]
        /\ hist' = [hist EXCEPT !.faulty = @ \/ ~heard]
    BY <1>2 DEF Points!Write
  <2>3. net[s].op \notin {"none", "load", "groups"} /\ net[s].st = "sent" /\ R!Answer(s, TRUE)
    BY <1>2, PLinks DEF Points!Write, Points!Writes
  <2> HIDE DEF d, heard
  <2>4. db'.v = db.v + 1 /\ DOMAIN db' = DOMAIN db
    BY <2>1, <2>2 DEF PSeen, PDom
  <2>5. /\ ui'.timer = (ui.timer \/ heard) /\ hist'.faulty = (hist.faulty \/ ~heard)
        /\ hist'.seen = hist.seen /\ DOMAIN hist' = DOMAIN hist
    BY <2>2 DEF PSeen, PDom, PInv, PFields
  <2>6. net[s] # R!NoCall /\ RNet /\ "op" \in DOMAIN net[s]
    BY <2>3 DEF PSeen, PInv, PCalls, R!NoCall, RNet, RShape
  <2>7. Only(s) /\ net'[s].op = net[s].op
    BY <2>3, <2>6, RAnswered
  <2>8. \A t \in R!Slots : net'[t] = net[t] \/ (net[t].op # "load" /\ net'[t].op # "load")
    BY <2>3, <2>7 DEF Only
  <2> QED
    BY <2>4, <2>5, <2>8, PChanged DEF PSeen, PDom
<1> QED
  BY <1>1, <1>2

LEMMA PReadPages ==
    ASSUME PSeen, NEW s \in R!Slots, Points!Read(s)
    PROVE  PPage' /\ PDom'
<1>1. db' = db /\ hist' = hist /\ ui' = ui /\ net[s].st = "sent" /\ net[s].op \in {"load", "groups"}
  BY DEF Points!Read
<1>2. net[s] # R!NoCall /\ RNet /\ "op" \in DOMAIN net[s]
  BY <1>1 DEF PSeen, PInv, PCalls, R!NoCall, RNet, RShape
<1>3. CASE net[s].op = "groups"
  <2>1. \E w : R!Answer(s, w)
    BY PLinks DEF Points!Read
  <2>2. Only(s) /\ net'[s].op = net[s].op
    BY <1>2, <2>1, RAnswered
  <2>3. PSlot(s)
    BY <1>3, <2>2 DEF PSlot
  <2> QED
    BY <1>1, <1>2, <2>2, <2>3, PSlots, PFrame DEF PSeen, PDom
<1>4. CASE net[s].op = "load" /\ hist.faulty
  BY <1>1, <1>4 DEF PSeen, PPage, PDom
<1>5. CASE net[s].op = "load" /\ ~hist.faulty
  <2> DEFINE w == [rows |-> Points!PageOf(db, net[s].view, net[s].page), v |-> db.v,
                   total |-> Points!Cardinality(Points!Filtered(db, net[s].view)),
                   members |-> IF net[s].groups THEN db.members ELSE {}]
             told == IF net[s].op = "groups" THEN [members |-> db.members] ELSE w
  <2>1. /\ R!Answer(s, w) /\ w.v = db.v /\ w.rows = Points!PageOf(db, net[s].view, net[s].page)
        /\ w.total = Points!Cardinality(Points!Filtered(db, net[s].view))
    <3>1. Points!Answer(s, told) /\ told = w
      BY <1>5 DEF Points!Read
    <3> HIDE DEF told
    <3>2. R!Answer(s, w)
      BY <3>1, PLinks
    <3> QED
      BY <3>2
  <2> HIDE DEF w, told
  <2>2. s \in PUp /\ {"view", "page"} \subseteq DOMAIN net[s] /\ "ans" \notin DOMAIN net[s] /\ db.v \in Nat
    BY <1>1, <1>5 DEF PSeen, PPage, PUp
  <2>3. /\ Only(s) /\ DOMAIN net'[s] = DOMAIN net[s] \cup {"ans"} /\ net'[s].st = "done" /\ net'[s].ans = w
        /\ \A f \in DOMAIN net[s] \ {"st"} : net'[s][f] = net[s][f]
    BY <1>2, <2>1, <2>2, RAnswered
  <2>4. net'[s].op = "load" /\ net'[s].view = net[s].view /\ net'[s].page = net[s].page
    BY <1>2, <1>5, <2>2, <2>3
  <2>5. PTold(s)' /\ PFresh(s)' /\ PUp' = PUp
    BY <1>1, <1>5, <2>1, <2>2, <2>3, <2>4 DEF PTold, PFresh, PUp, Only
  <2>6. ASSUME NEW t \in PUp'
        PROVE  /\ net'[t].st \in {"sent", "done"} /\ {"view", "page"} \subseteq DOMAIN net'[t]
               /\ "ans" \in DOMAIN net'[t] <=> net'[t].st = "done"
               /\ net'[t].st = "done" => PTold(t)'
    <3>1. CASE t = s
      BY <2>2, <2>3, <2>5, <3>1
    <3>2. CASE t # s
      <4>1. net'[t] = net[t] /\ t \in PUp
        BY <2>3, <2>5, <3>2 DEF Only, PUp
      <4> QED
        BY <1>1, <1>5, <4>1 DEF PSeen, PPage, PTold
    <3> QED
      BY <3>1, <3>2
  <2> QED
    BY <1>1, <1>5, <2>2, <2>5, <2>6 DEF PSeen, PPage, PDom
<1> QED
  BY <1>1, <1>3, <1>4, <1>5

LEMMA PRefreshPages ==
    ASSUME PSeen, Points!Refresh
    PROVE  PPage' /\ PDom'
BY PLinks, PAsked DEF PSeen, PDom, Points!Refresh

LEMMA PMaxed ==
    ASSUME NEW i \in Nat, NEW j \in Nat
    PROVE  Points!Max({i, j}) = IF i < j THEN j ELSE i
<1>1. \E x \in {i, j} : \A y \in {i, j} : x >= y
  OBVIOUS
<1>2. Points!Max({i, j}) \in {i, j} /\ \A y \in {i, j} : Points!Max({i, j}) >= y
  BY <1>1 DEF Points!Max
<1> QED
  BY <1>2

\* The table shows an answer: the last one under way, or another will come.
LEMMA PLoadedPages ==
    ASSUME PSeen, NEW s \in R!Slots, Points!Loaded(s)
    PROVE  PPage' /\ PDom'
<1> DEFINE r == net[s]
           last == Points!Overtaken(r) /\ Points!Flying("load") = {s}
           top == Points!Max({hist.seen, r.ans.v})
           groups == IF r.groups THEN r.ans.members ELSE ui.groups
           v == [ui EXCEPT !.rows = r.ans.rows, !.total = r.ans.total, !.groups = groups]
<1>1. net[s].op = "load" /\ net[s].st = "done" /\ R!Settle(s) /\ db' = db /\ DOMAIN ui = PFields /\ RNet
  BY PLinks DEF Points!Loaded, Points!At, PSeen, PInv, PCalls
<1>2. ui' = v /\ hist' = [hist EXCEPT !.seen = top, !.faulty = @ \/ last]
  BY <1>1 DEF Points!Loaded, PFields, PSeen, PDom
<1>3. Only(s) /\ net'[s].op = "none"
  BY <1>1, RSettled DEF R!NoCall
<1> HIDE DEF groups, top, last
<1>4. /\ ui'.rows = net[s].ans.rows /\ ui'.total = net[s].ans.total
      /\ \A f \in {"view", "page", "timer"} : ui'[f] = ui[f]
  BY <1>1, <1>2 DEF PFields
<1> HIDE DEF v
<1>5. hist'.seen = top /\ hist'.faulty = (hist.faulty \/ last) /\ DOMAIN hist' = DOMAIN hist
  BY <1>2 DEF PSeen, PDom
<1>6. CASE hist'.faulty
  BY <1>1, <1>5, <1>6 DEF PSeen, PPage, PDom
<1>7. CASE ~hist'.faulty
  <2>1. /\ ~hist.faulty /\ ~last /\ db.v \in Nat /\ hist.seen \in 0 .. db.v /\ PTold(s)
        /\ net[s].ans.v \in 0 .. db.v
    BY <1>1, <1>5, <1>7 DEF PSeen, PPage, PUp, PTold
  <2>2. top \in 0 .. db.v /\ (hist.seen = db.v \/ net[s].ans.v = db.v => top = db.v)
    <3>1. top = IF hist.seen < net[s].ans.v THEN net[s].ans.v ELSE hist.seen
      <4>1. hist.seen \in Nat /\ net[s].ans.v \in Nat
        BY <2>1
      <4> QED
        BY <4>1, PMaxed DEF top
    <3> QED
      BY <2>1, <3>1
  <2>3. \A t \in PUp' : t \in PUp /\ t # s /\ net'[t] = net[t]
    BY <1>3 DEF PUp, Only
  <2>4. ui'.timer \/ hist'.seen = db'.v \/ \E t \in R!Slots : PFresh(t)'
    <3>1. ASSUME NEW t \in R!Slots, PFresh(t), t # s PROVE PFresh(t)'
      BY <1>1, <1>3, <3>1 DEF PFresh, Only
    <3>2. PFresh(s) => net[s].ans.v = db.v
      BY <1>1 DEF PFresh
    <3> QED
      BY <1>1, <1>4, <1>5, <2>1, <2>2, <3>1, <3>2 DEF PSeen, PPage
  <2>5. ui'.timer \/ PUp' # {} \/ PShows'
    <3>1. CASE PUp = {s} /\ ~ui.timer
      <4>1. Points!Flying("load") = PUp
        BY PLinks DEF Points!Flying, PUp
      <4>2. ~(net[s].ans.v < hist.seen) /\ net[s].view = ui.view /\ net[s].page = ui.page
        BY <2>1, <3>1, <4>1 DEF last, Points!Overtaken
      <4>3. \A t \in R!Slots : PFresh(t) => t = s
        BY <3>1 DEF PFresh, PUp
      <4>4. hist.seen = db.v \/ PFresh(s)
        BY <2>1, <3>1, <4>3 DEF PSeen, PPage
      <4>5. net[s].ans.v = db.v
        BY <1>1, <2>1, <4>2, <4>4 DEF PFresh
      <4> QED
        BY <1>1, <1>4, <2>1, <4>2, <4>5 DEF PTold, PShows
    <3>2. CASE PUp # {s}
      <4>1. PICK t \in PUp : t # s
        BY <1>1, <3>2 DEF PUp
      <4> QED
        BY <1>3, <4>1 DEF PUp, Only
    <3> QED
      BY <1>4, <3>1, <3>2
  <2>6. \A t \in PUp' : /\ net'[t].st \in {"sent", "done"} /\ {"view", "page"} \subseteq DOMAIN net'[t]
                        /\ "ans" \in DOMAIN net'[t] <=> net'[t].st = "done"
                        /\ net'[t].st = "done" => PTold(t)'
    BY <1>1, <2>1, <2>3 DEF PSeen, PPage, PTold
  <2> QED
    BY <1>1, <1>5, <2>1, <2>2, <2>4, <2>5, <2>6 DEF PSeen, PPage, PDom
<1> QED
  BY <1>6, <1>7

\* Any other request is through, or is followed by a load.
LEMMA PEndPages ==
    ASSUME PSeen, NEW s \in R!Slots, Points!GroupsLoaded(s) \/ Points!Done(s) \/ Points!Failed(s)
    PROVE  PPage' /\ PDom'
<1>1. DOMAIN ui = PFields /\ RNet
  BY DEF PSeen, PInv, PCalls
<1>2. db' = db /\ \A f \in {"rows", "total", "view", "page", "timer"} : ui'[f] = ui[f]
  BY <1>1 DEF PFields, Points!GroupsLoaded, Points!Done, Points!Failed
<1>3. CASE Points!Failed(s)
  BY <1>2, <1>3 DEF Points!Failed, PSeen, PPage, PDom
<1>4. CASE Points!GroupsLoaded(s)
  <2>1. net[s].op # "load" /\ R!Settle(s) /\ hist' = hist
    BY <1>4, PLinks DEF Points!GroupsLoaded, Points!At
  <2>2. Only(s) /\ PSlot(s)
    BY <1>1, <2>1, RSettled DEF PSlot, R!NoCall
  <2> QED
    BY <1>1, <1>2, <2>1, <2>2, PSlots, PFrame DEF PSeen, PDom
<1>5. CASE Points!Done(s)
  <2> DEFINE r == Points!Load(net[s], FALSE)
             q == Points!Groups
  <2>1. net[s].op # "load" /\ hist' = hist /\ (R!Settle(s) \/ R!Follow(s, q) \/ R!Follow(s, r))
    BY <1>5, PLinks DEF Points!Done
  <2>2. /\ "op" \in DOMAIN r /\ {"st", "mine"} \cap DOMAIN r = {} /\ r.op = "load"
        /\ {"view", "page"} \subseteq DOMAIN r /\ "ans" \notin DOMAIN r
        /\ "op" \in DOMAIN q /\ {"st", "mine"} \cap DOMAIN q = {} /\ q.op = "groups"
    BY DEF Points!Load, Points!Groups
  <2> HIDE DEF r, q
  <2>3. CASE R!Settle(s)
    <3>1. Only(s) /\ PSlot(s)
      BY <1>1, <2>1, <2>3, RSettled DEF PSlot, R!NoCall
    <3> QED
      BY <1>1, <1>2, <2>1, <3>1, PSlots, PFrame DEF PSeen, PDom
  <2>4. CASE R!Follow(s, q)
    <3>1. Only(s) /\ \A f \in DOMAIN q : net'[s][f] = q[f]
      BY <1>1, <2>2, <2>4, RFollowed
    <3>2. PSlot(s)
      BY <2>1, <2>2, <3>1 DEF PSlot
    <3> QED
      BY <1>1, <1>2, <2>1, <3>1, <3>2, PSlots, PFrame DEF PSeen, PDom
  <2>5. CASE R!Follow(s, r)
    <3>1. /\ Only(s) /\ DOMAIN net'[s] = DOMAIN r \cup {"st", "mine"} /\ net'[s].st = "sent"
          /\ \A f \in DOMAIN r : net'[s][f] = r[f]
      BY <1>1, <2>2, <2>5, RFollowed
    <3>2. PSlot(s)
      BY <2>1, <2>2, <3>1 DEF PSlot
    <3> QED
      BY <1>1, <1>2, <2>1, <3>1, <3>2, PSlots, PFrame DEF PSeen, PDom
  <2> QED
    BY <2>1, <2>3, <2>4, <2>5
<1> QED
  BY <1>3, <1>4, <1>5

LEMMA PSeenStep ==
    ASSUME PSeen, [Points!Next]_Points!vars
    PROVE  PSeen'
<1>1. PInv'
  BY PStep DEF PSeen
<1>2. CASE UNCHANGED Points!vars
  BY <1>1, <1>2, PFrame DEF PSlot, PSeen, PDom, Points!vars
<1>3. CASE Points!User \/ Points!Others \/ Points!Refresh
  BY <1>1, <1>3, PUserPages, PWritePages, PRefreshPages DEF PSeen
<1>4. CASE \E s \in R!Slots : Points!Serve(s)
  BY <1>1, <1>4, PWritePages, PReadPages DEF Points!Serve, PSeen
<1>5. CASE \E s \in R!Slots : Points!Settles(s)
  BY <1>1, <1>5, PLoadedPages, PEndPages DEF Points!Settles, PSeen
<1> QED
  BY <1>1, <1>2, <1>3, <1>4, <1>5, PLinks DEF PSeen, Points!Next

LEMMA PSeenInit ==
    ASSUME Points!Init
    PROVE  PSeen
<1> DEFINE r == Points!Load(ui, TRUE)
<1>1. /\ "op" \in DOMAIN r /\ {"st", "mine"} \cap DOMAIN r = {} /\ r.op = "load"
      /\ {"view", "page"} \subseteq DOMAIN r /\ "ans" \notin DOMAIN r
  BY DEF Points!Load
<1>2. net = [R!NoCalls EXCEPT ![1] = R!Asked(r)]
  BY PLinks DEF Points!Init, Points!NoCalls, R!NoCalls, Points!Asked, R!Asked, Points!Extended, R!Extended
<1> HIDE DEF r
<1>3. PInv /\ PDom /\ db.v = 0 /\ hist.seen = 0
  <2>1. PInv
    BY PInit
  <2>2. PDom /\ db.v = 0 /\ hist.seen = 0
    BY DEF Points!Init, PDom
  <2> QED
    BY <2>1, <2>2
<1>4. \A s \in R!Slots : net[s] \in {R!NoCall, R!Asked(r)}
  BY <1>1, <1>2, RStart
<1>5. /\ R!Asked(r).op = "load" /\ R!Asked(r).st = "sent" /\ "ans" \notin DOMAIN R!Asked(r)
      /\ {"view", "page"} \subseteq DOMAIN R!Asked(r)
  <2>1. /\ DOMAIN R!Asked(r) = DOMAIN r \cup {"st", "mine"} /\ R!Asked(r).st = "sent"
        /\ \A f \in DOMAIN r : R!Asked(r)[f] = r[f]
    BY <1>1, RAsked
  <2> QED
    BY <1>1, <2>1
<1>6. 1 \in R!Slots /\ net[1] = R!Asked(r)
  BY <1>2, ScreensAssumption DEF ScreensAssumption, R!Slots, R!NoCalls
<1>7. PFresh(1) /\ 1 \in PUp
  BY <1>5, <1>6 DEF PFresh, PUp
<1>8. \A t \in PUp : net[t] = R!Asked(r)
  BY <1>4 DEF PUp, R!NoCall
<1> QED
  BY <1>3, <1>5, <1>6, <1>7, <1>8 DEF PSeen, PPage

-----------------------------------------------------------------------------
PageInv ==
    /\ screen = "boundary" => BSeen
    /\ screen = "georef" => GSeen
    /\ screen = "control" => CSeen
    /\ screen \in {"points", "pages"} => PSeen

LEMMA PageStep ==
    ASSUME PageInv, [Next]_vars
    PROVE  PageInv'
<1>1. CASE screen = "boundary"
  <2>1. [Boundary!Next]_Boundary!vars
    BY <1>1 DEF Next, vars, Boundary!vars
  <2> QED
    BY <1>1, <2>1, BSeenStep, ScreenIsOne DEF PageInv
<1>2. CASE screen = "georef"
  <2>1. [Georef!Next]_Georef!vars
    BY <1>2 DEF Next, vars, Georef!vars
  <2> QED
    BY <1>2, <2>1, GSeenStep, ScreenIsOne DEF PageInv
<1>3. CASE screen = "control"
  <2>1. [Control!Next]_Control!vars
    BY <1>3 DEF Next, vars, Control!vars
  <2> QED
    BY <1>3, <2>1, CSeenStep, ScreenIsOne DEF PageInv
<1>4. CASE screen \in {"points", "pages"}
  <2>1. [Points!Next]_Points!vars
    BY <1>4 DEF Next, vars, Points!vars
  <2> QED
    BY <1>4, <2>1, PSeenStep, ScreenIsOne DEF PageInv
<1> QED
  BY <1>1, <1>2, <1>3, <1>4, ScreenIsOne DEF PageInv

Shown == {"grid", "projects", "users", "boundary", "georef", "control", "points", "pages"}

\* The building grid, the lists of projects and users, the boundary, the
\* georeference, the control points and the page of survey points of a
\* project are the server's once nothing is under way, however many requests
\* overlapped: if none failed, no older answer and no answer to an earlier question
\* was applied last, no other session changed what no ping reports, and the
\* georeference was not acted on while a request was under way (ShowsServer).
THEOREM ListsAreServers == Spec => [](screen \in Shown => ShowsServer)
<1>1. Init => ActsInv /\ GridInv /\ PageInv
  BY ScreensAssumption, EInit, WInit, JInit, DInit, PInit, BSeenInit, GSeenInit, CSeenInit, PSeenInit
     DEF Init, ActsInv, GridInv, PageInv, ScreensAssumption
<1>2. ActsInv /\ GridInv /\ PageInv /\ [Next]_vars => (ActsInv /\ GridInv /\ PageInv)'
  BY ActsStep, GridStep, PageStep
<1>3. ActsInv /\ GridInv /\ PageInv => (screen \in Shown => ShowsServer)
  <2>1. /\ R!NoCall.op = "none" /\ R!NoCall.st = "idle"
        /\ Grid!Quiet <=> \A s \in R!Slots : net[s] = R!NoCall
        /\ Projects!Quiet <=> \A s \in R!Slots : net[s] = R!NoCall
        /\ Users!Quiet <=> \A s \in R!Slots : net[s] = R!NoCall
    BY DEF R!NoCall, R!Slots, Grid!Quiet, Projects!Quiet, Users!Quiet, Grid!Slots, Projects!Slots,
           Users!Slots, Grid!NoCall, Projects!NoCall, Users!NoCall
  <2>2. /\ Boundary!Quiet <=> \A s \in R!Slots : net[s] = R!NoCall
        /\ Georef!Quiet <=> \A s \in R!Slots : net[s] = R!NoCall
        /\ Control!Quiet <=> \A s \in R!Slots : net[s] = R!NoCall
    BY DEF R!NoCall, R!Slots, Boundary!Quiet, Georef!Quiet, Control!Quiet, Boundary!Slots, Georef!Slots,
           Control!Slots, Boundary!NoCall, Georef!NoCall, Control!NoCall
  <2>3. Points!Quiet <=> \A s \in R!Slots : net[s] = R!NoCall
    BY DEF R!NoCall, R!Slots, Points!Quiet, Points!Slots, Points!NoCall
  <2>4. PSeen => Points!ShowsPage
    BY <2>1, <2>3 DEF PSeen, PPage, PShows, PUp, PFresh, Points!ShowsPage
  <2>5. EInv => Grid!ShowsGrid
    BY <2>1 DEF EInv, ESeen, EComes, Grid!ShowsGrid
  <2>6. JInv => Projects!ShowsProjects
    BY <2>1 DEF JInv, JListed, JDone, Projects!Writes, Projects!ShowsProjects
  <2>7. WInv => Users!ShowsMembers
    BY <2>1 DEF WInv, WListed, WDone, WComes, Users!Writes, Users!ShowsMembers
  <2>8. BSeen => Boundary!ShowsBoundary
    BY <2>2, VQuiet DEF BSeen, BPage, Boundary!ShowsBoundary
  <2>9. GSeen => Georef!ShowsProject
    BY <2>2, VQuiet DEF GSeen, GInv, GPage, Georef!EditsMarked, Georef!ShowsProject
  <2>10. CSeen => Control!ShowsPoints
    BY <2>2, VQuiet DEF CSeen, CPage, Control!ShowsPoints
  <2>11. /\ screen = "grid" /\ Grid!ShowsGrid => ShowsServer
         /\ screen = "projects" /\ Projects!ShowsProjects => ShowsServer
         /\ screen = "users" /\ Users!ShowsMembers => ShowsServer
    <3>1. screen = "grid" /\ Grid!ShowsGrid => ShowsServer
      BY DEF ShowsServer
    <3>2. screen = "projects" /\ Projects!ShowsProjects => ShowsServer
      BY DEF ShowsServer
    <3>3. screen = "users" /\ Users!ShowsMembers => ShowsServer
      BY DEF ShowsServer
    <3> QED
      BY <3>1, <3>2, <3>3
  <2>12. screen = "boundary" /\ Boundary!ShowsBoundary => ShowsServer
    BY DEF ShowsServer
  <2>13. screen = "georef" /\ Georef!ShowsProject => ShowsServer
    BY DEF ShowsServer
  <2>14. screen = "control" /\ Control!ShowsPoints => ShowsServer
    BY DEF ShowsServer
  <2>15. screen \in {"points", "pages"} /\ Points!ShowsPage => ShowsServer
    BY DEF ShowsServer
  <2> QED
    BY <2>4, <2>5, <2>6, <2>7, <2>8, <2>9, <2>10, <2>11, <2>12, <2>13, <2>14, <2>15 DEF ActsInv, GridInv, PageInv, Shown
<1> QED
  BY <1>1, <1>2, <1>3, PTL DEF Spec
=============================================================================
