----------------------------- MODULE ControlTab -----------------------------
(***************************************************************************)
(* The project page (app/projects/[id]/page.tsx): what it loads, its tabs  *)
(* and their plan gate, with the control points card and the transform     *)
(* card of the Grid tab, over schema/grid.rs.  The page holds one copy of  *)
(* the control points, the transform and the number of survey points; a    *)
(* panel is mounted while its tab is active and starts from that copy.     *)
(* Of a transform the model keeps whether there is one; the axes of the    *)
(* grid are taken as given.  One request fails at most.                    *)
(***************************************************************************)
EXTENDS Requests

CONSTANTS Pts, MaxEdits

VARIABLES ui, db, hist

vars == <<net, ui, db, hist>>

CrewTabs == {"field"}           \* field, overlays, surfaces, utilities, analysis
Tabs == {"setup", "control", "points"} \cup CrewTabs

\* What the cards of the Grid tab hold while they are mounted; the dialog is
\* the one open ("new" or a point in the form, a point to be deleted).
Closed == [kind |-> "closed", point |-> "new"]
Panel(solved) == [mounted |-> TRUE, solved |-> solved, solving |-> FALSE, busy |-> FALSE,
                  dialog |-> Closed]
Unmounted == [Panel(FALSE) EXCEPT !.mounted = FALSE]

Load == [op |-> "load"]

Init ==
    /\ \E ready \in BOOLEAN, plan \in {"solo", "crew"} :
          db = [cps |-> IF ready THEN [p \in Pts |-> "tied"] ELSE <<>>, v |-> 0, solved |-> FALSE,
                count |-> IF ready THEN 1 ELSE 0, plan |-> plan]
    /\ ui = [loading |-> TRUE, found |-> FALSE, cps |-> <<>>, solved |-> FALSE, count |-> 0,
             tab |-> "setup", tabPicked |-> FALSE, plan |-> "unknown", upgrade |-> FALSE,
             panel |-> Unmounted]
    /\ hist = [faulty |-> FALSE, seen |-> 0, chosen |-> "none"]
    /\ net = [NoCalls EXCEPT ![1] = Asked(Load), ![2] = Asked([op |-> "billing"])]

-----------------------------------------------------------------------------
Tied(cps) == {p \in DOMAIN cps : cps[p] = "tied"}

\* setupComplete hides the Setup tab, and an active Setup tab becomes Points.
SetupComplete(u) == Cardinality(Tied(u.cps)) >= 2 /\ u.solved /\ u.count > 0
ActiveTab(u) == IF SetupComplete(u) /\ u.tab = "setup" THEN "points" ELSE u.tab
Shown == ~ui.loading /\ ui.found
CrewGated(u) == u.plan # "crew"
Mounted(u, tab) == u.found /\ ~u.loading /\ ActiveTab(u) = tab /\ (tab \in CrewTabs => ~CrewGated(u))

\* React commits the new state: the Grid tab's panels mount or unmount.
Render(u) ==
    IF ~Mounted(u, "control") THEN [u EXCEPT !.panel = Unmounted]
    ELSE IF ~u.panel.mounted THEN [u EXCEPT !.panel = Panel(u.solved)]
    ELSE u

Goto(tab) ==
    LET u == Render([ui EXCEPT !.tab = tab])
    IN  /\ ui' = u
        /\ IF ui.panel.mounted /\ ~u.panel.mounted
           THEN net' = [s \in Slots |-> IF net[s].op \in {"load", "billing"} THEN net[s] ELSE Orphaned[s]]
           ELSE UNCHANGED net
        /\ hist' = [hist EXCEPT !.chosen = tab]
        /\ UNCHANGED db

\* The tab bar: Crew tabs are inert until billing is known, and lead a free
\* organization to the upsell dialog.
ClickTab(tab) ==
    /\ Shown /\ ~ui.upgrade /\ ui.panel.dialog = Closed
    /\ tab = "setup" => ~SetupComplete(ui)
    /\ tab \in CrewTabs => ui.plan # "unknown"
    /\ IF tab \in CrewTabs /\ CrewGated(ui)
       THEN ui' = [ui EXCEPT !.upgrade = TRUE] /\ UNCHANGED <<net, db, hist>>
       ELSE Goto(tab)

CloseUpgrade ==
    /\ ui.upgrade
    /\ ui' = [ui EXCEPT !.upgrade = FALSE]
    /\ UNCHANGED <<net, db, hist>>

\* The checklist: a step that is not done offers a button to its tab.
Steps(u) == {<<"control", Cardinality(Tied(u.cps)) >= 2>>, <<"control", u.solved>>,
             <<"points", u.count > 0>>}

FollowChecklist(step) ==
    /\ Mounted(ui, "setup")
    /\ ~step[2]
    /\ Goto(step[1])

-----------------------------------------------------------------------------
\* The control points card; its dialog adds a point or edits one.
Card == ui.panel.mounted /\ ui.panel.dialog = Closed

Open(kind, p) ==
    /\ Card
    /\ ui' = [ui EXCEPT !.panel.dialog = [kind |-> kind, point |-> p]]
    /\ UNCHANGED <<net, db, hist>>

CloseDialog ==
    /\ ui.panel.dialog # Closed
    /\ ui' = [ui EXCEPT !.panel.dialog = Closed]
    /\ UNCHANGED <<net, db, hist>>

Edits == {s \in Slots : net[s].op \in {"put", "delete"} /\ net[s].st = "sent"}
MayEdit == db.v + Cardinality(Edits) < MaxEdits

\* Empty grid offsets are sent as null ("free").
SubmitPoint(p, tie) ==
    /\ ui.panel.dialog.kind = "form" /\ ~ui.panel.busy
    /\ IF ui.panel.dialog.point = "new" THEN p \notin DOMAIN db.cps ELSE p = ui.panel.dialog.point
    /\ MayEdit
    /\ Send([op |-> "put", p |-> p, new |-> ui.panel.dialog.point = "new", tie |-> tie])
    /\ ui' = [ui EXCEPT !.panel.busy = TRUE]
    /\ UNCHANGED <<db, hist>>

ConfirmDelete ==
    /\ ui.panel.dialog.kind = "delete"
    /\ MayEdit
    /\ Send([op |-> "delete", p |-> ui.panel.dialog.point])
    /\ ui' = [ui EXCEPT !.panel.dialog = Closed]
    /\ UNCHANGED <<db, hist>>

Solve ==
    /\ Card /\ ~ui.panel.solving
    /\ Send([op |-> "solve"])
    /\ ui' = [ui EXCEPT !.panel.solving = TRUE]
    /\ UNCHANGED <<db, hist>>

-----------------------------------------------------------------------------
\* The server.  An update keeps what is sent as null (COALESCE).
Put(s) ==
    /\ At(s, "put", "sent")
    /\ net[s].new \/ net[s].p \in DOMAIN db.cps
    /\ LET kept == IF net[s].new \/ net[s].tie = "tied" THEN net[s].tie ELSE db.cps[net[s].p]
       IN  db' = [db EXCEPT !.cps = Entered(net[s].p, kept, @), !.v = @ + 1]
    /\ Answer(s, TRUE)
    /\ UNCHANGED <<ui, hist>>

Delete(s) ==
    /\ At(s, "delete", "sent")
    /\ net[s].p \in DOMAIN db.cps
    /\ db' = [db EXCEPT !.cps = [p \in DOMAIN @ \ {net[s].p} |-> @[p]], !.v = @ + 1]
    /\ Answer(s, TRUE)
    /\ UNCHANGED <<ui, hist>>

\* solve_transform reads the tied points; two are needed ...
ReadTied(s) ==
    /\ At(s, "solve", "sent")
    /\ Cardinality(Tied(db.cps)) >= 2
    /\ net' = [net EXCEPT ![s].st = "solved"]
    /\ UNCHANGED <<ui, db, hist>>

\* ... and stores the one transform of the project.
StoreTransform(s) ==
    /\ At(s, "solve", "solved")
    /\ db' = [db EXCEPT !.solved = TRUE]
    /\ Answer(s, TRUE)
    /\ UNCHANGED <<ui, hist>>

ReadPage(s) ==
    /\ At(s, "load", "sent")
    /\ Answer(s, db)
    /\ UNCHANGED <<ui, db, hist>>

ReadBilling(s) ==
    /\ At(s, "billing", "sent")
    /\ Answer(s, db.plan)
    /\ UNCHANGED <<ui, db, hist>>

Fail(s) ==
    /\ net[s].st \in {"sent", "done"} /\ ~hist.faulty
    /\ Throw(s)
    /\ hist' = [hist EXCEPT !.faulty = TRUE]
    /\ UNCHANGED <<ui, db>>

-----------------------------------------------------------------------------
\* Mutant: every load picks the tab.
LoadedPicks(s) ==
    /\ At(s, "load", "done")
    /\ Settle(s)
    /\ LET got == net[s].ans
           u == [ui EXCEPT !.loading = FALSE, !.found = TRUE, !.cps = got.cps, !.count = got.count,
                           !.solved = got.solved, !.tabPicked = TRUE,
                           !.tab = IF got.solved THEN "points" ELSE "setup"]
       IN  ui' = Render(u) /\ hist' = [hist EXCEPT !.faulty = @ \/ got.v < hist.seen, !.seen = got.v]
    /\ UNCHANGED db

\* load: every part of the page is set from the answer, the first one picks
\* the tab.
Loaded(s) ==
    /\ At(s, "load", "done")
    /\ Settle(s)
    /\ LET got == net[s].ans
           u == [ui EXCEPT !.loading = FALSE, !.found = TRUE, !.cps = got.cps, !.count = got.count,
                           !.solved = got.solved, !.tabPicked = TRUE,
                           !.tab = IF ui.tabPicked THEN @
                                   ELSE IF got.solved THEN "points" ELSE "setup"]
       IN  /\ ui' = Render(u)
           /\ hist' = [hist EXCEPT !.faulty = @ \/ got.v < hist.seen, !.seen = got.v]
    /\ UNCHANGED db

\* useBilling: a failed query leaves the organization gated.
Billed(s) ==
    /\ net[s].op = "billing" /\ net[s].st \in {"done", "failed"}
    /\ Settle(s)
    /\ ui' = Render([ui EXCEPT !.plan = IF net[s].st = "done" THEN net[s].ans ELSE "none"])
    /\ UNCHANGED <<db, hist>>

\* Mutant: the list is not loaded again after a change.
ChangedOnly(s) ==
    /\ net[s].op \in {"put", "delete"} /\ net[s].st = "done"
    /\ Settle(s)
    /\ ui' = [ui EXCEPT !.panel.busy = FALSE, !.panel.dialog = IF @.kind = "form" THEN Closed ELSE @]
    /\ UNCHANGED <<db, hist>>

\* The cards' onDone: their own state if still mounted, and the page's load.
Changed(s) ==
    /\ net[s].op \in {"put", "delete"} /\ net[s].st = "done"
    /\ Follow(s, Load)
    /\ ui' = IF net[s].op = "put" /\ net[s].mine
             THEN [ui EXCEPT !.panel.busy = FALSE,
                             !.panel.dialog = IF @.kind = "form" THEN Closed ELSE @] ELSE ui
    /\ UNCHANGED <<db, hist>>

\* The transform card keeps its own copy; the page is not told.
Solved(s) ==
    /\ At(s, "solve", "done")
    /\ Settle(s)
    /\ ui' = IF net[s].mine
             THEN [ui EXCEPT !.panel.solved = TRUE, !.panel.solving = FALSE] ELSE ui
    /\ UNCHANGED <<db, hist>>

Failed(s) ==
    /\ net[s].st = "failed" /\ net[s].op # "billing"
    /\ Settle(s)
    /\ ui' = CASE net[s].op = "load"               -> [ui EXCEPT !.loading = FALSE]
               [] net[s].op = "put" /\ net[s].mine   -> [ui EXCEPT !.panel.busy = FALSE]
               [] net[s].op = "solve" /\ net[s].mine -> [ui EXCEPT !.panel.solving = FALSE]
               [] OTHER                            -> ui
    /\ UNCHANGED <<db, hist>>

User ==
    \/ \E tab \in Tabs : ClickTab(tab)
    \/ \E step \in Steps(ui) : FollowChecklist(step)
    \/ CloseUpgrade \/ CloseDialog \/ ConfirmDelete \/ Solve
    \/ \E p \in DOMAIN ui.cps, kind \in {"form", "delete"} : Open(kind, p)
    \/ Open("form", "new")
    \/ \E p \in Pts, tie \in {"tied", "free"} : SubmitPoint(p, tie)
Serve(s) == Put(s) \/ Delete(s) \/ ReadTied(s) \/ StoreTransform(s) \/ ReadPage(s) \/ ReadBilling(s)
Settles(s) == Loaded(s) \/ Billed(s) \/ Changed(s) \/ Solved(s) \/ Failed(s)

Next == User \/ \E s \in Slots : Serve(s) \/ Settles(s) \/ Fail(s)
Spec == Init /\ [][Next]_vars

-----------------------------------------------------------------------------
TypeOK ==
    /\ ui.tab \in Tabs
    /\ ui.cps \in UNION {[ps -> {"tied", "free"}] : ps \in SUBSET Pts}
    /\ ui.panel.mounted <=> Mounted(ui, "control")

\* With nothing in flight the page shows the server's control points, unless
\* an answer was lost or came after a later one.
ShowsPoints == Quiet /\ ~hist.faulty => ui.cps = db.cps

\* A tab the user chose stays until he chooses another, whatever is loaded
\* meanwhile; only Setup gives way, once it is complete.
KeepsTab == hist.chosen \in Tabs \ {"setup"} => ActiveTab(ui) = hist.chosen

\* setup-checklist.tsx:62: the guide shows live status.  It does not hold: a
\* solve is not followed by a load of the page.
LiveStatus == Quiet /\ ~hist.faulty => (ui.solved <=> db.solved)
=============================================================================
