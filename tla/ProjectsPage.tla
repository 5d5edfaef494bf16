---------------------------- MODULE ProjectsPage -----------------------------
(***************************************************************************)
(* The list of projects (app/projects/page.tsx) with its dialogs: create,  *)
(* import, delete.  Each of them has the list loaded again; whether the    *)
(* plan has room for another project the button works out from the list    *)
(* on the screen and from a billing answer of its own, asked once.         *)
(***************************************************************************)
EXTENDS Requests

CONSTANTS
    Projects, MaxProjects,      \* what an organization that does not pay may have
    MaxChanges                  \* bound: changes at the server

VARIABLES ui, db, hist

vars == <<net, ui, db, hist>>

None == "none"
List == [op |-> "list", old |-> FALSE]
Init ==
    /\ \E held \in SUBSET Projects, paid \in BOOLEAN : db = [projects |-> held, paid |-> paid, changes |-> 0]
    /\ ui = [loading |-> TRUE, list |-> {}, billing |-> None, asking |-> TRUE, open |-> FALSE, creating |-> FALSE,
             importing |-> FALSE, confirm |-> None, deleting |-> {}]
    /\ net = [NoCalls EXCEPT ![1] = Asked(List), ![2] = Asked([op |-> "billing"])]
    /\ hist = [odd |-> FALSE]

-----------------------------------------------------------------------------
\* An unknown plan has room; the count is that of the list, loaded or not.
AtCap == ui.billing = "solo" /\ Cardinality(ui.list) >= MaxProjects
\* The three states of the button "New project".
Form == ~ui.asking /\ ~AtCap /\ ui.open

Writes == {"create", "import", "delete"}
Writing == UNION {Flying(op) : op \in Writes}
\* Only a request that no other one overlaps is alone.
Ask(r) ==
    LET alone == Quiet
        crowd == [s \in Slots |-> IF s \in Writing THEN [net[s] EXCEPT !.alone = FALSE] ELSE net[s]]
    IN  \E s \in Slots :
            /\ net[s] = NoCall
            /\ \A t \in Slots : t < s => net[t] # NoCall
            /\ net' = [crowd EXCEPT ![s] = Asked(Extended(r, [alone |-> alone]))]

Set(u) == ui' = u /\ UNCHANGED <<net, db, hist>>
Open == ~ui.asking /\ ~AtCap /\ ~ui.open /\ ui.confirm = None /\ Set([ui EXCEPT !.open = TRUE])
Close == Form /\ Set([ui EXCEPT !.open = FALSE])
Create ==
    /\ Form /\ ~ui.creating
    /\ Ask([op |-> "create"])
    /\ ui' = [ui EXCEPT !.creating = TRUE]
    /\ UNCHANGED <<db, hist>>

\* The import card minds no cap.
Import ==
    /\ ~ui.loading /\ ~ui.importing /\ ~Form /\ ui.confirm = None
    /\ Ask([op |-> "import"])
    /\ ui' = [ui EXCEPT !.importing = TRUE]
    /\ UNCHANGED <<db, hist>>

\* Each card has its dialog, which can be left while its project is deleted.
Confirm(p) ==
    ~ui.loading /\ p \in ui.list /\ ui.confirm = None /\ ~Form /\ Set([ui EXCEPT !.confirm = p])
Cancel == ui.confirm # None /\ Set([ui EXCEPT !.confirm = None])
Delete ==
    /\ ui.confirm \notin {None} \cup ui.deleting
    /\ Ask([op |-> "delete", p |-> ui.confirm])
    /\ ui' = [ui EXCEPT !.deleting = @ \cup {ui.confirm}]
    /\ UNCHANGED <<db, hist>>

-----------------------------------------------------------------------------
\* require_project_quota, and the lock of an organization over its limits.
Restricted == ~db.paid /\ Cardinality(db.projects) > MaxProjects
Accepts(q) ==
    /\ ~Restricted
    /\ IF q.op = "delete" THEN q.p \in db.projects
       ELSE db.paid \/ Cardinality(db.projects) < MaxProjects
Write(s) ==
    /\ s \in Writing /\ net[s].st = "sent" /\ Accepts(net[s])
    /\ db.changes < MaxChanges
    /\ \E p \in IF net[s].op = "delete" THEN {net[s].p} ELSE Projects \ db.projects :
           db' = [db EXCEPT !.projects = IF net[s].op = "delete" THEN @ \ {p} ELSE @ \cup {p},
                            !.changes = @ + 1]
    /\ Answer(s, TRUE)
    /\ UNCHANGED <<ui, hist>>
Read(s) ==
    /\ At(s, "list", "sent") \/ At(s, "billing", "sent")
    /\ Answer(s, IF net[s].op = "list" THEN db.projects ELSE IF db.paid THEN "crew" ELSE "solo")
    /\ UNCHANGED <<ui, db, hist>>
\* Other sessions, and Stripe's word of the subscription.
Elsewhere(d) ==
    /\ db.changes < MaxChanges /\ d # db
    /\ db' = [d EXCEPT !.changes = @ + 1]
    /\ hist' = [hist EXCEPT !.odd = TRUE]
    /\ UNCHANGED <<net, ui>>

-----------------------------------------------------------------------------
\* What the handler of a change sets, whether it went well or not.
Through(s) ==
    CASE net[s].op = "create" -> [ui EXCEPT !.creating = FALSE]
      [] net[s].op = "import" -> [ui EXCEPT !.importing = FALSE]
      [] net[s].op = "delete" -> [ui EXCEPT !.deleting = @ \ {net[s].p},
                                            !.confirm = IF @ = net[s].p THEN None ELSE @]
Aged(keep) ==
    [s \in Slots |-> IF s # keep /\ net[s].op = "list" THEN [net[s] EXCEPT !.old = TRUE] ELSE net[s]]
Done(s) ==
    /\ s \in Writing /\ net[s].st = "done"
    /\ net' = [Aged(s) EXCEPT ![s] = Asked(List)]
    /\ ui' = IF net[s].op = "create" THEN [Through(s) EXCEPT !.open = FALSE] ELSE Through(s)
    /\ UNCHANGED <<db, hist>>

\* A card that is not listed any more goes, and its dialog with it.
Load(s) ==
    /\ At(s, "list", "done")
    /\ Settle(s)
    /\ ui' = [ui EXCEPT !.loading = FALSE, !.list = net[s].ans, !.deleting = @ \cap net[s].ans,
                        !.confirm = IF @ \in net[s].ans THEN @ ELSE None]
    /\ hist' = [hist EXCEPT !.odd = @ \/ (net[s].old /\ Flying("list") = {s})]
    /\ UNCHANGED db
Billed(s) ==
    /\ At(s, "billing", "done")
    /\ Settle(s)
    /\ ui' = [ui EXCEPT !.billing = net[s].ans, !.asking = FALSE]
    /\ UNCHANGED <<db, hist>>
Failed(s) ==
    /\ net[s].st \in {"sent", "done"}
    /\ Settle(s)
    /\ ui' = CASE net[s].op = "list"    -> [ui EXCEPT !.loading = FALSE]
               [] net[s].op = "billing" -> [ui EXCEPT !.asking = FALSE]
               [] OTHER                 -> Through(s)
    /\ hist' = [hist EXCEPT !.odd = TRUE]
    /\ UNCHANGED db

Next ==
    \/ Open \/ Close \/ Create \/ Import \/ Cancel \/ Delete
    \/ \E p \in Projects : Confirm(p)
    \/ \E p \in Projects : Elsewhere([db EXCEPT !.projects = @ \cup {p}]) \/ Elsewhere([db EXCEPT !.projects = @ \ {p}])
    \/ \E paid \in BOOLEAN : Elsewhere([db EXCEPT !.paid = paid])
    \/ \E s \in Slots : Write(s) \/ Read(s) \/ Done(s) \/ Load(s) \/ Billed(s) \/ Failed(s)
Spec == Init /\ [][Next]_vars

-----------------------------------------------------------------------------
TypeOK ==
    /\ ui.list \subseteq Projects /\ db.projects \subseteq Projects
    /\ ui.billing \in {None, "solo", "crew"}
    /\ ui.confirm \in ui.list \cup {None}
    /\ ui.creating <=> Flying("create") # {}
    /\ ui.importing <=> Flying("import") # {}
    /\ \A p \in ui.deleting : \E s \in Flying("delete") : net[s].p = p

\* With nothing under way the list is the organization's, unless a request
\* failed, an older list came last, or another session changed it.
ShowsProjects == Quiet /\ ~hist.odd => ui.list = db.projects

\* A project the page offers to create, the plan has room for: a request no
\* other one overlapped is not refused, unless another session changed the
\* projects or the plan, or a request failed.
OfferedIsAllowed ==
    \A s \in Slots : At(s, "create", "sent") /\ net[s].alone /\ ~hist.odd => Accepts(net[s])
==============================================================================
