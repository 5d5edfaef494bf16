------------------------------ MODULE UsersPage ------------------------------
(***************************************************************************)
(* The administrators' page of users (app/settings/users/page.tsx) against *)
(* schema/auth.rs.  The page asks once who the user is, and for the list   *)
(* again after every change it makes itself.  The server goes by the role  *)
(* in the session's token, the page by the one in the database.            *)
(***************************************************************************)
EXTENDS Requests

CONSTANTS
    Users, Self,    \* Self is at this page
    MaxAdmins, MaxMembers,      \* what an organization that does not pay may have
    MaxChanges      \* bound: changes at the server

VARIABLES ui, db, hist

vars == <<net, ui, db, hist>>

Roles == {"admin", "member"}
Listed == [Users -> Roles \cup {"out"}]
Admins(list) == {u \in Users : list[u] = "admin"}
Others(list) == {u \in Users : list[u] = "member"}
\* The page's isLastAdmin and the server's is_last_admin.
LastAdmin(list, u) == list[u] = "admin" /\ Cardinality(Admins(list)) <= 1

Fresh == [loading |-> TRUE, me |-> "out", list |-> [u \in Users |-> "out"], open |-> FALSE, busy |-> FALSE]
Init ==
    /\ \E role \in Listed, token \in Roles, paid \in BOOLEAN :
           /\ Admins(role) # {}
           /\ db = [role |-> role, token |-> token, paid |-> paid, changes |-> 0]
    /\ ui = Fresh
    /\ net = [NoCalls EXCEPT ![1] = Asked([op |-> "me"])]
    /\ hist = [odd |-> FALSE]

-----------------------------------------------------------------------------
Page == ~ui.loading /\ ui.me = "admin"
Refresh(by) == [op |-> "members", by |-> by, old |-> FALSE]
Writes == {"role", "remove", "invite"}
Writing == UNION {Flying(op) : op \in Writes}
\* Only a request that no other one overlaps is alone.
Ask(r) ==
    LET alone == Quiet
        crowd == [s \in Slots |-> IF s \in Writing THEN [net[s] EXCEPT !.alone = FALSE] ELSE net[s]]
    IN  \E s \in Slots :
            /\ net[s] = NoCall
            /\ \A t \in Slots : t < s => net[t] # NoCall
            /\ net' = [crowd EXCEPT ![s] = Asked(Extended(r, [alone |-> alone]))]
Act(r) == Page /\ Ask(r) /\ UNCHANGED <<ui, db, hist>>

ChangeRole(u, r) ==
    /\ ui.list[u] \notin {"out", r} /\ ~LastAdmin(ui.list, u)
    /\ Act([op |-> "role", u |-> u, r |-> r])
RemoveUser(u) ==
    /\ ui.list[u] # "out" /\ u # Self /\ ~LastAdmin(ui.list, u)
    /\ Act([op |-> "remove", u |-> u])
ResetPassword(u) == ui.list[u] # "out" /\ Act([op |-> "reset", u |-> u])

Open(open) ==
    /\ Page /\ open # ui.open
    /\ ui' = [ui EXCEPT !.open = open]
    /\ UNCHANGED <<net, db, hist>>
Invite(u, r) ==
    /\ Page /\ ui.open /\ ~ui.busy
    /\ Ask([op |-> "invite", u |-> u, r |-> r])
    /\ ui' = [ui EXCEPT !.busy = TRUE]
    /\ UNCHANGED <<db, hist>>

-----------------------------------------------------------------------------
\* require_member_quota.
Quota(r) ==
    \/ db.paid
    \/ IF r = "admin" THEN Cardinality(Admins(db.role)) < MaxAdmins
       ELSE Cardinality(Others(db.role)) < MaxMembers
Accepts(q) ==
    /\ db.token = "admin"
    /\ CASE q.op = "role"   -> /\ db.role[q.u] # "out" /\ (q.r = "admin" => Quota("admin"))
                               /\ q.r # "admin" => ~LastAdmin(db.role, q.u)
         [] q.op = "remove" -> db.role[q.u] # "out" /\ ~LastAdmin(db.role, q.u)
         [] q.op = "invite" -> db.role[q.u] = "out" /\ Quota(q.r)
Write(s) ==
    /\ s \in Writing /\ net[s].st = "sent" /\ Accepts(net[s])
    /\ db.changes < MaxChanges
    /\ db' = [db EXCEPT !.role[net[s].u] = IF net[s].op = "remove" THEN "out" ELSE net[s].r,
                        !.changes = @ + 1]
    /\ Answer(s, TRUE)
    /\ UNCHANGED <<ui, hist>>
\* me goes by the database, org_members and admin_reset_password by the token.
Read(s) ==
    /\ net[s].op \in {"me", "members", "reset"} /\ net[s].st = "sent"
    /\ net[s].op # "me" => db.token = "admin"
    /\ net[s].op = "reset" => db.role[net[s].u] # "out"
    /\ Answer(s, IF net[s].op = "me" THEN db.role[Self] ELSE db.role)
    /\ UNCHANGED <<ui, db, hist>>
\* Another administrator, or an invitation by one.
Elsewhere(u, r) ==
    /\ db.changes < MaxChanges /\ db.role[u] # r /\ (r # "admin" => ~LastAdmin(db.role, u))
    /\ db' = [db EXCEPT !.role[u] = r, !.changes = @ + 1]
    /\ hist' = [hist EXCEPT !.odd = TRUE]
    /\ UNCHANGED <<net, ui>>

-----------------------------------------------------------------------------
WhoAmI(s) ==
    /\ At(s, "me", "done")
    /\ IF net[s].ans = "admin" THEN Follow(s, Refresh("mount")) ELSE Settle(s)
    /\ ui' = [ui EXCEPT !.me = net[s].ans, !.loading = net[s].ans = "admin"]
    /\ UNCHANGED <<db, hist>>

\* A change is made: refresh.  Lists asked for before are old from here on.
Aged(keep) ==
    [s \in Slots |-> IF s # keep /\ net[s].op = "members" THEN [net[s] EXCEPT !.old = TRUE] ELSE net[s]]
Done(s) ==
    /\ s \in Writing /\ net[s].st = "done"
    /\ net' = [Aged(s) EXCEPT ![s] = Asked(Refresh(net[s].op))]
    /\ ui' = IF net[s].op = "invite" THEN [ui EXCEPT !.open = FALSE] ELSE ui
    /\ UNCHANGED <<db, hist>>

After(by) == [ui EXCEPT !.loading = @ /\ by # "mount", !.busy = @ /\ by # "invite"]
Members(s) ==
    /\ At(s, "members", "done")
    /\ Settle(s)
    /\ ui' = [After(net[s].by) EXCEPT !.list = net[s].ans]
    /\ hist' = [hist EXCEPT !.odd = @ \/ (net[s].old /\ Flying("members") = {s})]
    /\ UNCHANGED db

Sent(s) == At(s, "reset", "done") /\ Settle(s) /\ UNCHANGED <<ui, db, hist>>
Failed(s) ==
    /\ net[s].st \in {"sent", "done"}
    /\ Settle(s)
    /\ ui' = CASE net[s].op = "members" -> After(net[s].by)
               [] net[s].op = "invite"  -> After("invite")
               [] net[s].op = "me"      -> After("mount")
               [] OTHER                 -> ui
    /\ hist' = [hist EXCEPT !.odd = TRUE]
    /\ UNCHANGED db

Next ==
    \/ \E u \in Users, r \in Roles : ChangeRole(u, r) \/ Invite(u, r) \/ Elsewhere(u, r)
    \/ \E u \in Users : RemoveUser(u) \/ ResetPassword(u) \/ Elsewhere(u, "out")
    \/ \E open \in BOOLEAN : Open(open)
    \/ \E s \in Slots :
           Write(s) \/ Read(s) \/ WhoAmI(s) \/ Done(s) \/ Members(s) \/ Sent(s) \/ Failed(s)
Spec == Init /\ [][Next]_vars

-----------------------------------------------------------------------------
TypeOK ==
    /\ ui.list \in Listed /\ db.role \in Listed /\ Admins(db.role) # {}
    /\ ui.busy => \E s \in Slots : net[s].op = "invite" \/ (net[s].op = "members" /\ net[s].by = "invite")

\* With nothing under way an administrator sees the organization's users,
\* unless a request failed, an older list came last, or another session changed
\* them.
ShowsMembers == Quiet /\ Page /\ ~hist.odd => ui.list = db.role

\* What the page offers the server does: a demotion or a removal that no other
\* request overlapped is not refused, unless another session changed the users
\* or a request failed.
OfferedIsAllowed ==
    \A s \in Slots :
        /\ At(s, "remove", "sent") \/ (At(s, "role", "sent") /\ net[s].r # "admin")
        /\ net[s].alone /\ ~hist.odd
        => Accepts(net[s])
==============================================================================
