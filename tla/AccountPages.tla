---------------------------- MODULE AccountPages -----------------------------
(***************************************************************************)
(* One person's account from the outside: the pages that create it, prove  *)
(* its address, set its password and sign it in (login-form.tsx and its    *)
(* siblings), the shell that lets them further only with an account        *)
(* (app-shell.tsx), and the links in mails by which schema/auth.rs does    *)
(* it.  Every such page is first checked by the web server, which sends a  *)
(* signed-in visitor to the projects; a form's answer takes the visitor    *)
(* along even after the form was left.                                     *)
(***************************************************************************)
EXTENDS Requests

CONSTANTS MaxLinks, MaxTurns    \* bounds: links mailed; steps of the visitor and of administrators

VARIABLES ui, db, hist

vars == <<net, ui, db, hist>>

Kinds == {"verify", "invite", "reset"}
Links == 0 .. MaxLinks      \* 0: no link
Forms == {"login", "signup", "forgot", "verify", "accept", "reset"}
Ends == {"sent", "forgotten", "verified", "refused"}

\* The row, named by the link that came with it, and the newest link of each
\* kind that is neither used nor expired.
NoRow == [id |-> 0, password |-> FALSE, verified |-> FALSE, link |-> [k \in Kinds |-> 0]]
NewRow(password) == [NoRow EXCEPT !.id = db.n + 1, !.password = password]
At0(page) == [page |-> page, link |-> 0, me |-> FALSE, busy |-> FALSE]
Init ==
    /\ db = [row |-> NoRow, mailed |-> {}, n |-> 0]
    /\ ui = At0("login")
    /\ net = NoCalls
    /\ hist = [who |-> 0, turns |-> 0, lapsed |-> FALSE]

-----------------------------------------------------------------------------
\* A page is entered: the shell asks who this is, and a verification link is
\* used at once.
Opening(page, l, who) ==
    IF page = "app" THEN {[op |-> "me", who |-> who]}
    ELSE IF page = "verify" /\ l # 0 THEN {[op |-> "verify", l |-> l]} ELSE {}
Enter(calls, page, l, who) ==
    LET left == [s \in Slots |-> IF calls[s] = NoCall THEN NoCall ELSE [calls[s] EXCEPT !.mine = FALSE]]
    IN  /\ IF Opening(page, l, who) = {} THEN net' = left
           ELSE \E s \in Slots, r \in Opening(page, l, who) :
                    /\ left[s] = NoCall
                    /\ \A t \in Slots : t < s => left[t] # NoCall
                    /\ net' = [left EXCEPT ![s] = Asked(r)]
        /\ ui' = [At0(IF page = "verify" /\ l = 0 THEN "refused" ELSE page) EXCEPT !.link = l]

\* isAuthenticated: without an answer the visitor counts as a stranger.
Live(who) == who # 0 /\ who = db.row.id
Visit(calls, page, l, who) ==
    \E answered \in BOOLEAN :
        IF page \in Forms /\ answered /\ Live(who) THEN Enter(calls, "app", 0, who)
        ELSE Enter(calls, page, l, who)

Turn == hist.turns < MaxTurns /\ hist' = [hist EXCEPT !.turns = @ + 1]

\* The visitor follows a link of the page, or of a mail.
Navigate(page) ==
    /\ page # ui.page
    /\ Turn /\ Visit(net, page, 0, hist.who)
    /\ UNCHANGED db
FollowMail(m) ==
    /\ Turn
    /\ Visit(net, CASE m.kind = "invite" -> "accept" [] OTHER -> m.kind, m.l, hist.who)
    /\ UNCHANGED db

Submit(op) ==
    /\ ~ui.busy /\ (op \in {"accept", "reset"} => ui.link # 0)
    /\ Turn
    /\ Send([op |-> op, l |-> ui.link])
    /\ ui' = [ui EXCEPT !.busy = TRUE]
    /\ UNCHANGED db
SubmitPage == ui.page \in {"login", "signup", "forgot", "accept", "reset"} /\ Submit(ui.page)
Ask(op) == Turn /\ Send([op |-> op, who |-> hist.who]) /\ UNCHANGED <<ui, db>>
Resend == ui.page = "login" /\ Ask("resend")
Logout == ui.page = "app" /\ ui.me /\ Ask("logout")
DeleteOrganization == ui.page = "app" /\ ui.me /\ Ask("delete")

-----------------------------------------------------------------------------
\* A link is made and mailed; the mail may not go out.
Linked(row, kind) ==
    /\ db.n < MaxLinks
    /\ \E out \in BOOLEAN :
           db' = [n |-> db.n + 1, row |-> [row EXCEPT !.link[kind] = db.n + 1],
                  mailed |-> IF out THEN db.mailed \cup {[kind |-> kind, l |-> db.n + 1]} ELSE db.mailed]
Row(row) == db' = [db EXCEPT !.row = row]
Uses(kind, l) == l # 0 /\ db.row.link[kind] = l

\* mutant of Verified: verify_email takes back every link
VerifiedBare(row) == [row EXCEPT !.verified = TRUE, !.link = [k \in Kinds |-> 0]]
Verified(row) == [row EXCEPT !.verified = TRUE, !.link["verify"] = 0]
Regained(row, kind) == [row EXCEPT !.verified = TRUE, !.password = TRUE, !.link[kind] = 0]
Effect(r) ==
    LET row == db.row
    IN  CASE r.op = "signup" ->
                 row.id = 0 /\ Linked(NewRow(TRUE), "verify")
          [] r.op = "login"  -> row.password /\ row.verified /\ UNCHANGED db
          [] r.op = "resend" ->
                 IF row.id # 0 /\ ~row.verified THEN Linked(row, "verify") ELSE UNCHANGED db
          [] r.op = "forgot" -> IF row.password THEN Linked(row, "reset") ELSE UNCHANGED db
          [] r.op = "verify" -> Uses("verify", r.l) /\ Row(Verified(row))
          [] r.op = "accept" -> Uses("invite", r.l) /\ Row(Regained(row, "invite"))
          [] r.op = "reset"  -> Uses("reset", r.l) /\ Row(Regained(row, "reset"))
          [] r.op = "delete" -> IF Live(r.who) THEN Row(NoRow) ELSE UNCHANGED db
          [] OTHER           -> UNCHANGED db
\* me: the row of the session, if there is one; a login answers its row.
Word(r) == IF r.op = "me" THEN Live(r.who) ELSE db.row.id
Serve(s) ==
    /\ net[s].st = "sent"
    /\ Effect(net[s])
    /\ Answer(s, Word(net[s]))
    /\ UNCHANGED <<ui, hist>>

\* Administrators of the organization, and time.
Invite == db.row.id = 0 /\ Linked(NewRow(FALSE), "invite") /\ Turn /\ UNCHANGED <<net, ui>>
AdminReset == db.row.id # 0 /\ Linked(db.row, "reset") /\ Turn /\ UNCHANGED <<net, ui>>
Remove ==
    /\ db.row.id # 0 /\ Row(NoRow)
    /\ Turn /\ UNCHANGED <<net, ui>>
Expire(kind) ==
    /\ db.row.link[kind] # 0 /\ hist.turns < MaxTurns
    /\ Row([db.row EXCEPT !.link[kind] = 0])
    /\ hist' = [hist EXCEPT !.turns = @ + 1, !.lapsed = @ \/ kind = "invite"]
    /\ UNCHANGED <<net, ui>>

-----------------------------------------------------------------------------
Settled(s) == [net EXCEPT ![s] = NoCall]
Cookie(who) == hist' = [hist EXCEPT !.who = who]
\* The handlers that end on another page go there, left or not.
SignedIn(s) ==
    /\ At(s, "login", "done") \/ At(s, "accept", "done")
    /\ Cookie(net[s].ans)
    /\ IF ui.page = "app" THEN net' = Settled(s) /\ UNCHANGED ui ELSE Enter(Settled(s), "app", 0, net[s].ans)
    /\ UNCHANGED db
SignedOut(s) ==
    /\ At(s, "logout", "done") \/ At(s, "delete", "done")
    /\ Cookie(0)
    /\ Visit(Settled(s), "login", 0, 0)
    /\ UNCHANGED db
ToLogin(s) ==
    /\ \/ At(s, "reset", "done")
       \/ At(s, "me", "done") /\ ~net[s].ans
       \/ net[s].op \in {"me", "logout"} /\ net[s].st \in {"sent", "done"}     \* failed
    /\ Visit(Settled(s), "login", 0, hist.who)
    /\ UNCHANGED <<db, hist>>
\* The others show on their own page, if it is still there.
Mine(s, u) ==
    /\ net' = Settled(s)
    /\ ui' = IF net[s].mine THEN u ELSE ui
    /\ UNCHANGED <<db, hist>>
Shown(s) == At(s, "me", "done") /\ net[s].ans /\ Mine(s, [ui EXCEPT !.me = TRUE])
Ended(s) ==
    \/ At(s, "signup", "done") /\ Mine(s, [ui EXCEPT !.page = "sent", !.busy = FALSE])
    \/ At(s, "forgot", "done") /\ Mine(s, [ui EXCEPT !.page = "forgotten", !.busy = FALSE])
    \/ At(s, "verify", "done") /\ Mine(s, [ui EXCEPT !.page = "verified"])
    \/ At(s, "resend", "done") /\ Mine(s, ui)
Failed(s) ==
    /\ net[s].st \in {"sent", "done"}
    /\ CASE net[s].op = "verify"               -> Mine(s, [ui EXCEPT !.page = "refused"])
         [] net[s].op \in {"resend", "delete"} -> Mine(s, ui)
         [] net[s].op \notin {"me", "logout"}  -> Mine(s, [ui EXCEPT !.busy = FALSE])
         [] OTHER                              -> FALSE

Next ==
    \/ \E page \in Forms \cup {"app"} : Navigate(page)
    \/ \E m \in db.mailed : FollowMail(m)
    \/ SubmitPage \/ Resend \/ Logout \/ DeleteOrganization \/ Invite \/ AdminReset \/ Remove
    \/ \E k \in Kinds : Expire(k)
    \/ \E s \in Slots :
           Serve(s) \/ SignedIn(s) \/ SignedOut(s) \/ ToLogin(s) \/ Shown(s) \/ Ended(s) \/ Failed(s)
Spec == Init /\ [][Next]_vars

-----------------------------------------------------------------------------
TypeOK ==
    /\ db.row.link \in [Kinds -> 0 .. db.n] /\ db.n \in Links
    /\ ui.page \in Forms \cup Ends \cup {"app"} /\ ui.link \in Links
    /\ hist.who \in Links
    /\ ui.busy => \E s \in Slots : net[s].op = ui.page /\ net[s].mine

\* What the shell shows, it shows to a visitor with a session, and that session
\* is of an account that has a password and a proved address: however links,
\* logins, logouts and removals of the account cross.
Guarded == ui.me => ui.page = "app" /\ hist.who # 0
Earned == Live(hist.who) => db.row.password /\ db.row.verified

\* Nobody is locked out: an account has a password, which its owner can also
\* reset, or an invitation that can still be accepted, unless it ran out.
WayIn == db.row.id # 0 => db.row.password \/ db.row.link["invite"] # 0 \/ hist.lapsed
==============================================================================
