------------------------------- MODULE Billing -------------------------------
(***************************************************************************)
(* The subscription of one organization (billing.rs, schema/billing.rs,    *)
(* the webhook of lib.rs) with the billing pages of its admins             *)
(* (lib/billing.ts, app/settings/billing) and Stripe as they use it.       *)
(* Stripe sells a subscription at its hosted checkout and reports each     *)
(* change by a webhook: a snapshot, delivered at least once, in any order, *)
(* and given up after days.  The organization's row holds what the last    *)
(* webhook said.  The billing query asks Stripe itself when a paid row has *)
(* no renewal date.  "ending" is active with cancel_at_period_end,         *)
(* "active" stands for trialing too; checkout tags every subscription with *)
(* the organization's id, so that its events find their row.               *)
(***************************************************************************)
EXTENDS Requests, Sequences

CONSTANTS
    Admins,
    MaxSubs, MaxCustomers, MaxNews,     \* bounds on what Stripe makes and reports
    Sold                                \* the states a subscription is sold in

VARIABLES ui, org, stripe, hist

vars == <<net, ui, org, stripe, hist>>

ASSUME BillingAssumption ==
    /\ {MaxSubs, MaxCustomers, MaxNews, MaxCalls} \subseteq Nat
    /\ Sold \subseteq {"incomplete", "active"}

None == 0
States == {"incomplete", "active", "ending", "past_due", "canceled"}
Paid(status) == status \in {"active", "ending", "past_due"}
Plan == IF Paid(org.status) THEN "crew" ELSE "solo"

Away == [at |-> "away", plan |-> "unknown", busy |-> FALSE, returned |-> FALSE, cust |-> None]
Query(a) == [op |-> "billing", who |-> a]

Init ==
    /\ net = NoCalls
    /\ ui = [a \in Admins |-> Away]
    /\ org = [cust |-> None, sub |-> None, status |-> "none", dated |-> FALSE]
    /\ \E dated \in BOOLEAN : stripe = [customers |-> 0, subs |-> <<>>, news |-> 0, outbox |-> {}, dated |-> dated]
    /\ hist = [sub |-> None, seen |-> 0, behind |-> FALSE, lost |-> FALSE, raced |-> FALSE, double |-> FALSE]

-----------------------------------------------------------------------------
\* The page mounts and asks for the posture.
Visit(a) ==
    /\ ui[a].at = "away"
    /\ Send(Query(a))
    /\ ui' = [ui EXCEPT ![a] = [Away EXCEPT !.at = "page"]]
    /\ UNCHANGED <<org, stripe, hist>>

\* Back from a checkout that was paid: it asks once more.
Reload(a) ==
    /\ ui[a].at = "page" /\ ui[a].returned
    /\ Send(Query(a))
    /\ ui' = [ui EXCEPT ![a].returned = FALSE]
    /\ UNCHANGED <<org, stripe, hist>>

\* The page, or the gate over a locked workspace: the portal, and on the plan
\* it believes free, the checkout.
StartCheckout(a) ==
    /\ ui[a].at = "page" /\ ui[a].plan = "solo" /\ ~ui[a].busy
    /\ Len(stripe.subs) < MaxSubs
    /\ Send([op |-> "checkout", who |-> a, cust |-> None])
    /\ ui' = [ui EXCEPT ![a].busy = TRUE]
    /\ UNCHANGED <<org, stripe, hist>>

OpenPortal(a) ==
    /\ ui[a].at = "page" /\ ui[a].plan # "unknown" /\ ~ui[a].busy
    /\ Send([op |-> "portal", who |-> a])
    /\ ui' = [ui EXCEPT ![a].busy = TRUE]
    /\ UNCHANGED <<org, stripe, hist>>

-----------------------------------------------------------------------------
\* create_checkout_session.  ensure_customer reads the row ...
Racing == \E s \in Flying("checkout") : net[s].st \in {"create", "store"}

ReadCustomer(s) ==
    /\ At(s, "checkout", "sent")
    /\ net' = [net EXCEPT ![s].cust = org.cust, ![s].st = IF org.cust = None THEN "create" ELSE "session"]
    /\ hist' = [hist EXCEPT !.raced = @ \/ (org.cust = None /\ Racing)]
    /\ UNCHANGED <<ui, org, stripe>>

\* ... makes a customer at Stripe if it has none ...
MakeCustomer(s) ==
    /\ At(s, "checkout", "create") /\ stripe.customers < MaxCustomers
    /\ stripe' = [stripe EXCEPT !.customers = @ + 1]
    /\ net' = [net EXCEPT ![s].cust = stripe.customers + 1, ![s].st = "store"]
    /\ UNCHANGED <<ui, org, hist>>

\* Mutant: the customer is not written down.
ForgetCustomer(s) ==
    /\ At(s, "checkout", "store")
    /\ net' = [net EXCEPT ![s].st = "session"]
    /\ UNCHANGED <<ui, org, stripe, hist>>

\* ... and writes it down.
StoreCustomer(s) ==
    /\ At(s, "checkout", "store")
    /\ org' = [org EXCEPT !.cust = net[s].cust]
    /\ net' = [net EXCEPT ![s].st = "session"]
    /\ UNCHANGED <<ui, stripe, hist>>

MakeSession(s) ==
    /\ At(s, "checkout", "session")
    /\ Answer(s, net[s].cust)
    /\ UNCHANGED <<ui, org, stripe, hist>>

MakePortal(s) ==
    /\ At(s, "portal", "sent") /\ org.cust # None
    /\ Answer(s, org.cust)
    /\ UNCHANGED <<ui, org, stripe, hist>>

\* The billing query reads the posture: it answers, or, of a paid row without its
\* renewal date, ...
ReadPosture(s) ==
    /\ At(s, "billing", "sent")
    /\ IF Paid(org.status) /\ ~org.dated
       THEN net' = [net EXCEPT ![s].st = "ask"]
       ELSE Answer(s, Plan)
    /\ UNCHANGED <<ui, org, stripe, hist>>

\* ... reads which subscription to ask Stripe about; without one the posture
\* it has read is the answer.
ReadSubscription(s) ==
    /\ At(s, "billing", "ask")
    /\ IF org.sub # None
       THEN net' = [net EXCEPT ![s] = Extended([@ EXCEPT !.st = "heal"], [sub |-> org.sub])]
       ELSE Answer(s, "crew")
    /\ UNCHANGED <<ui, org, stripe, hist>>

\* A snapshot of a subscription, numbered in the order of what happened.
Snapshot(i, n, dated) ==
    [kind |-> "changed", n |-> n, sub |-> i, cust |-> stripe.subs[i].cust,
     state |-> stripe.subs[i].state, dated |-> dated]

\* resync_subscription fetches it (or times out) ...
Fetch(s) ==
    /\ At(s, "billing", "heal")
    /\ net' = [net EXCEPT ![s] = Extended([@ EXCEPT !.st = "got"], [news |-> Snapshot(net[s].sub, stripe.news, TRUE)])]
    /\ UNCHANGED <<ui, org, stripe, hist>>

TimeOut(s) ==
    /\ At(s, "billing", "heal")
    /\ Answer(s, Plan)
    /\ UNCHANGED <<ui, org, stripe, hist>>

\* Mutants: the end of a subscription is not applied; the type of the event is
\* taken for the status.
AppliedUnlessEnded(e) ==
    IF e.kind = "linked" THEN [org EXCEPT !.cust = e.cust, !.sub = e.sub]
    ELSE IF e.state = "canceled" THEN org
    ELSE [org EXCEPT !.sub = e.sub, !.status = e.state, !.dated = e.dated]
AppliedKind(e) == [org EXCEPT !.cust = e.cust, !.sub = e.sub, !.status = e.kind, !.dated = e.dated]

\* apply_event: the checkout links the row, every other event sets it.
Applied(e) ==
    IF e.kind = "linked" THEN [org EXCEPT !.cust = e.cust, !.sub = e.sub]
    ELSE [org EXCEPT !.sub = e.sub, !.status = e.state, !.dated = e.dated]

\* History: the newest state of a subscription that was written or given up, and
\* whether the row was set from it, or later from an older one ("behind").
Older(e) == e.sub < hist.sub \/ (e.sub = hist.sub /\ e.n < hist.seen)
Known(e, behind) == [hist EXCEPT !.sub = e.sub, !.seen = e.n, !.behind = behind]
Apply(e) ==
    /\ org' = Applied(e)
    /\ hist' = IF e.kind = "linked" THEN hist
               ELSE IF Older(e) THEN [hist EXCEPT !.behind = TRUE] ELSE Known(e, FALSE)

\* ... and writes it as if it were a webhook; the posture is read again.
Heal(s) ==
    /\ At(s, "billing", "got")
    /\ Apply(net[s].news)
    /\ net' = [net EXCEPT ![s].st = "healed"]
    /\ UNCHANGED <<ui, stripe>>

Reread(s) ==
    /\ At(s, "billing", "healed")
    /\ Answer(s, Plan)
    /\ UNCHANGED <<ui, org, stripe, hist>>

\* The API cannot reach Stripe, refuses, or its answer is lost.
Fail(s) ==
    /\ net[s].st \notin {"idle", "failed"}
    /\ Throw(s)
    /\ UNCHANGED <<ui, org, stripe, hist>>

-----------------------------------------------------------------------------
\* Stripe.  At the hosted checkout a subscription is bought ...
Pay(a, state) ==
    /\ ui[a].at = "checkout"
    /\ Len(stripe.subs) < MaxSubs
    /\ LET i == Len(stripe.subs) + 1
           sub == [cust |-> ui[a].cust, state |-> state]
           linked == [kind |-> "linked", n |-> stripe.news + 1, sub |-> i, cust |-> ui[a].cust,
                      state |-> state, dated |-> stripe.dated]
       IN  stripe' = [stripe EXCEPT !.subs = Append(@, sub), !.news = @ + 2,
                                    !.outbox = @ \cup {linked, [linked EXCEPT !.kind = "changed", !.n = @ + 1]}]
    /\ ui' = [ui EXCEPT ![a] = [Away EXCEPT !.at = "bought"]]
    /\ hist' = [hist EXCEPT !.double = @ \/ \E i \in DOMAIN stripe.subs : stripe.subs[i].state # "canceled"]
    /\ UNCHANGED <<net, org>>

\* ... or not; either way the browser is sent back to the page.
Return(a) ==
    /\ ui[a].at \in {"checkout", "bought"}
    /\ Send(Query(a))
    /\ ui' = [ui EXCEPT ![a] = [Away EXCEPT !.at = "page", !.returned = ui[a].at = "bought"]]
    /\ UNCHANGED <<org, stripe, hist>>

Becomes == [incomplete |-> {"active", "canceled"}, active |-> {"ending", "past_due", "canceled"},
            ending |-> {"active", "canceled"}, past_due |-> {"active", "canceled"}, canceled |-> {}]

\* It is paid, fails to be paid, is canceled in the portal, or ends.
Change(i, state) ==
    /\ stripe.news < MaxNews
    /\ state \in Becomes[stripe.subs[i].state]
    /\ LET e == [Snapshot(i, stripe.news + 1, stripe.dated) EXCEPT !.state = state]
       IN  stripe' = [stripe EXCEPT !.subs[i].state = state, !.news = @ + 1, !.outbox = @ \cup {e}]
    /\ UNCHANGED <<net, ui, org, hist>>

\* A webhook: the signature holds, the row is written, and Stripe hears of it
\* or will deliver the event again.
Deliver(e, heard) ==
    /\ e \in stripe.outbox
    /\ Apply(e)
    /\ stripe' = IF heard THEN [stripe EXCEPT !.outbox = @ \ {e}] ELSE stripe
    /\ UNCHANGED <<net, ui>>

GiveUp(e) ==
    /\ e \in stripe.outbox
    /\ stripe' = [stripe EXCEPT !.outbox = @ \ {e}]
    /\ hist' = IF e.kind = "linked" \/ Older(e) THEN [hist EXCEPT !.lost = TRUE]
               ELSE [Known(e, TRUE) EXCEPT !.lost = TRUE]
    /\ UNCHANGED <<net, ui, org>>

-----------------------------------------------------------------------------
Mine(s) == net[s].mine
Page(s, u) == ui' = IF Mine(s) THEN [ui EXCEPT ![net[s].who] = u] ELSE ui

\* useBilling; a failed query leaves nothing known.
Postured(s) ==
    /\ net[s].op = "billing" /\ net[s].st \in {"done", "failed"}
    /\ Settle(s)
    /\ Page(s, [ui[net[s].who] EXCEPT !.plan = IF net[s].st = "done" THEN net[s].ans ELSE "unknown"])
    /\ UNCHANGED <<org, stripe, hist>>

\* The browser leaves for the hosted checkout, and the page is gone.
Redirected(s) ==
    /\ At(s, "checkout", "done")
    /\ net' = [t \in Slots |-> IF t = s THEN NoCall
                               ELSE IF net[t] # NoCall /\ net[t].who = net[s].who THEN [net[t] EXCEPT !.mine = FALSE]
                               ELSE net[t]]
    /\ Page(s, [Away EXCEPT !.at = "checkout", !.cust = net[s].ans])
    /\ UNCHANGED <<org, stripe, hist>>

\* The portal opens in a tab of its own.
PortalOpened(s) ==
    /\ At(s, "portal", "done")
    /\ Settle(s)
    /\ Page(s, [ui[net[s].who] EXCEPT !.busy = FALSE])
    /\ UNCHANGED <<org, stripe, hist>>

\* Mutant: a refused checkout leaves the buttons disabled.
FailedBusy(s) ==
    /\ net[s].op \in {"checkout", "portal"} /\ net[s].st = "failed"
    /\ Settle(s)
    /\ UNCHANGED <<ui, org, stripe, hist>>

Failed(s) ==
    /\ net[s].op \in {"checkout", "portal"} /\ net[s].st = "failed"
    /\ Settle(s)
    /\ Page(s, [ui[net[s].who] EXCEPT !.busy = FALSE])
    /\ UNCHANGED <<org, stripe, hist>>

Person(a) == Visit(a) \/ Reload(a) \/ StartCheckout(a) \/ OpenPortal(a) \/ Return(a)
Serve(s) ==
    \/ ReadCustomer(s) \/ MakeCustomer(s) \/ StoreCustomer(s) \/ MakeSession(s) \/ MakePortal(s)
    \/ ReadPosture(s) \/ ReadSubscription(s) \/ Fetch(s) \/ TimeOut(s) \/ Heal(s) \/ Reread(s)
Settles(s) == Postured(s) \/ Redirected(s) \/ PortalOpened(s) \/ Failed(s)
Stripe ==
    \/ \E a \in Admins, state \in Sold : Pay(a, state)
    \/ \E i \in DOMAIN stripe.subs, state \in States : Change(i, state)
    \/ \E e \in stripe.outbox : GiveUp(e) \/ \E heard \in BOOLEAN : Deliver(e, heard)

Work(s) == Serve(s) \/ Fail(s) \/ Settles(s)

Next == Stripe \/ (\E a \in Admins : Person(a)) \/ \E s \in Slots : Work(s)
Spec == Init /\ [][Next]_vars

\* Requests go on: every call of Stripe has a timeout, and what is neither
\* answered nor refused is thrown to its handler.
FairSpec == Spec /\ \A s \in Slots : WF_vars(Work(s))

-----------------------------------------------------------------------------
TypeOK ==
    /\ org.cust \in 0 .. stripe.customers /\ org.sub \in 0 .. Len(stripe.subs)
    /\ org.status \in States \cup {"none"}
    /\ \A s \in Slots : net[s] # NoCall => net[s].who \in Admins

Paying == \E i \in DOMAIN stripe.subs : Paid(stripe.subs[i].state)

\* Once its webhooks are in, an organization has access just while one of its
\* subscriptions is paid.  The exceptions: what was written last, by a webhook or
\* by the repair of the billing query, was older than what had been written or
\* given up before, and nothing has been written since; or a second subscription
\* was bought beside a live one.  So a late, repeated or lost webhook and a stale
\* repair do harm until the next newer state is written; a link alone does none.
AccessIsPaid ==
    stripe.outbox = {} /\ ~hist.behind /\ ~hist.double => (Paid(org.status) <=> Paying)

\* The portal of the organization's customer reaches each subscription that
\* is paid, unless two first checkouts ran at the same time.
PortalReachesPayer ==
    ~hist.raced => \A i \in DOMAIN stripe.subs : stripe.subs[i].cust = org.cust

\* The buttons of the page come back.
BusyEnds == \A a \in Admins : ui[a].busy ~> ~ui[a].busy

\* billing.rs:305: each event just upserts the current subscription state.
UpsertsCurrent ==
    stripe.outbox = {} /\ ~hist.lost /\ Len(stripe.subs) = 1 => org.status = stripe.subs[1].state
=============================================================================
