------------------------------- MODULE MCBilling -------------------------------
(* Billing for TLC, in two parts: a single admin over two subscriptions and  *)
(* what Stripe reports of them without a renewal date, and two admins whose  *)
(* first checkouts may overlap.  A part has fewer steps than Billing, and no *)
(* others.                                                                   *)
EXTENDS Billing

CONSTANT Second     \* the other admin

Alone ==
    /\ ~stripe.dated
    /\ ui[Second] = Away /\ \A s \in Slots \ {1} : net[s] = NoCall
    /\ stripe.customers < 2
    /\ \A i \in DOMAIN stripe.subs : stripe.subs[i].state # "incomplete"

Both ==
    /\ stripe.dated
    /\ Len(stripe.subs) < 2 /\ stripe.news < 3
    /\ \A i \in DOMAIN stripe.subs : stripe.subs[i].state = "incomplete"

\* No checkout is begun after one was paid.
Bounded == Alone' \/ (Both' /\ (stripe.subs # <<>> => Flying("checkout")' \subseteq Flying("checkout")))
BoundedSpec == Init /\ [][Next /\ Bounded]_vars /\ \A s \in Slots : WF_vars(Work(s) /\ Bounded)
===============================================================================
