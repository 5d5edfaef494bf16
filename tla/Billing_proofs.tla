--------------------------- MODULE Billing_proofs ---------------------------
(* What is proved of an organization's subscription, for any number of      *)
(* admins, requests, subscriptions and customers.                            *)
EXTENDS Billing, TLAPS

Plans == {"unknown", "solo", "crew"}
UiType == [at : {"away", "page", "checkout", "bought"}, plan : Plans, busy : BOOLEAN,
           returned : BOOLEAN, cust : Nat]
OrgType == [cust : Nat, sub : Nat, status : States \cup {"none"}, dated : BOOLEAN]
Sub == [cust : Nat, state : States]
Event == [kind : {"linked", "changed"}, n : Nat, sub : Nat, cust : Nat, state : States, dated : BOOLEAN]
StripeType == [customers : Nat, subs : Seq(Sub), news : Nat, outbox : SUBSET Event, dated : BOOLEAN]
HistType == [sub : Nat, seen : Nat, behind : BOOLEAN, lost : BOOLEAN, raced : BOOLEAN, double : BOOLEAN]

\* An event of a subscription there is, no younger than the last one.
EventOK(e) == e \in Event /\ e.sub \in 1 .. Len(stripe.subs) /\ e.n <= stripe.news /\ e.cust <= stripe.customers

Opened(r) == {"op", "st", "mine", "who"} \subseteq DOMAIN r /\ r.mine \in BOOLEAN /\ r.who \in Admins
BillingCall(r) ==
    /\ Opened(r)
    /\ r.st \in {"sent", "ask", "heal", "got", "healed", "done", "failed"}
    /\ "sub" \in DOMAIN r => r.st \notin {"sent", "ask"}
    /\ "news" \in DOMAIN r => r.st \notin {"sent", "ask", "heal"}
    /\ "ans" \in DOMAIN r => r.st \in {"done", "failed"}
    /\ r.st = "heal" => "sub" \in DOMAIN r /\ r.sub \in 1 .. Len(stripe.subs)
    /\ r.st = "got" => "news" \in DOMAIN r /\ EventOK(r.news)
    /\ r.st = "done" => "ans" \in DOMAIN r /\ r.ans \in Plans
CheckoutCall(r) ==
    /\ Opened(r) /\ "cust" \in DOMAIN r /\ r.cust \in 0 .. stripe.customers
    /\ r.st \in {"sent", "create", "store", "session", "done", "failed"}
    /\ "ans" \in DOMAIN r => r.st \in {"done", "failed"}
    /\ r.st = "done" => "ans" \in DOMAIN r /\ r.ans = r.cust
PortalCall(r) ==
    /\ Opened(r)
    /\ r.st \in {"sent", "done", "failed"}
SlotOK(r) ==
    \/ r = NoCall
    \/ r.op = "billing" /\ BillingCall(r)
    \/ r.op = "checkout" /\ CheckoutCall(r)
    \/ r.op = "portal" /\ PortalCall(r)

UiOK == ui \in [Admins -> UiType] /\ \A a \in Admins : ui[a].cust <= stripe.customers
OrgOK == org \in OrgType /\ org.cust <= stripe.customers /\ org.sub <= Len(stripe.subs)
StripeOK ==
    /\ stripe \in StripeType
    /\ \A i \in DOMAIN stripe.subs : stripe.subs[i].cust <= stripe.customers
    /\ \A e \in stripe.outbox : EventOK(e)
HistOK == hist \in HistType /\ hist.sub <= Len(stripe.subs) /\ hist.seen <= stripe.news
NetOK == DOMAIN net = Slots /\ \A s \in Slots : SlotOK(net[s])
Types == UiOK /\ OrgOK /\ StripeOK /\ HistOK /\ NetOK

-----------------------------------------------------------------------------
\* What Stripe says last of the last subscription bought.
Last == Len(stripe.subs)
Current(e) == e.kind = "changed" /\ e.sub = Last /\ e.state = stripe.subs[Last].state

\* Without a second subscription beside a live one, all but the last are over.
Over == ~hist.double => \A i \in 1 .. Last - 1 : stripe.subs[i].state = "canceled"

\* The newest event is the last subscription's state now; what the billing
\* query holds may also be of an earlier one.
Newest ==
    ~hist.double =>
        /\ \A e \in stripe.outbox : e.n = stripe.news => Current(e)
        /\ \A s \in Slots : At(s, "billing", "got") /\ net[s].news.n = stripe.news =>
              Current(net[s].news) \/ net[s].news.sub < Last

\* The newest event is still to come, or it is the newest that was written or
\* given up.
Told == hist.sub = Last /\ hist.seen = stripe.news
InTime == ~hist.double /\ Last > 0 => Told \/ \E e \in stripe.outbox : e.n = stripe.news

\* A row set from the newest event says what Stripe does.
Right == ~hist.double /\ Last > 0 /\ Told /\ ~hist.behind => org.status = stripe.subs[Last].state

\* Nothing was bought: nothing is known.
Unsold == Last = 0 => org.status = "none"

SubscriptionInv == Over /\ Newest /\ InTime /\ Right /\ Unsold

\* Without a race every purchase is of the customer the row names, and only one
\* request makes one.
Named(c) == c # None /\ c = org.cust
OneMaker ==
    /\ \A s \in Slots : net[s].op = "checkout" /\ net[s].st \in {"create", "store"} => org.cust = None
    /\ \A s, t \in Slots : s # t /\ net[s].op = "checkout" /\ net[t].op = "checkout"
          => ~({net[s].st, net[t].st} \subseteq {"create", "store"})
    /\ \A s \in Slots : net[s].op = "checkout" /\ net[s].st = "store" => net[s].cust # None
AllKnown ==
    /\ \A s \in Slots : net[s].op = "checkout" /\ net[s].st \in {"session", "done"} => Named(net[s].cust)
    /\ \A s \in Slots : net[s].op = "billing" /\ net[s].st = "got" => Named(net[s].news.cust)
    /\ \A a \in Admins : ui[a].at = "checkout" => Named(ui[a].cust)
    /\ \A i \in DOMAIN stripe.subs : Named(stripe.subs[i].cust)
    /\ \A e \in stripe.outbox : Named(e.cust)
PortalInv == ~hist.raced => OneMaker /\ AllKnown

-----------------------------------------------------------------------------
\* What the steps of a request do to its record.
LEMMA AskedFields ==
    ASSUME NEW r, {"op", "who"} \subseteq DOMAIN r, {"st", "mine"} \cap DOMAIN r = {}
    PROVE  /\ DOMAIN Asked(r) = DOMAIN r \cup {"st", "mine"}
           /\ Asked(r).st = "sent" /\ Asked(r).mine = TRUE
           /\ \A f \in DOMAIN r : Asked(r)[f] = r[f]
BY DEF Asked, Extended

LEMMA StatePut ==
    ASSUME NEW r, NEW v, "st" \in DOMAIN r
    PROVE  LET q == [r EXCEPT !.st = v]
           IN  DOMAIN q = DOMAIN r /\ q.st = v /\ \A f \in DOMAIN r \ {"st"} : q[f] = r[f]
OBVIOUS

LEMMA AnsweredFields ==
    ASSUME NEW r, NEW v, "st" \in DOMAIN r, "ans" \notin DOMAIN r
    PROVE  LET q == Extended([r EXCEPT !.st = "done"], [ans |-> v])
           IN  /\ DOMAIN q = DOMAIN r \cup {"ans"} /\ q.st = "done" /\ q.ans = v
               /\ \A f \in DOMAIN r \ {"st"} : q[f] = r[f]
<1> DEFINE p == [r EXCEPT !.st = "done"]
<1>1. DOMAIN p = DOMAIN r /\ p.st = "done" /\ \A f \in DOMAIN r \ {"st"} : p[f] = r[f]
  BY StatePut
<1> HIDE DEF p
<1>2. LET q == Extended(p, [ans |-> v])
      IN  /\ DOMAIN q = DOMAIN r \cup {"ans"} /\ q.st = "done" /\ q.ans = v
          /\ \A f \in DOMAIN r \ {"st"} : q[f] = r[f]
  BY <1>1 DEF Extended
<1> QED
  BY <1>2 DEF p

-----------------------------------------------------------------------------
\* What a request may be does not change when Stripe knows more.
LEMMA SlotsKept ==
    ASSUME StripeOK, StripeOK',
           stripe.customers <= stripe'.customers, stripe.news <= stripe'.news,
           Len(stripe.subs) <= Len(stripe'.subs), NEW r, SlotOK(r)
    PROVE  SlotOK(r)'
BY DEF SlotOK, BillingCall, CheckoutCall, PortalCall, Opened, EventOK, Event, StripeOK, StripeType

LEMMA NetKept ==
    ASSUME NetOK, StripeOK, StripeOK',
           stripe.customers <= stripe'.customers, stripe.news <= stripe'.news,
           Len(stripe.subs) <= Len(stripe'.subs),
           DOMAIN net' = Slots,
           \A s \in Slots : net'[s] = net[s] \/ SlotOK(net[s])'
    PROVE  NetOK'
BY SlotsKept DEF NetOK, Slots

\* A step that leaves Stripe alone.
LEMMA StripeSame ==
    ASSUME StripeOK, stripe' = stripe
    PROVE  /\ StripeOK'
           /\ \A r : SlotOK(r)' <=> SlotOK(r)
<1>1. \A e : EventOK(e)' <=> EventOK(e)
  BY DEF EventOK
<1>2. StripeOK'
  BY <1>1 DEF StripeOK
<1>3. \A r : SlotOK(r)' <=> SlotOK(r)
  BY <1>1 DEF SlotOK, BillingCall, CheckoutCall, PortalCall, Opened
<1> QED
  BY <1>2, <1>3

\* One slot changes, Stripe does not.
LEMMA SlotPut ==
    ASSUME NetOK, StripeOK, stripe' = stripe, NEW s \in Slots, DOMAIN net' = Slots,
           \A t \in Slots \ {s} : net'[t] = net[t], SlotOK(net'[s])
    PROVE  NetOK'
<1>1. \A r : SlotOK(r)' <=> SlotOK(r)
  BY StripeSame
<1>2. \A t \in Slots : SlotOK(net[t])'
  BY <1>1 DEF NetOK
<1> QED
  BY <1>2 DEF NetOK, Slots

\* A request is sent: the page changes, nothing else.
LEMMA Sends ==
    ASSUME Types, NEW r, r.who \in Admins,
           \/ DOMAIN r = {"op", "who"} /\ (r.op = "billing" \/ r.op = "portal")
           \/ DOMAIN r = {"op", "who", "cust"} /\ r.op = "checkout" /\ r.cust = None,
           Send(r), stripe' = stripe
    PROVE  NetOK'
<1>1. PICK s \in Slots :
          /\ DOMAIN net' = Slots /\ net'[s] = Asked(r)
          /\ \A t \in Slots \ {s} : net'[t] = net[t]
  BY DEF Send, Types, NetOK
<1>2. /\ DOMAIN Asked(r) = DOMAIN r \cup {"st", "mine"}
      /\ Asked(r).st = "sent" /\ Asked(r).mine = TRUE
      /\ \A f \in DOMAIN r : Asked(r)[f] = r[f]
  BY AskedFields
<1> DEFINE q == Asked(r)
<1>3. /\ q.st = "sent" /\ q.mine = TRUE /\ q.op = r.op /\ q.who = r.who
      /\ {"op", "who", "st", "mine"} \subseteq DOMAIN q /\ {"sub", "news", "ans"} \cap DOMAIN q = {}
      /\ r.op = "checkout" => "cust" \in DOMAIN q /\ q.cust = None
  BY <1>2
<1>4. None \in 0 .. stripe.customers
  BY DEF Types, StripeOK, StripeType, None
<1> HIDE DEF q
<1>5. Opened(q)
  BY <1>3 DEF Opened
<1>6. SlotOK(q)
  BY <1>3, <1>4, <1>5 DEF SlotOK, BillingCall, CheckoutCall, PortalCall
<1> QED
  BY <1>1, <1>6, SlotPut DEF Types, q

LEMMA QuerySent ==
    ASSUME Types, NEW a \in Admins, Send(Query(a)), stripe' = stripe
    PROVE  NetOK'
<1> DEFINE r == Query(a)
<1>1. DOMAIN r = {"op", "who"} /\ r.op = "billing" /\ r.who = a
  BY DEF Query
<1>2. Send(r)
  OBVIOUS
<1> HIDE DEF r
<1> QED
  BY <1>1, <1>2, Sends

LEMMA PortalSent ==
    ASSUME Types, NEW a \in Admins, Send([op |-> "portal", who |-> a]), stripe' = stripe
    PROVE  NetOK'
<1> DEFINE r == [op |-> "portal", who |-> a]
<1>1. DOMAIN r = {"op", "who"} /\ r.op = "portal" /\ r.who = a
  OBVIOUS
<1>2. Send(r)
  OBVIOUS
<1> HIDE DEF r
<1> QED
  BY <1>1, <1>2, Sends

LEMMA CheckoutSent ==
    ASSUME Types, NEW a \in Admins, Send([op |-> "checkout", who |-> a, cust |-> None]), stripe' = stripe
    PROVE  NetOK'
<1> DEFINE r == [op |-> "checkout", who |-> a, cust |-> None]
<1>1. DOMAIN r = {"op", "who", "cust"} /\ r.op = "checkout" /\ r.who = a /\ r.cust = None
  OBVIOUS
<1>2. Send(r)
  OBVIOUS
<1> HIDE DEF r
<1> QED
  BY <1>1, <1>2, Sends

\* One admin's page changes.
LEMMA UiPut ==
    ASSUME UiOK, NEW a \in Admins, NEW u \in UiType, u.cust <= stripe.customers,
           ui' = [ui EXCEPT ![a] = u], stripe' = stripe
    PROVE  UiOK'
BY DEF UiOK

LEMMA PersonTypes ==
    ASSUME Types, NEW a \in Admins, Person(a)
    PROVE  Types'
<1> USE DEF Types
<1>1. CASE Visit(a)
  <2>2. Send(Query(a)) /\ stripe' = stripe BY <1>1 DEF Visit
  <2>1. PICK u \in UiType : u.cust = None /\ ui' = [ui EXCEPT ![a] = u]
    BY <1>1 DEF Visit, UiType, Plans, Away, None
  <2>7. u.cust <= stripe.customers BY <2>1 DEF StripeOK, StripeType, None
  <2>4. UiOK' BY <2>1, <2>2, <2>7, UiPut
  <2>3. NetOK' BY <2>2, QuerySent
  <2> QED BY <1>1, <2>3, <2>4, StripeSame DEF Visit, OrgOK, HistOK
<1>2. CASE Reload(a)
  <2>1. UiOK' BY <1>2 DEF Reload, UiOK, UiType, Plans
  <2>2. Send(Query(a)) /\ stripe' = stripe BY <1>2 DEF Reload
  <2>3. NetOK' BY <2>2, QuerySent
  <2> QED BY <1>2, <2>1, <2>3, StripeSame DEF Reload, OrgOK, HistOK
<1>3. CASE StartCheckout(a)
  <2>1. UiOK' BY <1>3 DEF StartCheckout, UiOK, UiType, Plans
  <2>2. Send([op |-> "checkout", who |-> a, cust |-> None]) /\ stripe' = stripe BY <1>3 DEF StartCheckout
  <2>3. NetOK' BY <2>2, CheckoutSent
  <2> QED BY <1>3, <2>1, <2>3, StripeSame DEF StartCheckout, OrgOK, HistOK
<1>4. CASE OpenPortal(a)
  <2>1. UiOK' BY <1>4 DEF OpenPortal, UiOK, UiType, Plans
  <2>2. Send([op |-> "portal", who |-> a]) /\ stripe' = stripe BY <1>4 DEF OpenPortal
  <2>3. NetOK' BY <2>2, PortalSent
  <2> QED BY <1>4, <2>1, <2>3, StripeSame DEF OpenPortal, OrgOK, HistOK
<1>5. CASE Return(a)
  <2>2. Send(Query(a)) /\ stripe' = stripe BY <1>5 DEF Return
  <2> DEFINE b == ui[a].at = "bought"
  <2>5. b \in BOOLEAN OBVIOUS
  <2>6. ui' = [ui EXCEPT ![a] = [Away EXCEPT !.at = "page", !.returned = b]] BY <1>5 DEF Return
  <2> HIDE DEF b
  <2>1. PICK u \in UiType : u.cust = None /\ ui' = [ui EXCEPT ![a] = u]
    BY <2>5, <2>6 DEF UiType, Plans, Away, None
  <2>7. u.cust <= stripe.customers BY <2>1 DEF StripeOK, StripeType, None
  <2>4. UiOK' BY <2>1, <2>2, <2>7, UiPut
  <2>3. NetOK' BY <2>2, QuerySent
  <2> QED BY <1>5, <2>3, <2>4, StripeSame DEF Return, OrgOK, HistOK
<1> QED
  BY <1>1, <1>2, <1>3, <1>4, <1>5 DEF Person

-----------------------------------------------------------------------------
\* Steps of the checkout and the portal.
LEMMA CheckoutAt ==
    ASSUME Types, NEW s \in Slots, net[s].op = "checkout", net[s].st # "idle"
    PROVE  CheckoutCall(net[s])
BY DEF Types, NetOK, SlotOK, NoCall

LEMMA BillingAt ==
    ASSUME Types, NEW s \in Slots, net[s].op = "billing", net[s].st # "idle"
    PROVE  BillingCall(net[s])
BY DEF Types, NetOK, SlotOK, NoCall

LEMMA PortalAt ==
    ASSUME Types, NEW s \in Slots, net[s].op = "portal", net[s].st # "idle"
    PROVE  PortalCall(net[s])
BY DEF Types, NetOK, SlotOK, NoCall

\* A step of one request, and of nothing else.
LEMMA OnlySlot ==
    ASSUME Types, NEW s \in Slots, NEW q, SlotOK(q), net' = [net EXCEPT ![s] = q],
           UNCHANGED <<ui, org, stripe, hist>>
    PROVE  Types'
<1>1. NetOK'
  BY SlotPut DEF Types, NetOK
<1> QED
  BY <1>1, StripeSame DEF Types, UiOK, OrgOK, HistOK

LEMMA ReadCustomerTypes ==
    ASSUME Types, NEW s \in Slots, ReadCustomer(s)
    PROVE  Types'
<1> USE DEF Types
<1> DEFINE v == IF org.cust = None THEN "create" ELSE "session"
           p == [net[s] EXCEPT !.cust = org.cust]
           q == [p EXCEPT !.st = v]
<1>1. CheckoutCall(net[s]) /\ net[s].op = "checkout" /\ net[s].st = "sent"
  BY CheckoutAt DEF ReadCustomer, At
<1>2. v \in {"create", "session"}
  OBVIOUS
<1> HIDE DEF v
<1>3. /\ DOMAIN p = DOMAIN net[s] /\ p.cust = org.cust
      /\ p.op = "checkout" /\ p.mine = net[s].mine /\ p.who = net[s].who
  BY <1>1 DEF CheckoutCall, Opened
<1> HIDE DEF p
<1>4. /\ DOMAIN q = DOMAIN net[s] /\ q.st = v /\ q.cust = org.cust
      /\ q.op = "checkout" /\ q.mine = net[s].mine /\ q.who = net[s].who
  BY <1>3, <1>1 DEF CheckoutCall, Opened
<1> HIDE DEF q
<1>5. SlotOK(q)
  BY <1>1, <1>2, <1>4 DEF SlotOK, CheckoutCall, Opened, OrgOK, OrgType, StripeOK, StripeType
<1>6. net' = [net EXCEPT ![s] = q]
  BY DEF ReadCustomer, NetOK, q, p, v
<1>7. NetOK'
  <2>1. stripe' = stripe /\ DOMAIN net' = Slots /\ (\A t \in Slots \ {s} : net'[t] = net[t]) /\ net'[s] = q
    BY <1>6 DEF NetOK, ReadCustomer
  <2> QED
    BY <1>5, <2>1, SlotPut
<1>8. HistOK'
  BY DEF HistOK, HistType, ReadCustomer
<1> QED
  BY <1>7, <1>8, StripeSame DEF ReadCustomer, UiOK, OrgOK

LEMMA MakeCustomerTypes ==
    ASSUME Types, NEW s \in Slots, MakeCustomer(s)
    PROVE  Types'
<1> USE DEF Types
<1> DEFINE c == stripe.customers + 1
           p == [net[s] EXCEPT !.cust = c]
           q == [p EXCEPT !.st = "store"]
<1>1. CheckoutCall(net[s]) /\ net[s].op = "checkout" /\ net[s].st = "create"
  BY CheckoutAt DEF MakeCustomer, At
<1>2. c \in Nat /\ c = stripe.customers + 1
  BY DEF StripeOK, StripeType
<1>3. stripe' = [stripe EXCEPT !.customers = c] /\ net' = [net EXCEPT ![s] = q]
  BY DEF MakeCustomer, NetOK
<1> HIDE DEF c
<1>4. /\ DOMAIN p = DOMAIN net[s] /\ p.cust = c
      /\ p.op = "checkout" /\ p.mine = net[s].mine /\ p.who = net[s].who
  BY <1>1 DEF CheckoutCall, Opened
<1> HIDE DEF p
<1>5. /\ DOMAIN q = DOMAIN net[s] /\ q.st = "store" /\ q.cust = c
      /\ q.op = "checkout" /\ q.mine = net[s].mine /\ q.who = net[s].who
  BY <1>4, <1>1 DEF CheckoutCall, Opened
<1> HIDE DEF q
<1>6. /\ stripe'.customers = c /\ stripe'.subs = stripe.subs /\ stripe'.news = stripe.news
      /\ stripe'.outbox = stripe.outbox /\ stripe' \in StripeType
  BY <1>2, <1>3 DEF StripeOK, StripeType
<1>7. /\ stripe.customers \in Nat /\ stripe.news \in Nat /\ Len(stripe.subs) \in Nat
      /\ stripe.subs \in Seq(Sub) /\ stripe.customers <= c
  BY <1>2 DEF StripeOK, StripeType
<1>8. ASSUME NEW e \in stripe.outbox PROVE EventOK(e)'
  <2>1. e \in Event /\ e.cust \in Nat /\ EventOK(e)
    BY DEF StripeOK, EventOK, Event
  <2> QED
    BY <1>2, <1>6, <1>7, <2>1 DEF EventOK
<1>9. ASSUME NEW i \in DOMAIN stripe.subs PROVE stripe.subs[i].cust <= c
  <2>1. stripe.subs[i] \in Sub
    BY <1>7
  <2>2. stripe.subs[i].cust \in Nat /\ stripe.subs[i].cust <= stripe.customers
    BY <2>1 DEF StripeOK, Sub
  <2> QED
    BY <1>2, <1>7, <2>2
<1>10. StripeOK'
  BY <1>6, <1>8, <1>9 DEF StripeOK
<1>11. SlotOK(net[s])'
  <2>1. net'[s] = q
    BY <1>3 DEF NetOK
  <2> QED
    BY <1>1, <1>2, <1>5, <1>6, <1>7, <2>1 DEF SlotOK, CheckoutCall, Opened
<1>12. /\ stripe.customers <= stripe'.customers /\ stripe.news <= stripe'.news
       /\ Len(stripe.subs) <= Len(stripe'.subs)
  BY <1>6, <1>7
<1>13. NetOK'
  BY <1>3, <1>10, <1>11, <1>12, NetKept DEF NetOK
<1>14. ASSUME NEW a \in Admins PROVE ui[a].cust <= c
  <2>1. ui[a].cust \in Nat /\ ui[a].cust <= stripe.customers
    BY DEF UiOK, UiType
  <2> QED
    BY <1>2, <1>7, <2>1
<1>15. org.cust <= c
  BY <1>2, <1>7 DEF OrgOK, OrgType
<1> QED
  BY <1>6, <1>10, <1>13, <1>14, <1>15 DEF MakeCustomer, UiOK, OrgOK, HistOK

LEMMA StoreCustomerTypes ==
    ASSUME Types, NEW s \in Slots, StoreCustomer(s)
    PROVE  Types'
<1> USE DEF Types
<1> DEFINE q == [net[s] EXCEPT !.st = "session"]
<1>1. CheckoutCall(net[s]) /\ net[s].op = "checkout" /\ net[s].st = "store"
  BY CheckoutAt DEF StoreCustomer, At
<1>2. net' = [net EXCEPT ![s] = q]
  BY DEF StoreCustomer, NetOK
<1>3. /\ DOMAIN q = DOMAIN net[s] /\ q.st = "session" /\ q.cust = net[s].cust
      /\ q.op = "checkout" /\ q.mine = net[s].mine /\ q.who = net[s].who
  BY <1>1 DEF CheckoutCall, Opened
<1> HIDE DEF q
<1>4. SlotOK(q)
  BY <1>1, <1>3 DEF SlotOK, CheckoutCall, Opened
<1>5. NetOK'
  BY <1>2, <1>4, SlotPut DEF StoreCustomer, NetOK
<1>6. OrgOK'
  BY <1>1 DEF StoreCustomer, OrgOK, OrgType, CheckoutCall, StripeOK, StripeType
<1> QED
  BY <1>5, <1>6, StripeSame DEF StoreCustomer, UiOK, HistOK

LEMMA MakeSessionTypes ==
    ASSUME Types, NEW s \in Slots, MakeSession(s)
    PROVE  Types'
<1> DEFINE q == Extended([net[s] EXCEPT !.st = "done"], [ans |-> net[s].cust])
<1>1. CheckoutCall(net[s]) /\ net[s].op = "checkout" /\ net[s].st = "session"
  BY CheckoutAt DEF MakeSession, At
<1>2. net' = [net EXCEPT ![s] = q]
  BY DEF MakeSession, Answer
<1>3. /\ DOMAIN q = DOMAIN net[s] \cup {"ans"} /\ q.st = "done" /\ q.ans = net[s].cust
      /\ \A f \in DOMAIN net[s] \ {"st"} : q[f] = net[s][f]
  BY <1>1, AnsweredFields DEF CheckoutCall, Opened
<1> HIDE DEF q
<1>4. SlotOK(q)
  BY <1>1, <1>3 DEF SlotOK, CheckoutCall, Opened
<1> QED
  BY <1>2, <1>4, OnlySlot DEF MakeSession

LEMMA MakePortalTypes ==
    ASSUME Types, NEW s \in Slots, MakePortal(s)
    PROVE  Types'
<1> DEFINE p == [net[s] EXCEPT !.st = "done"]
           q == Extended(p, [ans |-> org.cust])
<1>1. PortalCall(net[s]) /\ net[s].op = "portal"
  BY PortalAt DEF MakePortal, At
<1>2. net' = [net EXCEPT ![s] = q]
  BY DEF MakePortal, Answer
<1>3. /\ DOMAIN p = DOMAIN net[s] /\ p.st = "done"
      /\ \A f \in DOMAIN net[s] \ {"st"} : p[f] = net[s][f]
  BY <1>1, StatePut DEF PortalCall, Opened
<1> HIDE DEF p
<1>4. DOMAIN p \subseteq DOMAIN q /\ \A f \in DOMAIN p : q[f] = p[f]
  BY DEF Extended
<1> HIDE DEF q
<1>5. SlotOK(q)
  BY <1>1, <1>3, <1>4 DEF SlotOK, PortalCall, Opened
<1> QED
  BY <1>2, <1>5, OnlySlot DEF MakePortal

LEMMA FailTypes ==
    ASSUME Types, NEW s \in Slots, Fail(s)
    PROVE  Types'
<1> DEFINE q == [net[s] EXCEPT !.st = "failed"]
<1>1. SlotOK(net[s]) /\ net[s] # NoCall
  BY DEF Fail, NoCall, Types, NetOK
<1>2. net' = [net EXCEPT ![s] = q]
  BY DEF Fail, Throw, Types, NetOK
<1>3. /\ DOMAIN q = DOMAIN net[s] /\ q.st = "failed"
      /\ \A f \in DOMAIN net[s] \ {"st"} : q[f] = net[s][f]
  BY <1>1, StatePut DEF SlotOK, BillingCall, CheckoutCall, PortalCall, Opened
<1> HIDE DEF q
<1>4. SlotOK(q)
  <2>1. Opened(net[s])
    BY <1>1 DEF SlotOK, BillingCall, CheckoutCall, PortalCall
  <2>2. Opened(q) /\ q.op = net[s].op
    BY <1>3, <2>1 DEF Opened
  <2> QED
    BY <1>1, <1>3, <2>1, <2>2 DEF SlotOK, BillingCall, CheckoutCall, PortalCall
<1> QED
  BY <1>2, <1>4, OnlySlot DEF Fail

-----------------------------------------------------------------------------
\* Steps of the billing query.
LEMMA BillingAnswers ==
    ASSUME Types, NEW s \in Slots, net[s].op = "billing", net[s].st \in {"sent", "ask", "heal", "healed"},
           NEW v \in Plans, Answer(s, v), UNCHANGED <<ui, org, stripe, hist>>
    PROVE  Types'
<1> DEFINE p == [net[s] EXCEPT !.st = "done"]
           q == Extended(p, [ans |-> v])
<1>1. BillingCall(net[s]) /\ "ans" \notin DOMAIN net[s] /\ "st" \in DOMAIN net[s]
  BY BillingAt DEF BillingCall, Opened
<1>2. net' = [net EXCEPT ![s] = q]
  BY DEF Answer
<1>3. DOMAIN p = DOMAIN net[s] /\ p.st = "done" /\ \A f \in DOMAIN net[s] \ {"st"} : p[f] = net[s][f]
  BY <1>1, StatePut
<1> HIDE DEF p
<1>4. /\ DOMAIN q = DOMAIN net[s] \cup {"ans"} /\ q.st = "done" /\ q.ans = v
      /\ \A f \in DOMAIN net[s] \ {"st"} : q[f] = net[s][f]
  BY <1>1, <1>3 DEF Extended
<1> HIDE DEF q
<1>5. Opened(q) /\ q.op = "billing"
  BY <1>1, <1>4 DEF BillingCall, Opened
<1>6. BillingCall(q)
  BY <1>1, <1>4, <1>5 DEF BillingCall
<1> QED
  BY <1>2, <1>5, <1>6, OnlySlot DEF SlotOK

LEMMA PlanKnown == Plan \in Plans
BY DEF Plan, Plans

LEMMA ReadPostureTypes ==
    ASSUME Types, NEW s \in Slots, ReadPosture(s)
    PROVE  Types'
<1>1. BillingCall(net[s]) /\ net[s].op = "billing" /\ net[s].st = "sent"
  BY BillingAt DEF ReadPosture, At
<1>2. CASE Paid(org.status) /\ ~org.dated
  <2> DEFINE q == [net[s] EXCEPT !.st = "ask"]
  <2>1. net' = [net EXCEPT ![s] = q] /\ UNCHANGED <<ui, org, stripe, hist>>
    BY <1>2 DEF ReadPosture, Types, NetOK
  <2>2. /\ DOMAIN q = DOMAIN net[s] /\ q.st = "ask"
        /\ \A f \in DOMAIN net[s] \ {"st"} : q[f] = net[s][f]
    BY <1>1, StatePut DEF BillingCall, Opened
  <2> HIDE DEF q
  <2>3. Opened(q) /\ q.op = "billing"
    BY <1>1, <2>2 DEF BillingCall, Opened
  <2>4. BillingCall(q)
    BY <1>1, <2>2, <2>3 DEF BillingCall
  <2> QED
    BY <2>1, <2>3, <2>4, OnlySlot DEF SlotOK
<1>3. CASE ~(Paid(org.status) /\ ~org.dated)
  <2>1. Answer(s, Plan) /\ UNCHANGED <<ui, org, stripe, hist>>
    BY <1>3 DEF ReadPosture
  <2> QED
    BY <1>1, <2>1, PlanKnown, BillingAnswers
<1> QED
  BY <1>2, <1>3

LEMMA ReadSubscriptionTypes ==
    ASSUME Types, NEW s \in Slots, ReadSubscription(s)
    PROVE  Types'
<1>1. BillingCall(net[s]) /\ net[s].op = "billing" /\ net[s].st = "ask"
  BY BillingAt DEF ReadSubscription, At
<1>2. CASE org.sub # None
  <2> DEFINE p == [net[s] EXCEPT !.st = "heal"]
             q == Extended(p, [sub |-> org.sub])
  <2>1. net' = [net EXCEPT ![s] = q] /\ UNCHANGED <<ui, org, stripe, hist>>
    BY <1>2 DEF ReadSubscription, Types, NetOK
  <2>2. /\ DOMAIN p = DOMAIN net[s] /\ p.st = "heal"
        /\ \A f \in DOMAIN net[s] \ {"st"} : p[f] = net[s][f]
    BY <1>1, StatePut DEF BillingCall, Opened
  <2> HIDE DEF p
  <2>3. /\ DOMAIN q = DOMAIN net[s] \cup {"sub"} /\ q.st = "heal" /\ q.sub = org.sub
        /\ \A f \in DOMAIN net[s] \ {"st"} : q[f] = net[s][f]
    BY <1>1, <2>2 DEF BillingCall, Opened, Extended
  <2> HIDE DEF q
  <2>4. Opened(q) /\ q.op = "billing"
    BY <1>1, <2>3 DEF BillingCall, Opened
  <2>5. org.sub \in 1 .. Len(stripe.subs)
    BY <1>2 DEF Types, OrgOK, OrgType, None, StripeOK, StripeType
  <2>6. BillingCall(q)
    BY <1>1, <2>3, <2>4, <2>5 DEF BillingCall
  <2> QED
    BY <2>1, <2>4, <2>6, OnlySlot DEF SlotOK
<1>3. CASE org.sub = None
  <2>1. Answer(s, "crew") /\ UNCHANGED <<ui, org, stripe, hist>>
    BY <1>3 DEF ReadSubscription
  <2>2. "crew" \in Plans
    BY DEF Plans
  <2> QED
    BY <1>1, <2>1, <2>2, BillingAnswers
<1> QED
  BY <1>2, <1>3

LEMMA FetchTypes ==
    ASSUME Types, NEW s \in Slots, Fetch(s)
    PROVE  Types'
<1> DEFINE p == [net[s] EXCEPT !.st = "got"]
           e == Snapshot(net[s].sub, stripe.news, TRUE)
           q == Extended(p, [news |-> e])
<1>1. BillingCall(net[s]) /\ net[s].op = "billing" /\ net[s].st = "heal"
  BY BillingAt DEF Fetch, At
<1>2. net' = [net EXCEPT ![s] = q] /\ UNCHANGED <<ui, org, stripe, hist>>
  BY DEF Fetch, Types, NetOK
<1>3. EventOK(e)
  <2>1. PICK i \in 1 .. Len(stripe.subs) : i = net[s].sub
    BY <1>1 DEF BillingCall
  <2>2. /\ stripe.subs[i] \in Sub /\ stripe.subs[i].cust <= stripe.customers
        /\ stripe.news \in Nat /\ i \in Nat
    BY DEF Types, StripeOK, StripeType
  <2> QED
    BY <2>1, <2>2 DEF Snapshot, EventOK, Event, Sub
<1> HIDE DEF e
<1>4. /\ DOMAIN p = DOMAIN net[s] /\ p.st = "got"
      /\ \A f \in DOMAIN net[s] \ {"st"} : p[f] = net[s][f]
  BY <1>1, StatePut DEF BillingCall, Opened
<1> HIDE DEF p
<1>5. /\ DOMAIN q = DOMAIN net[s] \cup {"news"} /\ q.st = "got" /\ q.news = e
      /\ \A f \in DOMAIN net[s] \ {"st"} : q[f] = net[s][f]
  BY <1>1, <1>4 DEF BillingCall, Opened, Extended
<1> HIDE DEF q
<1>6. Opened(q) /\ q.op = "billing"
  BY <1>1, <1>5 DEF BillingCall, Opened
<1>7. BillingCall(q)
  BY <1>1, <1>3, <1>5, <1>6 DEF BillingCall
<1> QED
  BY <1>2, <1>6, <1>7, OnlySlot DEF SlotOK

\* What is known of the newest event.
LEMMA KnownTypes ==
    ASSUME HistOK, NEW e, EventOK(e), NEW h,
           h = hist \/ h = [hist EXCEPT !.behind = TRUE] \/ \E b \in BOOLEAN : h = Known(e, b)
    PROVE  h \in HistType /\ h.sub <= Len(stripe.subs) /\ h.seen <= stripe.news
<1>1. e.sub \in Nat /\ e.n \in Nat /\ e.sub <= Len(stripe.subs) /\ e.n <= stripe.news /\ hist \in HistType
  BY DEF EventOK, Event, HistOK
<1>2. ASSUME NEW b \in BOOLEAN, h = Known(e, b)
      PROVE  h \in HistType /\ h.sub = e.sub /\ h.seen = e.n
  BY <1>1, <1>2 DEF Known, HistType
<1>3. CASE h = [hist EXCEPT !.behind = TRUE]
  BY <1>1, <1>3 DEF HistOK, HistType
<1> QED
  BY <1>1, <1>2, <1>3 DEF HistOK

\* The row an event writes.
LEMMA AppliedTypes ==
    ASSUME OrgOK, HistOK, StripeOK, NEW e, EventOK(e), Apply(e)
    PROVE  /\ org' \in OrgType /\ org'.cust <= stripe.customers /\ org'.sub <= Len(stripe.subs)
           /\ hist' \in HistType /\ hist'.sub <= Len(stripe.subs) /\ hist'.seen <= stripe.news
<1>1. org' \in OrgType /\ org'.cust <= stripe.customers /\ org'.sub <= Len(stripe.subs)
  <2>1. /\ e.cust \in Nat /\ e.sub \in Nat /\ e.state \in States /\ e.dated \in BOOLEAN
        /\ e.cust <= stripe.customers /\ e.sub <= Len(stripe.subs) /\ org \in OrgType
        /\ org.cust <= stripe.customers
    BY DEF EventOK, Event, OrgOK
  <2>2. CASE e.kind = "linked"
    <3>1. org' = [org EXCEPT !.cust = e.cust, !.sub = e.sub]
      BY <2>2 DEF Apply, Applied
    <3> QED
      BY <2>1, <3>1 DEF OrgType
  <2>3. CASE e.kind # "linked"
    <3>1. org' = [org EXCEPT !.sub = e.sub, !.status = e.state, !.dated = e.dated]
      BY <2>3 DEF Apply, Applied
    <3> QED
      BY <2>1, <3>1 DEF OrgType
  <2> QED
    BY <2>2, <2>3
<1>2. hist' \in HistType /\ hist'.sub <= Len(stripe.subs) /\ hist'.seen <= stripe.news
  BY KnownTypes DEF Apply
<1> QED
  BY <1>1, <1>2

LEMMA HealTypes ==
    ASSUME Types, NEW s \in Slots, Heal(s)
    PROVE  Types'
<1> DEFINE q == [net[s] EXCEPT !.st = "healed"]
<1>1. BillingCall(net[s]) /\ net[s].op = "billing" /\ net[s].st = "got"
  BY BillingAt DEF Heal, At
<1>2. net' = [net EXCEPT ![s] = q] /\ UNCHANGED <<ui, stripe>>
  BY DEF Heal, Types, NetOK
<1>3. /\ DOMAIN q = DOMAIN net[s] /\ q.st = "healed"
      /\ \A f \in DOMAIN net[s] \ {"st"} : q[f] = net[s][f]
  BY <1>1, StatePut DEF BillingCall, Opened
<1> HIDE DEF q
<1>4. SlotOK(q)
  BY <1>1, <1>3 DEF SlotOK, BillingCall, Opened
<1>5. NetOK'
  BY <1>2, <1>4, SlotPut DEF Types, NetOK
<1>6. EventOK(net[s].news) /\ Apply(net[s].news)
  BY <1>1 DEF BillingCall, Heal
<1>7. OrgOK' /\ HistOK'
  BY <1>2, <1>6, AppliedTypes DEF Types, OrgOK, HistOK
<1> QED
  BY <1>2, <1>5, <1>7, StripeSame DEF Types, UiOK

LEMMA ServeTypes ==
    ASSUME Types, NEW s \in Slots, Serve(s)
    PROVE  Types'
<1>1. CASE TimeOut(s)
  <2>1. net[s].op = "billing" /\ net[s].st = "heal" /\ Answer(s, Plan) /\ UNCHANGED <<ui, org, stripe, hist>>
    BY <1>1 DEF TimeOut, At
  <2> QED
    BY <2>1, PlanKnown, BillingAnswers
<1>2. CASE Reread(s)
  <2>1. net[s].op = "billing" /\ net[s].st = "healed" /\ Answer(s, Plan) /\ UNCHANGED <<ui, org, stripe, hist>>
    BY <1>2 DEF Reread, At
  <2> QED
    BY <2>1, PlanKnown, BillingAnswers
<1> QED
  BY <1>1, <1>2, ReadCustomerTypes, MakeCustomerTypes, StoreCustomerTypes, MakeSessionTypes,
     MakePortalTypes, ReadPostureTypes, ReadSubscriptionTypes, FetchTypes, HealTypes DEF Serve

-----------------------------------------------------------------------------
\* Steps of a handler.
LEMMA PagePut ==
    ASSUME UiOK, NEW s \in Slots, net[s].who \in Admins, NEW u \in UiType, u.cust <= stripe.customers,
           Page(s, u), stripe' = stripe
    PROVE  UiOK'
BY DEF Page, UiOK

LEMMA Unmounted ==
    ASSUME NEW r, r # NoCall, SlotOK(r)
    PROVE  SlotOK([r EXCEPT !.mine = FALSE])
<1> DEFINE q == [r EXCEPT !.mine = FALSE]
<1>1. Opened(r)
  BY DEF SlotOK, BillingCall, CheckoutCall, PortalCall
<1>2. DOMAIN q = DOMAIN r /\ q.mine = FALSE /\ \A f \in DOMAIN r \ {"mine"} : q[f] = r[f]
  BY <1>1 DEF Opened
<1> HIDE DEF q
<1>3. Opened(q) /\ q.op = r.op /\ q.st = r.st
  BY <1>1, <1>2 DEF Opened
<1>4. r.op = "billing" /\ BillingCall(r) => SlotOK(q)
  BY <1>2, <1>3 DEF SlotOK, BillingCall
<1>5. r.op = "checkout" /\ CheckoutCall(r) => SlotOK(q)
  BY <1>2, <1>3 DEF SlotOK, CheckoutCall
<1>6. r.op = "portal" /\ PortalCall(r) => SlotOK(q)
  BY <1>2, <1>3 DEF SlotOK, PortalCall
<1>7. SlotOK(q)
  BY <1>4, <1>5, <1>6 DEF SlotOK
<1> QED
  BY <1>7 DEF q

LEMMA Settled ==
    ASSUME Types, NEW s \in Slots, Settle(s), NEW u \in UiType, u.cust <= stripe.customers,
           net[s].who \in Admins, Page(s, u), UNCHANGED <<org, stripe, hist>>
    PROVE  Types'
<1>1. NetOK'
  BY SlotPut DEF Settle, SlotOK, Types, NetOK
<1>2. UiOK'
  BY PagePut DEF Types
<1> QED
  BY <1>1, <1>2, StripeSame DEF Types, OrgOK, HistOK

LEMMA SettlesTypes ==
    ASSUME Types, NEW s \in Slots, Settles(s)
    PROVE  Types'
<1> USE DEF Types
<1>1. net[s] # NoCall
  BY DEF Settles, Postured, Redirected, PortalOpened, Failed, At, NoCall
<1>2. Opened(net[s]) /\ net[s].who \in Admins
  BY <1>1 DEF NetOK, SlotOK, BillingCall, CheckoutCall, PortalCall, Opened
<1>3. ui[net[s].who] \in UiType /\ ui[net[s].who].cust <= stripe.customers
  BY <1>2 DEF UiOK
<1>4. CASE Postured(s)
  <2> DEFINE v == IF net[s].st = "done" THEN net[s].ans ELSE "unknown"
             u == [ui[net[s].who] EXCEPT !.plan = v]
  <2>1. v \in Plans
    BY <1>1, <1>4 DEF Postured, NetOK, SlotOK, BillingCall, Plans
  <2>2. Settle(s) /\ Page(s, u) /\ UNCHANGED <<org, stripe, hist>>
    BY <1>4 DEF Postured
  <2> HIDE DEF v
  <2>3. u \in UiType /\ u.cust <= stripe.customers
    BY <1>3, <2>1 DEF UiType
  <2> HIDE DEF u
  <2> QED
    BY <1>2, <2>2, <2>3, Settled
<1>5. CASE PortalOpened(s) \/ Failed(s)
  <2> DEFINE u == [ui[net[s].who] EXCEPT !.busy = FALSE]
  <2>1. Settle(s) /\ Page(s, u) /\ UNCHANGED <<org, stripe, hist>>
    BY <1>5 DEF PortalOpened, Failed
  <2>2. u \in UiType /\ u.cust <= stripe.customers
    BY <1>3 DEF UiType
  <2> HIDE DEF u
  <2> QED
    BY <1>2, <2>1, <2>2, Settled
<1>6. CASE Redirected(s)
  <2> DEFINE u == [Away EXCEPT !.at = "checkout", !.cust = net[s].ans]
  <2>1. CheckoutCall(net[s]) /\ net[s].ans \in 0 .. stripe.customers
    BY <1>6, CheckoutAt DEF Redirected, At, CheckoutCall
  <2>2. u \in UiType /\ u.cust <= stripe.customers
    <3>1. PICK c : c = net[s].ans
      OBVIOUS
    <3> DEFINE w == [Away EXCEPT !.at = "checkout"]
    <3>2. w \in UiType /\ u = [w EXCEPT !.cust = c]
      BY <3>1 DEF UiType, Plans, Away, None
    <3> HIDE DEF w, u
    <3>3. c \in Nat /\ c <= stripe.customers
      BY <2>1, <3>1 DEF StripeOK, StripeType
    <3> QED
      BY <3>2, <3>3 DEF UiType
  <2>3. Page(s, u) /\ UNCHANGED <<org, stripe, hist>>
    BY <1>6 DEF Redirected
  <2> HIDE DEF u
  <2>4. UiOK'
    BY <1>2, <2>2, <2>3, PagePut
  <2>5. DOMAIN net' = Slots
    BY <1>6 DEF Redirected
  <2>6. ASSUME NEW t \in Slots PROVE SlotOK(net'[t])
    <3>1. SlotOK(net[t])
      BY DEF NetOK
    <3>2. net'[t] = NoCall \/ net'[t] = net[t] \/ (net[t] # NoCall /\ net'[t] = [net[t] EXCEPT !.mine = FALSE])
      <4> DEFINE m == [net[t] EXCEPT !.mine = FALSE]
      <4>1. net'[t] = IF t = s THEN NoCall
                      ELSE IF net[t] # NoCall /\ net[t].who = net[s].who THEN m ELSE net[t]
        BY <1>6 DEF Redirected
      <4> HIDE DEF m
      <4>2. net'[t] = NoCall \/ net'[t] = net[t] \/ (net[t] # NoCall /\ net'[t] = m)
        BY <4>1
      <4> QED
        BY <4>2 DEF m
    <3>3. net[t] # NoCall => SlotOK([net[t] EXCEPT !.mine = FALSE])
      BY <3>1, Unmounted, Zenon
    <3>4. SlotOK(NoCall)
      BY DEF SlotOK
    <3> QED
      BY <3>1, <3>2, <3>3, <3>4
  <2>7. NetOK'
    BY <2>3, <2>5, <2>6, StripeSame DEF NetOK, Slots
  <2> QED
    BY <2>3, <2>4, <2>7, StripeSame DEF OrgOK, HistOK
<1> QED
  BY <1>4, <1>5, <1>6 DEF Settles

-----------------------------------------------------------------------------
\* Steps of Stripe.
LEMMA PayTypes ==
    ASSUME Types, NEW a \in Admins, NEW state \in Sold, Pay(a, state)
    PROVE  Types'
<1> USE DEF Types
<1> DEFINE i == Len(stripe.subs) + 1
           c == ui[a].cust
           n == stripe.news
           d == stripe.dated
           sub == [cust |-> c, state |-> state]
           linked == [kind |-> "linked", n |-> n + 1, sub |-> i, cust |-> c, state |-> state, dated |-> d]
           changed == [linked EXCEPT !.kind = "changed", !.n = @ + 1]
<1>1. /\ c \in Nat /\ c <= stripe.customers /\ n \in Nat /\ d \in BOOLEAN /\ state \in States
      /\ stripe.subs \in Seq(Sub) /\ stripe.customers \in Nat /\ i \in Nat /\ i >= 1
  BY BillingAssumption DEF UiOK, UiType, StripeOK, StripeType, States
<1>2. sub \in Sub /\ sub.cust = c
  BY <1>1 DEF Sub
<1>3. linked \in Event /\ linked.n = n + 1 /\ linked.sub = i /\ linked.cust = c
  BY <1>1 DEF Event
<1>4. changed \in Event /\ changed.n = n + 2 /\ changed.sub = i /\ changed.cust = c
  <2> DEFINE p == [linked EXCEPT !.kind = "changed"]
  <2>1. p \in Event /\ p.n = n + 1 /\ p.sub = i /\ p.cust = c /\ changed = [p EXCEPT !.n = @ + 1]
    BY <1>3 DEF Event
  <2> HIDE DEF p, linked, changed
  <2>2. changed = [p EXCEPT !.n = p.n + 1]
    BY <2>1
  <2> QED
    BY <1>1, <2>1, <2>2 DEF Event
<1>5. /\ stripe' = [stripe EXCEPT !.subs = Append(stripe.subs, sub), !.news = n + 2,
                                !.outbox = stripe.outbox \cup {linked, changed}]
      /\ ui' = [ui EXCEPT ![a] = [Away EXCEPT !.at = "bought"]] /\ UNCHANGED <<net, org>>
  BY <1>1 DEF Pay
<1> HIDE DEF sub, linked, changed
<1>6. /\ Append(stripe.subs, sub) \in Seq(Sub) /\ Len(Append(stripe.subs, sub)) = i
      /\ stripe.outbox \cup {linked, changed} \subseteq Event /\ n + 2 \in Nat
  BY <1>1, <1>2, <1>3, <1>4 DEF StripeOK, StripeType
<1>7. /\ stripe'.customers = stripe.customers /\ stripe'.subs = Append(stripe.subs, sub) /\ stripe'.news = n + 2
      /\ stripe'.outbox = stripe.outbox \cup {linked, changed} /\ stripe' \in StripeType
  BY <1>5, <1>6 DEF StripeOK, StripeType
<1>8. ASSUME NEW e \in stripe'.outbox PROVE EventOK(e)'
  <2>1. CASE e \in stripe.outbox
    <3>1. e \in Event /\ EventOK(e) /\ e.n \in Nat /\ e.sub \in Nat
      BY <2>1 DEF StripeOK, EventOK, Event
    <3> QED
      BY <1>1, <1>6, <1>7, <3>1 DEF EventOK
  <2>2. CASE e = linked \/ e = changed
    BY <1>1, <1>3, <1>4, <1>6, <1>7, <2>2 DEF EventOK
  <2> QED
    BY <1>7, <2>1, <2>2
<1>9. ASSUME NEW j \in DOMAIN stripe'.subs PROVE stripe'.subs[j].cust <= stripe.customers
  <2>1. j \in 1 .. i
    BY <1>6, <1>7
  <2>2. CASE j = i
    BY <1>1, <1>2, <1>7, <2>2
  <2>3. CASE j # i
    <3>1. j \in DOMAIN stripe.subs /\ stripe'.subs[j] = stripe.subs[j]
      BY <1>1, <1>7, <2>1, <2>3
    <3> QED
      BY <3>1 DEF StripeOK
  <2> QED
    BY <2>2, <2>3
<1>10. StripeOK'
  BY <1>7, <1>8, <1>9 DEF StripeOK
<1>11. NetOK'
  BY <1>1, <1>5, <1>6, <1>7, <1>10, NetKept DEF NetOK
<1>12. UiOK'
  <2>1. PICK u \in UiType : u.cust = None /\ ui' = [ui EXCEPT ![a] = u]
    BY <1>5 DEF UiType, Plans, Away, None
  <2> QED
    BY <1>1, <1>7, <2>1 DEF UiOK, None
<1>13. OrgOK'
  BY <1>1, <1>5, <1>6, <1>7 DEF OrgOK, OrgType
<1>14. HistOK'
  <2> DEFINE b == hist.double \/ \E j \in DOMAIN stripe.subs : stripe.subs[j].state # "canceled"
  <2>1. b \in BOOLEAN
    OBVIOUS
  <2>2. hist' = [hist EXCEPT !.double = b]
    BY DEF Pay
  <2> HIDE DEF b
  <2> QED
    BY <1>1, <1>6, <1>7, <2>1, <2>2 DEF HistOK, HistType
<1> QED
  BY <1>10, <1>11, <1>12, <1>13, <1>14

LEMMA SubChanged ==
    ASSUME NEW x \in Sub, NEW state \in States
    PROVE  LET y == [x EXCEPT !.state = state]
           IN  y \in Sub /\ y.cust = x.cust /\ y.state = state
BY DEF Sub

LEMMA ChangeTypes ==
    ASSUME Types, NEW i \in DOMAIN stripe.subs, NEW state \in States, Change(i, state)
    PROVE  Types'
<1> USE DEF Types
<1> DEFINE n == stripe.news
           e == [Snapshot(i, n + 1, stripe.dated) EXCEPT !.state = state]
           subs == [stripe.subs EXCEPT ![i] = [stripe.subs[i] EXCEPT !.state = state]]
<1>1. /\ n \in Nat /\ stripe.subs \in Seq(Sub) /\ stripe.customers \in Nat /\ stripe.dated \in BOOLEAN
      /\ i \in 1 .. Len(stripe.subs) /\ stripe.subs[i] \in Sub /\ stripe.subs[i].cust <= stripe.customers
  BY DEF StripeOK, StripeType
<1>2. e \in Event /\ e.n = n + 1 /\ e.sub = i /\ e.cust = stripe.subs[i].cust
  <2>1. e = [kind |-> "changed", n |-> n + 1, sub |-> i, cust |-> stripe.subs[i].cust,
             state |-> state, dated |-> stripe.dated]
    BY DEF Snapshot
  <2> QED
    BY <1>1, <2>1 DEF Event, Sub
<1>3. subs \in Seq(Sub) /\ Len(subs) = Len(stripe.subs) /\ \A j \in DOMAIN subs : subs[j].cust = stripe.subs[j].cust
  <2>1. PICK v \in Sub : v = [stripe.subs[i] EXCEPT !.state = state] /\ v.cust = stripe.subs[i].cust
    BY <1>1, SubChanged
  <2> QED
    BY <1>1, <2>1
<1>4. /\ stripe' = [stripe EXCEPT !.subs = subs, !.news = n + 1, !.outbox = stripe.outbox \cup {e}]
      /\ UNCHANGED <<net, ui, org, hist>>
  BY DEF Change
<1> HIDE DEF e, subs
<1>5. /\ stripe'.customers = stripe.customers /\ stripe'.subs = subs /\ stripe'.news = n + 1
      /\ stripe'.outbox = stripe.outbox \cup {e} /\ stripe' \in StripeType
  <2>1. subs \in Seq(Sub) /\ n + 1 \in Nat /\ stripe.outbox \cup {e} \subseteq Event /\ stripe \in StripeType
    BY <1>1, <1>2, <1>3 DEF StripeOK, StripeType
  <2> QED
    BY <1>4, <2>1 DEF StripeType
<1>6. ASSUME NEW f \in stripe'.outbox PROVE EventOK(f)'
  <2>1. CASE f \in stripe.outbox
    <3>1. f \in Event /\ EventOK(f) /\ f.n \in Nat /\ f.sub \in Nat
      BY <2>1 DEF StripeOK, EventOK, Event
    <3> QED
      BY <1>1, <1>3, <1>5, <3>1 DEF EventOK
  <2>2. CASE f = e
    BY <1>1, <1>2, <1>3, <1>5, <2>2 DEF EventOK
  <2> QED
    BY <1>5, <2>1, <2>2
<1>7. ASSUME NEW j \in DOMAIN stripe'.subs PROVE stripe'.subs[j].cust <= stripe.customers
  BY <1>1, <1>3, <1>5 DEF StripeOK
<1>8. StripeOK'
  BY <1>5, <1>6, <1>7 DEF StripeOK
<1>9. NetOK'
  BY <1>1, <1>3, <1>4, <1>5, <1>8, NetKept DEF NetOK
<1>10. HistOK'
  BY <1>1, <1>3, <1>4, <1>5 DEF HistOK, HistType
<1> QED
  BY <1>3, <1>4, <1>5, <1>8, <1>9, <1>10 DEF UiOK, OrgOK

\* A webhook leaves the outbox, or stays.
LEMMA OutboxTypes ==
    ASSUME Types, NEW e \in stripe.outbox,
           stripe' = [stripe EXCEPT !.outbox = @ \ {e}] \/ stripe' = stripe,
           UNCHANGED <<net, ui>>
    PROVE  UiOK' /\ StripeOK' /\ NetOK' /\ stripe'.customers = stripe.customers /\ stripe'.subs = stripe.subs
<1> USE DEF Types
<1>1. /\ stripe'.customers = stripe.customers /\ stripe'.subs = stripe.subs /\ stripe'.news = stripe.news
      /\ stripe'.outbox \subseteq stripe.outbox /\ stripe' \in StripeType
  BY DEF StripeOK, StripeType
<1>2. StripeOK'
  BY <1>1 DEF StripeOK, EventOK
<1>3. NetOK'
  BY <1>1, <1>2, NetKept DEF NetOK, StripeOK, StripeType
<1> QED
  BY <1>1, <1>2, <1>3 DEF UiOK

LEMMA StripeTypes ==
    ASSUME Types, Stripe
    PROVE  Types'
<1>1. ASSUME NEW e \in stripe.outbox, GiveUp(e) PROVE Types'
  <2>1. HistOK'
    <3>1. stripe'.subs = stripe.subs /\ stripe'.news = stripe.news
      BY <1>1 DEF GiveUp, Types, StripeOK, StripeType
    <3>2. PICK h : hist' = [h EXCEPT !.lost = TRUE] /\ (h = hist \/ h = Known(e, TRUE))
      BY <1>1 DEF GiveUp
    <3>3. EventOK(e) /\ HistOK
      BY DEF Types, StripeOK
    <3>4. h \in HistType /\ h.sub <= Len(stripe.subs) /\ h.seen <= stripe.news
      BY <3>2, <3>3, KnownTypes
    <3> QED
      BY <3>1, <3>2, <3>4 DEF HistOK, HistType
  <2> QED
    BY <1>1, <2>1, OutboxTypes DEF GiveUp, Types, OrgOK
<1>2. ASSUME NEW e \in stripe.outbox, NEW heard \in BOOLEAN, Deliver(e, heard) PROVE Types'
  <2>1. EventOK(e) /\ Apply(e)
    BY <1>2 DEF Deliver, Types, StripeOK
  <2>3. stripe'.subs = stripe.subs /\ stripe'.news = stripe.news
    BY <1>2 DEF Deliver, Types, StripeOK, StripeType
  <2>2. /\ org' \in OrgType /\ org'.cust <= stripe.customers /\ org'.sub <= Len(stripe.subs)
        /\ hist' \in HistType /\ hist'.sub <= Len(stripe.subs) /\ hist'.seen <= stripe.news
    BY <2>1, AppliedTypes DEF Types
  <2> QED
    BY <1>2, <2>2, <2>3, OutboxTypes DEF Deliver, Types, OrgOK, HistOK
<1> QED
  BY <1>1, <1>2, PayTypes, ChangeTypes DEF Stripe

LEMMA TypesStep == Types /\ [Next]_vars => Types'
<1> SUFFICES ASSUME Types, [Next]_vars PROVE Types'
  OBVIOUS
<1>1. CASE UNCHANGED vars
  BY <1>1, StripeSame DEF vars, Types, UiOK, OrgOK, HistOK, NetOK, Slots
<1>2. CASE Next
  BY <1>2, StripeTypes, PersonTypes, ServeTypes, FailTypes, SettlesTypes DEF Next, Work
<1> QED
  BY <1>1, <1>2

LEMMA TypesInit == Init => Types
<1> SUFFICES ASSUME Init PROVE Types
  OBVIOUS
<1>1. UiOK
  BY DEF Init, UiOK, UiType, Plans, Away, None
<1>2. OrgOK
  BY DEF Init, OrgOK, OrgType, None
<1>3. StripeOK
  BY DEF Init, StripeOK, StripeType
<1>4. HistOK
  <2>1. Len(stripe.subs) = 0 /\ stripe.news = 0
    BY DEF Init
  <2> QED
    BY <2>1 DEF Init, HistOK, HistType, None
<1>5. NetOK
  BY DEF Init, NetOK, SlotOK, NoCalls
<1> QED
  BY <1>1, <1>2, <1>3, <1>4, <1>5 DEF Types

LEMMA TypesHold == Spec => []Types
BY TypesInit, TypesStep, PTL DEF Spec

\* The row names customers and subscriptions there are, and every request is an
\* admin's (TypeOK).
THEOREM TypeCorrect == Spec => []TypeOK
<1>1. Types => TypeOK
  <2> SUFFICES ASSUME Types PROVE TypeOK
    OBVIOUS
  <2>1. \A s \in Slots : net[s] # NoCall => net[s].who \in Admins
    BY DEF Types, NetOK, SlotOK, BillingCall, CheckoutCall, PortalCall, Opened
  <2> QED
    BY <2>1 DEF TypeOK, Types, OrgOK, OrgType, StripeOK, StripeType
<1> QED
  BY <1>1, TypesHold, PTL

-----------------------------------------------------------------------------
\* What the steps do to the record of their request.
LEMMA SentState ==
    ASSUME Types, NEW a \in Admins, Person(a)
    PROVE  \E s \in Slots :
              /\ net[s] = NoCall /\ DOMAIN net' = Slots /\ \A t \in Slots \ {s} : net'[t] = net[t]
              /\ net'[s].st = "sent"
<1>1. ASSUME NEW r, Send(r), DOMAIN r = {"op", "who"} \/ DOMAIN r = {"op", "who", "cust"}
      PROVE  \E s \in Slots :
                 /\ net[s] = NoCall /\ DOMAIN net' = Slots /\ \A t \in Slots \ {s} : net'[t] = net[t]
                 /\ net'[s].st = "sent"
  <2>1. Asked(r).st = "sent"
    BY <1>1 DEF Asked, Extended
  <2> QED
    BY <1>1, <2>1 DEF Send, Types, NetOK
<1>2. DOMAIN Query(a) = {"op", "who"}
  BY DEF Query
<1>3. DOMAIN [op |-> "portal", who |-> a] = {"op", "who"}
  OBVIOUS
<1>4. DOMAIN [op |-> "checkout", who |-> a, cust |-> None] = {"op", "who", "cust"}
  OBVIOUS
<1>5. Send(Query(a)) \/ Send([op |-> "portal", who |-> a]) \/ Send([op |-> "checkout", who |-> a, cust |-> None])
  BY DEF Person, Visit, Reload, StartCheckout, OpenPortal, Return
<1> QED
  BY <1>1, <1>2, <1>3, <1>4, <1>5

LEMMA ReadCustomerState ==
    ASSUME Types, NEW s \in Slots, ReadCustomer(s)
    PROVE  /\ DOMAIN net' = Slots /\ \A t \in Slots \ {s} : net'[t] = net[t]
           /\ net'[s].op = "checkout" /\ net'[s].cust = org.cust
           /\ net'[s].st = IF org.cust = None THEN "create" ELSE "session"
<1> DEFINE v == IF org.cust = None THEN "create" ELSE "session"
           p == [net[s] EXCEPT !.cust = org.cust]
           q == [p EXCEPT !.st = v]
<1>1. {"op", "st", "cust"} \subseteq DOMAIN net[s] /\ net[s].op = "checkout"
  BY CheckoutAt DEF ReadCustomer, At, CheckoutCall, Opened
<1>2. net' = [net EXCEPT ![s] = q] /\ DOMAIN net = Slots
  BY DEF ReadCustomer, Types, NetOK
<1> HIDE DEF v
<1>3. DOMAIN p = DOMAIN net[s] /\ p.op = "checkout" /\ p.cust = org.cust
  BY <1>1
<1> HIDE DEF p
<1>4. q.op = "checkout" /\ q.cust = org.cust /\ q.st = v
  BY <1>1, <1>3
<1> HIDE DEF q
<1>5. net'[s].st = v /\ net'[s].op = "checkout" /\ net'[s].cust = org.cust
  BY <1>2, <1>4
<1> QED
  BY <1>2, <1>5 DEF v

LEMMA MakeCustomerState ==
    ASSUME Types, NEW s \in Slots, MakeCustomer(s)
    PROVE  /\ DOMAIN net' = Slots /\ \A t \in Slots \ {s} : net'[t] = net[t]
           /\ net'[s].op = "checkout" /\ net'[s].cust = stripe.customers + 1 /\ net'[s].st = "store"
<1> DEFINE c == stripe.customers + 1
           p == [net[s] EXCEPT !.cust = c]
           q == [p EXCEPT !.st = "store"]
<1>1. {"op", "st", "cust"} \subseteq DOMAIN net[s] /\ net[s].op = "checkout"
  BY CheckoutAt DEF MakeCustomer, At, CheckoutCall, Opened
<1>2. net' = [net EXCEPT ![s] = q] /\ DOMAIN net = Slots
  BY DEF MakeCustomer, Types, NetOK
<1> HIDE DEF c
<1>3. DOMAIN p = DOMAIN net[s] /\ p.op = "checkout" /\ p.cust = c
  BY <1>1
<1> HIDE DEF p
<1>4. q.op = "checkout" /\ q.cust = c /\ q.st = "store"
  BY <1>1, <1>3
<1> HIDE DEF q
<1>5. net'[s].st = "store" /\ net'[s].op = "checkout" /\ net'[s].cust = c
  BY <1>2, <1>4
<1> QED
  BY <1>2, <1>5 DEF c

LEMMA StoreCustomerState ==
    ASSUME Types, NEW s \in Slots, StoreCustomer(s)
    PROVE  /\ DOMAIN net' = Slots /\ \A t \in Slots \ {s} : net'[t] = net[t]
           /\ net'[s].op = "checkout" /\ net'[s].cust = net[s].cust /\ net'[s].st = "session"
<1> DEFINE q == [net[s] EXCEPT !.st = "session"]
<1>1. {"op", "st", "cust"} \subseteq DOMAIN net[s] /\ net[s].op = "checkout"
  BY CheckoutAt DEF StoreCustomer, At, CheckoutCall, Opened
<1>2. net' = [net EXCEPT ![s] = q] /\ DOMAIN net = Slots
  BY DEF StoreCustomer, Types, NetOK
<1>3. q.op = "checkout" /\ q.cust = net[s].cust /\ q.st = "session"
  BY <1>1
<1> HIDE DEF q
<1> QED
  BY <1>2, <1>3

LEMMA MakeSessionState ==
    ASSUME Types, NEW s \in Slots, MakeSession(s)
    PROVE  /\ DOMAIN net' = Slots /\ \A t \in Slots \ {s} : net'[t] = net[t]
           /\ net'[s].op = "checkout" /\ net'[s].cust = net[s].cust /\ net'[s].st = "done"
<1> DEFINE p == [net[s] EXCEPT !.st = "done"]
           q == Extended(p, [ans |-> net[s].cust])
<1>1. {"op", "st", "cust"} \subseteq DOMAIN net[s] /\ net[s].op = "checkout"
  BY CheckoutAt DEF MakeSession, At, CheckoutCall, Opened
<1>2. net' = [net EXCEPT ![s] = q] /\ DOMAIN net = Slots
  BY DEF MakeSession, Answer, Types, NetOK
<1>3. DOMAIN p = DOMAIN net[s] /\ p.op = "checkout" /\ p.cust = net[s].cust /\ p.st = "done"
  BY <1>1
<1> HIDE DEF p
<1>4. q.op = "checkout" /\ q.cust = net[s].cust /\ q.st = "done"
  BY <1>1, <1>3 DEF Extended
<1> HIDE DEF q
<1> QED
  BY <1>2, <1>4

LEMMA AnswerState ==
    ASSUME NetOK, NEW s \in Slots, NEW v, Answer(s, v), {"op", "st"} \subseteq DOMAIN net[s]
    PROVE  /\ DOMAIN net' = Slots /\ \A t \in Slots \ {s} : net'[t] = net[t]
           /\ net'[s].op = net[s].op /\ net'[s].st = "done"
<1> DEFINE p == [net[s] EXCEPT !.st = "done"]
           q == Extended(p, [ans |-> v])
<1>1. net' = [net EXCEPT ![s] = q] /\ DOMAIN net = Slots
  BY DEF Answer, NetOK
<1>2. DOMAIN p = DOMAIN net[s] /\ p.op = net[s].op /\ p.st = "done"
  OBVIOUS
<1> HIDE DEF p
<1>3. q.op = net[s].op /\ q.st = "done"
  BY <1>2 DEF Extended
<1> HIDE DEF q
<1> QED
  BY <1>1, <1>3

\* The other steps of a request, but for the one that asks Stripe.
OtherServe(s) == MakePortal(s) \/ ReadPosture(s) \/ ReadSubscription(s) \/ TimeOut(s) \/ Heal(s) \/ Reread(s)

LEMMA OtherState ==
    ASSUME Types, NEW s \in Slots, OtherServe(s)
    PROVE  /\ DOMAIN net' = Slots /\ \A t \in Slots \ {s} : net'[t] = net[t]
           /\ net'[s].op # "checkout" /\ net'[s].st # "got"
<1>1. net[s].op # "checkout" /\ {"op", "st"} \subseteq DOMAIN net[s] /\ NetOK
  <2>1. net[s].op \in {"billing", "portal"} /\ net[s].st # "idle"
    BY DEF OtherServe, MakePortal, ReadPosture, ReadSubscription, TimeOut, Heal, Reread, At
  <2> QED
    BY <2>1, BillingAt, PortalAt DEF BillingCall, PortalCall, Opened, Types
<1>2. CASE \E v : Answer(s, v)
  BY <1>1, <1>2, AnswerState
<1>3. CASE Heal(s)
  <2> DEFINE q == [net[s] EXCEPT !.st = "healed"]
  <2>1. net' = [net EXCEPT ![s] = q] /\ DOMAIN net = Slots
    BY <1>3 DEF Heal, Types, NetOK
  <2>2. q.op = net[s].op /\ q.st = "healed"
    BY <1>1
  <2> HIDE DEF q
  <2> QED
    BY <1>1, <2>1, <2>2
<1>4. CASE net' = [net EXCEPT ![s] = Extended([@ EXCEPT !.st = "heal"], [sub |-> org.sub])]
  <2> DEFINE p == [net[s] EXCEPT !.st = "heal"]
             q == Extended(p, [sub |-> org.sub])
  <2>1. net' = [net EXCEPT ![s] = q] /\ DOMAIN net = Slots
    BY <1>4 DEF Types, NetOK
  <2>2. DOMAIN p = DOMAIN net[s] /\ p.op = net[s].op /\ p.st = "heal"
    BY <1>1
  <2> HIDE DEF p
  <2>3. q.op = net[s].op /\ q.st = "heal"
    BY <1>1, <2>2 DEF Extended
  <2> HIDE DEF q
  <2> QED
    BY <1>1, <2>1, <2>3
<1>5. CASE net' = [net EXCEPT ![s].st = "ask"]
  <2> DEFINE q == [net[s] EXCEPT !.st = "ask"]
  <2>1. net' = [net EXCEPT ![s] = q] /\ DOMAIN net = Slots
    BY <1>5 DEF Types, NetOK
  <2>2. q.op = net[s].op /\ q.st = "ask"
    BY <1>1
  <2> HIDE DEF q
  <2> QED
    BY <1>1, <2>1, <2>2
<1> QED
  BY <1>2, <1>3, <1>4, <1>5 DEF OtherServe, MakePortal, ReadPosture, ReadSubscription, TimeOut, Reread

LEMMA FetchState ==
    ASSUME Types, NEW s \in Slots, Fetch(s)
    PROVE  /\ DOMAIN net' = Slots /\ \A t \in Slots \ {s} : net'[t] = net[t]
           /\ net'[s].op = "billing" /\ net[s].sub \in 1 .. Len(stripe.subs)
           /\ net'[s].news = Snapshot(net[s].sub, stripe.news, TRUE)
<1> DEFINE p == [net[s] EXCEPT !.st = "got"]
           e == Snapshot(net[s].sub, stripe.news, TRUE)
           q == Extended(p, [news |-> e])
<1>1. /\ {"op", "st"} \subseteq DOMAIN net[s] /\ "news" \notin DOMAIN net[s] /\ net[s].op = "billing"
      /\ net[s].sub \in 1 .. Len(stripe.subs)
  BY BillingAt DEF Fetch, At, BillingCall, Opened
<1>2. net' = [net EXCEPT ![s] = q] /\ DOMAIN net = Slots
  BY DEF Fetch, Types, NetOK
<1> HIDE DEF e
<1>3. DOMAIN p = DOMAIN net[s] /\ p.op = "billing"
  BY <1>1
<1> HIDE DEF p
<1>4. q.op = "billing" /\ q.news = e
  BY <1>1, <1>3 DEF Extended
<1> HIDE DEF q
<1>5. net'[s].op = "billing" /\ net'[s].news = e
  BY <1>2, <1>4
<1> QED
  BY <1>1, <1>2, <1>5 DEF e

LEMMA FailState ==
    ASSUME Types, NEW s \in Slots, Fail(s)
    PROVE  /\ DOMAIN net' = Slots /\ \A t \in Slots \ {s} : net'[t] = net[t]
           /\ net'[s].st = "failed"
<1> DEFINE q == [net[s] EXCEPT !.st = "failed"]
<1>1. "st" \in DOMAIN net[s]
  BY DEF Fail, Types, NetOK, SlotOK, NoCall, BillingCall, CheckoutCall, PortalCall, Opened
<1>2. net' = [net EXCEPT ![s] = q] /\ DOMAIN net = Slots
  BY DEF Fail, Throw, Types, NetOK
<1>3. q.st = "failed"
  BY <1>1
<1> HIDE DEF q
<1> QED
  BY <1>2, <1>3

\* A handler that is through clears its slot; a page that is gone marks the
\* others of its admin.
LEMMA SettlesState ==
    ASSUME Types, NEW s \in Slots, Settles(s), NEW t \in Slots, net'[t] # NoCall
    PROVE  /\ net'[t].op = net[t].op /\ net'[t].st = net[t].st
           /\ net[t].op = "checkout" => net'[t].cust = net[t].cust
           /\ At(t, "billing", "got") => net'[t].news = net[t].news
<1>1. CASE Settle(s)
  BY <1>1 DEF Settle, Types, NetOK
<1>2. CASE Redirected(s)
  <2> DEFINE m == [net[t] EXCEPT !.mine = FALSE]
  <2>1. net'[t] = IF t = s THEN NoCall
                  ELSE IF net[t] # NoCall /\ net[t].who = net[s].who THEN m ELSE net[t]
    BY <1>2 DEF Redirected
  <2>2. /\ net[t] # NoCall => m.op = net[t].op /\ m.st = net[t].st
        /\ net[t] # NoCall /\ net[t].op = "checkout" => m.cust = net[t].cust
        /\ At(t, "billing", "got") => m.news = net[t].news
    BY DEF Types, NetOK, SlotOK, BillingCall, CheckoutCall, PortalCall, Opened, At, NoCall
  <2> HIDE DEF m
  <2> QED
    BY <2>1, <2>2
<1> QED
  BY <1>1, <1>2 DEF Settles, Postured, PortalOpened, Failed

-----------------------------------------------------------------------------
\* The subscription's row keeps up with Stripe.  Steps that do not touch either:
LEMMA Aside ==
    ASSUME SubscriptionInv, stripe' = stripe,
           org'.sub = org.sub, org'.status = org.status,
           hist'.sub = hist.sub, hist'.seen = hist.seen, hist'.behind = hist.behind, hist'.double = hist.double,
           \A s \in Slots : net'[s].op = "billing" /\ net'[s].st = "got" =>
               At(s, "billing", "got") /\ net'[s].news = net[s].news
    PROVE  SubscriptionInv'
<1>1. Over'
  BY DEF SubscriptionInv, Over, Last
<1>2. Newest'
  <2>1. ASSUME ~hist.double, NEW s \in Slots, net'[s].op = "billing", net'[s].st = "got", net'[s].news.n = stripe.news
        PROVE  Current(net'[s].news) \/ net'[s].news.sub < Last
    BY <2>1 DEF SubscriptionInv, Newest
  <2> QED
    BY <2>1 DEF SubscriptionInv, Newest, Current, Last, At, Slots
<1>3. InTime' /\ Right'
  BY DEF SubscriptionInv, InTime, Right, Told, Last
<1>4. Unsold'
  BY DEF SubscriptionInv, Unsold, Last
<1> QED
  BY <1>1, <1>2, <1>3, <1>4 DEF SubscriptionInv

\* An event is written, in turn or not.
LEMMA WritesRow ==
    ASSUME Types, SubscriptionInv, NEW e, EventOK(e), Apply(e),
           ~hist.double /\ e.n = stripe.news => Current(e) \/ e.sub < Last
    PROVE  /\ hist'.double = hist.double /\ Last > 0
           /\ ~hist.double =>
                 /\ Told \/ (e.n = stripe.news /\ Current(e)) => hist'.sub = Last /\ hist'.seen = stripe.news
                 /\ hist'.sub = Last /\ hist'.seen = stripe.news /\ ~hist'.behind
                       => org'.status = stripe.subs[Last].state
<1>1. /\ e.n \in Nat /\ e.sub \in 1 .. Last /\ e.n <= stripe.news /\ stripe.news \in Nat /\ Last \in Nat
      /\ org \in OrgType /\ hist \in HistType /\ hist.sub <= Last /\ hist.seen <= stripe.news
  BY DEF EventOK, Event, Types, StripeOK, StripeType, OrgOK, HistOK, Last
<1>2. hist'.double = hist.double
  BY <1>1 DEF Apply, Known, HistType
<1>3. CASE e.kind = "linked"
  <2>1. hist' = hist /\ org'.status = org.status
    BY <1>1, <1>3 DEF Apply, Applied, OrgType
  <2> QED
    BY <1>1, <1>2, <1>3, <2>1 DEF SubscriptionInv, Right, Told, Current
<1>4. CASE e.kind # "linked" /\ Older(e)
  <2>1. hist'.sub = hist.sub /\ hist'.seen = hist.seen /\ hist'.behind
    BY <1>1, <1>4 DEF Apply, HistType
  <2>2. e.n = stripe.news /\ Current(e) => Told
    BY <1>1, <1>4 DEF Older, Current, Told, HistType
  <2> QED
    BY <1>1, <1>2, <2>1, <2>2 DEF Told
<1>5. CASE e.kind # "linked" /\ ~Older(e)
  <2>1. hist'.sub = e.sub /\ hist'.seen = e.n /\ org'.status = e.state
    BY <1>1, <1>5 DEF Apply, Applied, Known, HistType, OrgType
  <2>2. Told => e.sub = Last /\ e.n = stripe.news
    BY <1>1, <1>5 DEF Older, Told
  <2>3. ~hist.double /\ e.sub = Last /\ e.n = stripe.news => e.state = stripe.subs[Last].state
    BY <1>1 DEF Current
  <2> QED
    BY <1>1, <1>2, <2>1, <2>2, <2>3 DEF Current
<1> QED
  BY <1>3, <1>4, <1>5

LEMMA HealKeeps ==
    ASSUME Types, SubscriptionInv, NEW s \in Slots, Heal(s)
    PROVE  SubscriptionInv'
<1> DEFINE e == net[s].news
<1>1. EventOK(e) /\ Apply(e) /\ At(s, "billing", "got") /\ UNCHANGED <<ui, stripe>>
  BY BillingAt DEF Heal, At, BillingCall
<1>2. ~hist.double /\ e.n = stripe.news => Current(e) \/ e.sub < Last
  BY <1>1 DEF SubscriptionInv, Newest
<1>3. /\ hist'.double = hist.double /\ Last > 0
      /\ ~hist.double =>
            /\ Told \/ (e.n = stripe.news /\ Current(e)) => hist'.sub = Last /\ hist'.seen = stripe.news
            /\ hist'.sub = Last /\ hist'.seen = stripe.news /\ ~hist'.behind
                  => org'.status = stripe.subs[Last].state
  <2> HIDE DEF e
  <2> QED
    BY <1>1, <1>2, WritesRow
<1> HIDE DEF e
<1>4. /\ DOMAIN net' = Slots /\ \A t \in Slots \ {s} : net'[t] = net[t]
      /\ net'[s].st # "got"
  BY OtherState DEF OtherServe
<1>5. Over' /\ Unsold'
  BY <1>1, <1>3 DEF SubscriptionInv, Over, Unsold, Last
<1>6. Newest'
  BY <1>1, <1>3, <1>4 DEF SubscriptionInv, Newest, Current, Last, At, Slots
<1>7. InTime' /\ Right'
  BY <1>1, <1>3 DEF SubscriptionInv, InTime, Right, Told, Last
<1> QED
  BY <1>5, <1>6, <1>7 DEF SubscriptionInv

LEMMA FetchKeeps ==
    ASSUME Types, SubscriptionInv, NEW s \in Slots, Fetch(s)
    PROVE  SubscriptionInv'
<1>1. UNCHANGED <<ui, org, stripe, hist>>
  BY DEF Fetch
<1>2. Over' /\ Unsold' /\ InTime' /\ Right'
  BY <1>1 DEF SubscriptionInv, Over, Unsold, InTime, Right, Told, Last
<1>3. PICK i \in 1 .. Last :
          /\ \A t \in Slots \ {s} : net'[t] = net[t]
          /\ net'[s].news = Snapshot(i, stripe.news, TRUE)
  BY FetchState DEF Last
<1>4. Current(net'[s].news) \/ net'[s].news.sub < Last
  BY <1>3 DEF Snapshot, Current, Types, StripeOK, StripeType, Last
<1>5. Newest'
  <2>1. (\A e : Current(e)' <=> Current(e)) /\ Last' = Last
    BY <1>1 DEF Current, Last
  <2> QED
    BY <1>1, <1>3, <1>4, <2>1 DEF SubscriptionInv, Newest, At, Slots
<1> QED
  BY <1>2, <1>5 DEF SubscriptionInv

LEMMA DeliverKeeps ==
    ASSUME Types, SubscriptionInv, NEW e \in stripe.outbox, NEW heard \in BOOLEAN, Deliver(e, heard)
    PROVE  SubscriptionInv'
<1>1. EventOK(e) /\ Apply(e) /\ UNCHANGED <<net, ui>>
  BY DEF Deliver, Types, StripeOK
<1>2. ~hist.double /\ e.n = stripe.news => Current(e)
  BY DEF SubscriptionInv, Newest
<1>3. /\ hist'.double = hist.double /\ Last > 0
      /\ ~hist.double =>
            /\ Told \/ (e.n = stripe.news /\ Current(e)) => hist'.sub = Last /\ hist'.seen = stripe.news
            /\ hist'.sub = Last /\ hist'.seen = stripe.news /\ ~hist'.behind
                  => org'.status = stripe.subs[Last].state
  BY <1>1, <1>2, WritesRow
<1>4. /\ stripe'.subs = stripe.subs /\ stripe'.news = stripe.news
      /\ stripe'.outbox \subseteq stripe.outbox /\ \A f \in stripe.outbox \ {e} : f \in stripe'.outbox
  BY DEF Deliver, Types, StripeOK, StripeType
<1>5. Over' /\ Unsold'
  BY <1>3, <1>4 DEF SubscriptionInv, Over, Unsold, Last
<1>6. Newest'
  BY <1>1, <1>3, <1>4 DEF SubscriptionInv, Newest, Current, Last, At, Slots
<1>7. InTime'
  <2> SUFFICES ASSUME ~hist.double
               PROVE  (hist'.sub = Last /\ hist'.seen = stripe.news) \/ \E f \in stripe'.outbox : f.n = stripe.news
    BY <1>3, <1>4 DEF InTime, Told, Last
  <2>1. CASE \E f \in stripe.outbox : f.n = stripe.news
    BY <1>2, <1>3, <1>4, <2>1
  <2>2. CASE Told
    BY <1>3, <2>2
  <2> QED
    BY <1>3, <2>1, <2>2 DEF SubscriptionInv, InTime
<1>8. Right'
  BY <1>3, <1>4 DEF Right, Told, Last
<1> QED
  BY <1>5, <1>6, <1>7, <1>8 DEF SubscriptionInv

LEMMA GiveUpKeeps ==
    ASSUME Types, SubscriptionInv, NEW e \in stripe.outbox, GiveUp(e)
    PROVE  SubscriptionInv'
<1>1. /\ stripe'.subs = stripe.subs /\ stripe'.news = stripe.news /\ stripe'.outbox \subseteq stripe.outbox
      /\ UNCHANGED <<net, ui, org>>
  BY DEF GiveUp, Types, StripeOK, StripeType
<1>2. /\ hist'.double = hist.double
      /\ \/ hist'.sub = hist.sub /\ hist'.seen = hist.seen /\ hist'.behind = hist.behind
            /\ (e.kind = "linked" \/ Older(e))
         \/ hist'.sub = e.sub /\ hist'.seen = e.n /\ hist'.behind /\ e.kind # "linked" /\ ~Older(e)
  <2>1. hist \in HistType
    BY DEF Types, HistOK
  <2> DEFINE k == Known(e, TRUE)
  <2>2. k.sub = e.sub /\ k.seen = e.n /\ k.behind /\ k.double = hist.double /\ DOMAIN k = DOMAIN hist
    BY <2>1 DEF Known, HistType
  <2>3. \/ hist' = [hist EXCEPT !.lost = TRUE] /\ (e.kind = "linked" \/ Older(e))
        \/ hist' = [k EXCEPT !.lost = TRUE] /\ e.kind # "linked" /\ ~Older(e)
    BY DEF GiveUp
  <2> HIDE DEF k
  <2> QED
    BY <2>1, <2>2, <2>3 DEF HistType
<1>5. /\ EventOK(e) /\ stripe.news \in Nat /\ Last \in Nat /\ hist \in HistType
      /\ hist.sub <= Last /\ hist.seen <= stripe.news /\ \A f \in stripe.outbox \ {e} : f \in stripe'.outbox
  BY DEF Types, StripeOK, StripeType, HistOK, Last, GiveUp
<1>6. e.n \in Nat /\ e.sub \in 1 .. Last /\ e.n <= stripe.news
  BY <1>5 DEF EventOK, Event, Last
<1>7. ~hist.double /\ (Told \/ e.n = stripe.news) => hist'.sub = Last /\ hist'.seen = stripe.news
  <2>1. ASSUME ~hist.double, e.n = stripe.news PROVE Current(e)
    BY <2>1 DEF SubscriptionInv, Newest
  <2>2. CASE Told
    BY <1>2, <1>5, <1>6, <2>2 DEF Told, Older, HistType
  <2>3. CASE ~hist.double /\ e.n = stripe.news
    BY <1>2, <1>5, <1>6, <2>1, <2>3 DEF Older, Current, HistType
  <2> QED
    BY <2>2, <2>3
<1>8. InTime'
  BY <1>1, <1>2, <1>5, <1>7 DEF SubscriptionInv, InTime, Told, Last
<1>9. Right'
  BY <1>1, <1>2 DEF SubscriptionInv, Right, Told, Last
<1>3. Over' /\ Unsold'
  BY <1>1, <1>2 DEF SubscriptionInv, Over, Unsold, Last
<1>4. Newest'
  BY <1>1, <1>2 DEF SubscriptionInv, Newest, Current, Last, At, Slots
<1> QED
  BY <1>3, <1>4, <1>8, <1>9 DEF SubscriptionInv

\* What is bought, and how it is reported.
LEMMA PaidState ==
    ASSUME Types, NEW a \in Admins, NEW state \in Sold, Pay(a, state)
    PROVE  \E sub, linked, changed :
              /\ sub.cust = ui[a].cust /\ sub.state = state
              /\ linked.n = stripe.news + 1 /\ linked.cust = ui[a].cust
              /\ changed.kind = "changed" /\ changed.n = stripe.news + 2 /\ changed.cust = ui[a].cust
              /\ changed.sub = Len(stripe.subs) + 1 /\ changed.state = state
              /\ stripe'.subs = Append(stripe.subs, sub) /\ stripe'.news = stripe.news + 2
              /\ stripe'.outbox = stripe.outbox \cup {linked, changed}
              /\ Len(stripe'.subs) = Len(stripe.subs) + 1 /\ stripe'.subs[Len(stripe.subs) + 1] = sub
              /\ \A i \in 1 .. Len(stripe.subs) : stripe'.subs[i] = stripe.subs[i]
<1> DEFINE i == Len(stripe.subs) + 1
           c == ui[a].cust
           n == stripe.news
           sub == [cust |-> c, state |-> state]
           linked == [kind |-> "linked", n |-> n + 1, sub |-> i, cust |-> c, state |-> state, dated |-> stripe.dated]
           p == [linked EXCEPT !.kind = "changed"]
           changed == [p EXCEPT !.n = @ + 1]
<1>1. n \in Nat /\ i \in Nat /\ stripe.subs \in Seq(Sub) /\ stripe \in StripeType /\ sub \in Sub
  BY BillingAssumption DEF Types, UiOK, UiType, StripeOK, StripeType, Sub, States
<1>2. /\ p.kind = "changed" /\ p.n = n + 1 /\ p.sub = i /\ p.cust = c /\ p.state = state
      /\ DOMAIN p = {"kind", "n", "sub", "cust", "state", "dated"}
  OBVIOUS
<1>3. linked.n = n + 1 /\ linked.cust = c /\ sub.cust = c /\ sub.state = state
  OBVIOUS
<1>4. stripe' = [stripe EXCEPT !.subs = Append(stripe.subs, sub), !.news = n + 2,
                               !.outbox = stripe.outbox \cup {linked, changed}]
  BY <1>1 DEF Pay
<1> HIDE DEF p, sub, linked
<1>5. /\ changed.kind = "changed" /\ changed.n = n + 2 /\ changed.sub = i /\ changed.cust = c
      /\ changed.state = state
  <2>1. changed.n = p.n + 1 /\ \A f \in DOMAIN p \ {"n"} : changed[f] = p[f]
    BY <1>2
  <2> HIDE DEF changed
  <2> QED
    BY <1>1, <1>2, <2>1
<1> HIDE DEF changed
<1>6. /\ stripe'.subs = Append(stripe.subs, sub) /\ stripe'.news = n + 2
      /\ stripe'.outbox = stripe.outbox \cup {linked, changed}
  BY <1>1, <1>4 DEF StripeType
<1>7. Len(stripe'.subs) = i /\ stripe'.subs[i] = sub /\ \A j \in 1 .. Len(stripe.subs) : stripe'.subs[j] = stripe.subs[j]
  BY <1>1, <1>6
<1> QED
  BY <1>3, <1>5, <1>6, <1>7

LEMMA PayKeeps ==
    ASSUME Types, SubscriptionInv, NEW a \in Admins, NEW state \in Sold, Pay(a, state)
    PROVE  SubscriptionInv'
<1>1. PICK sub, linked, changed :
          /\ sub.cust = ui[a].cust /\ sub.state = state
          /\ linked.n = stripe.news + 1 /\ linked.cust = ui[a].cust
          /\ changed.kind = "changed" /\ changed.n = stripe.news + 2 /\ changed.cust = ui[a].cust
          /\ changed.sub = Len(stripe.subs) + 1 /\ changed.state = state
          /\ stripe'.subs = Append(stripe.subs, sub) /\ stripe'.news = stripe.news + 2
          /\ stripe'.outbox = stripe.outbox \cup {linked, changed}
          /\ Len(stripe'.subs) = Len(stripe.subs) + 1 /\ stripe'.subs[Len(stripe.subs) + 1] = sub
          /\ \A i \in 1 .. Len(stripe.subs) : stripe'.subs[i] = stripe.subs[i]
  BY PaidState
<1>2. /\ Last \in Nat /\ DOMAIN stripe.subs = 1 .. Last /\ stripe.news \in Nat /\ Last' = Last + 1
      /\ UNCHANGED <<net, org>>
  BY <1>1 DEF Types, StripeOK, StripeType, Last, Pay
<1>3. /\ hist'.seen = hist.seen
      /\ ~hist'.double => ~hist.double
      /\ ~hist'.double => \A i \in 1 .. Last : stripe.subs[i].state = "canceled"
  <2> DEFINE b == hist.double \/ \E j \in DOMAIN stripe.subs : stripe.subs[j].state # "canceled"
  <2>1. hist' = [hist EXCEPT !.double = b] /\ hist \in HistType
    BY DEF Pay, Types, HistOK
  <2>2. ~b => ~hist.double /\ \A i \in 1 .. Last : stripe.subs[i].state = "canceled"
    BY <1>2
  <2> HIDE DEF b
  <2>3. hist'.double = b /\ hist'.seen = hist.seen
    BY <2>1 DEF HistType
  <2> QED
    BY <2>2, <2>3
<1>4. Over'
  BY <1>1, <1>2, <1>3 DEF Over, Last
<1>5. ASSUME NEW e \in stripe'.outbox, e.n = stripe'.news PROVE e = changed
  BY <1>1, <1>2, <1>5 DEF Types, StripeOK, EventOK, Event
<1>6. ASSUME NEW s \in Slots, At(s, "billing", "got") PROVE net[s].news.n # stripe'.news
  BY <1>1, <1>2, <1>6, BillingAt DEF BillingCall, EventOK, Event, At
<1>7. Newest'
  BY <1>1, <1>2, <1>5, <1>6 DEF Newest, Current, Last, At, Slots
<1>8. InTime' /\ Unsold'
  BY <1>1, <1>2 DEF InTime, Unsold, Last
<1>9. Right'
  <2>1. hist.seen \in Nat /\ hist.seen <= stripe.news /\ stripe'.news = stripe.news + 2
    BY <1>1 DEF Types, HistOK, HistType
  <2>2. ~Told'
    BY <1>2, <1>3, <2>1 DEF Told
  <2> QED
    BY <2>2 DEF Right
<1> QED
  BY <1>4, <1>7, <1>8, <1>9 DEF SubscriptionInv

\* A subscription changes, and the change is reported.
LEMMA ChangedState ==
    ASSUME Types, NEW i \in DOMAIN stripe.subs, NEW state \in States, Change(i, state)
    PROVE  \E e :
              /\ e.kind = "changed" /\ e.n = stripe.news + 1 /\ e.sub = i /\ e.state = state
              /\ e.cust = stripe.subs[i].cust
              /\ stripe'.news = stripe.news + 1 /\ stripe'.outbox = stripe.outbox \cup {e}
              /\ Len(stripe'.subs) = Len(stripe.subs) /\ DOMAIN stripe'.subs = DOMAIN stripe.subs
              /\ stripe'.subs[i].state = state
              /\ \A j \in DOMAIN stripe.subs : stripe'.subs[j].cust = stripe.subs[j].cust
              /\ \A j \in DOMAIN stripe.subs \ {i} : stripe'.subs[j] = stripe.subs[j]
<1> DEFINE n == stripe.news
           e == [Snapshot(i, n + 1, stripe.dated) EXCEPT !.state = state]
           v == [stripe.subs[i] EXCEPT !.state = state]
           subs == [stripe.subs EXCEPT ![i] = v]
<1>1. n \in Nat /\ stripe.subs \in Seq(Sub) /\ stripe \in StripeType /\ stripe.subs[i] \in Sub
  BY DEF Types, StripeOK, StripeType
<1>2. v \in Sub /\ v.state = state /\ v.cust = stripe.subs[i].cust
  BY <1>1, SubChanged
<1>3. e.kind = "changed" /\ e.n = n + 1 /\ e.sub = i /\ e.state = state /\ e.cust = stripe.subs[i].cust
  BY DEF Snapshot
<1>4. stripe' = [stripe EXCEPT !.subs = subs, !.news = n + 1, !.outbox = stripe.outbox \cup {e}]
  BY DEF Change
<1> HIDE DEF e, v
<1>5. stripe'.subs = subs /\ stripe'.news = n + 1 /\ stripe'.outbox = stripe.outbox \cup {e}
  BY <1>1, <1>4 DEF StripeType
<1>6. /\ Len(subs) = Len(stripe.subs) /\ DOMAIN subs = DOMAIN stripe.subs /\ subs[i] = v
      /\ \A j \in DOMAIN stripe.subs \ {i} : subs[j] = stripe.subs[j]
  BY <1>1, <1>2
<1> HIDE DEF subs
<1> QED
  BY <1>2, <1>3, <1>5, <1>6

LEMMA ChangeKeeps ==
    ASSUME Types, SubscriptionInv, NEW i \in DOMAIN stripe.subs, NEW state \in States, Change(i, state)
    PROVE  SubscriptionInv'
<1>1. PICK e :
          /\ e.kind = "changed" /\ e.n = stripe.news + 1 /\ e.sub = i /\ e.state = state
          /\ e.cust = stripe.subs[i].cust
          /\ stripe'.news = stripe.news + 1 /\ stripe'.outbox = stripe.outbox \cup {e}
          /\ Len(stripe'.subs) = Len(stripe.subs) /\ DOMAIN stripe'.subs = DOMAIN stripe.subs
          /\ stripe'.subs[i].state = state
          /\ \A j \in DOMAIN stripe.subs : stripe'.subs[j].cust = stripe.subs[j].cust
          /\ \A j \in DOMAIN stripe.subs \ {i} : stripe'.subs[j] = stripe.subs[j]
  BY ChangedState
<1>2. /\ Last \in Nat /\ DOMAIN stripe.subs = 1 .. Last /\ stripe.news \in Nat /\ Last' = Last
      /\ UNCHANGED <<net, ui, org, hist>>
  BY <1>1 DEF Types, StripeOK, StripeType, Last, Change
<1>3. stripe.subs[i].state # "canceled"
  BY DEF Change, Becomes
<1>4. ~hist.double => i = Last
  BY <1>2, <1>3 DEF SubscriptionInv, Over
<1>5. Over'
  BY <1>1, <1>2, <1>4 DEF SubscriptionInv, Over
<1>6. ASSUME NEW f \in stripe'.outbox, f.n = stripe'.news PROVE f = e
  BY <1>1, <1>2, <1>6 DEF Types, StripeOK, EventOK, Event
<1>7. ASSUME NEW s \in Slots, At(s, "billing", "got") PROVE net[s].news.n # stripe'.news
  BY <1>1, <1>2, <1>7, BillingAt DEF BillingCall, EventOK, Event, At
<1>8. Newest'
  BY <1>1, <1>2, <1>4, <1>6, <1>7 DEF Newest, Current, Last, At, Slots
<1>9. InTime' /\ Unsold'
  BY <1>1, <1>2 DEF SubscriptionInv, InTime, Unsold, Last
<1>10. Right'
  BY <1>1, <1>2 DEF Right, Told, Types, HistOK, HistType
<1> QED
  BY <1>5, <1>8, <1>9, <1>10 DEF SubscriptionInv

LEMMA SettlesUi ==
    ASSUME Types, NEW s \in Slots, Settles(s), NEW a \in Admins, ui'[a].at = "checkout"
    PROVE  \/ ui[a].at = "checkout" /\ ui'[a].cust = ui[a].cust
           \/ net[s].op = "checkout" /\ net[s].st = "done" /\ ui'[a].cust = net[s].cust
<1>1. ui \in [Admins -> UiType] /\ net[s].who \in Admins /\ ui[net[s].who] \in UiType
  BY DEF Settles, Postured, Redirected, PortalOpened, Failed, At, NoCall,
         Types, UiOK, NetOK, SlotOK, BillingCall, CheckoutCall, PortalCall, Opened
<1>2. CASE ui' = ui \/ a # net[s].who
  BY <1>1, <1>2 DEF Settles, Postured, Redirected, PortalOpened, Failed, Page
<1>3. CASE a = net[s].who /\ \E u \in UiType : ui'[a] = u /\ u.at = ui[a].at /\ u.cust = ui[a].cust
  BY <1>3
<1>4. CASE a = net[s].who /\ Redirected(s) /\ ui'[a] = [Away EXCEPT !.at = "checkout", !.cust = net[s].ans]
  <2>1. CheckoutCall(net[s]) /\ net[s].op = "checkout" /\ net[s].st = "done"
    BY <1>4, CheckoutAt DEF Redirected, At
  <2>2. ui'[a].cust = net[s].ans
    BY <1>4 DEF Away
  <2> QED
    BY <2>1, <2>2 DEF CheckoutCall
<1> QED
  <2>1. CASE a = net[s].who /\ ui' # ui /\ Postured(s)
    <3> DEFINE v == IF net[s].st = "done" THEN net[s].ans ELSE "unknown"
               u == [ui[a] EXCEPT !.plan = v]
    <3>1. ui'[a] = u
      BY <1>1, <2>1 DEF Postured, Page
    <3>2. u.at = ui[a].at /\ u.cust = ui[a].cust
      BY <1>1, <2>1 DEF UiType
    <3> HIDE DEF u
    <3> QED
      BY <1>1, <3>1, <3>2
  <2>2. CASE a = net[s].who /\ ui' # ui /\ (PortalOpened(s) \/ Failed(s))
    <3> DEFINE u == [ui[a] EXCEPT !.busy = FALSE]
    <3>1. ui'[a] = u
      BY <1>1, <2>2 DEF PortalOpened, Failed, Page
    <3>2. u.at = ui[a].at /\ u.cust = ui[a].cust
      BY <1>1, <2>2 DEF UiType
    <3> HIDE DEF u
    <3> QED
      BY <1>1, <3>1, <3>2
  <2>3. CASE a = net[s].who /\ ui' # ui /\ Redirected(s)
    BY <1>1, <1>4, <2>3 DEF Redirected, Page
  <2> QED
    BY <1>2, <2>1, <2>2, <2>3 DEF Settles

LEMMA PersonUi ==
    ASSUME Types, NEW a \in Admins, Person(a), NEW b \in Admins, ui'[b].at = "checkout"
    PROVE  ui[b].at = "checkout" /\ ui'[b].cust = ui[b].cust
<1>1. ui \in [Admins -> UiType] /\ ui[a] \in UiType
  BY DEF Types, UiOK
<1>2. CASE Visit(a)
  <2>1. [Away EXCEPT !.at = "page"].at = "page"
    BY DEF Away
  <2> QED
    BY <1>1, <1>2, <2>1 DEF Visit
<1>3. CASE Return(a)
  <2> DEFINE x == ui[a].at = "bought"
  <2>1. [Away EXCEPT !.at = "page", !.returned = x].at = "page"
    BY DEF Away
  <2>2. ui' = [ui EXCEPT ![a] = [Away EXCEPT !.at = "page", !.returned = x]]
    BY <1>3 DEF Return
  <2> HIDE DEF x
  <2> QED
    BY <1>1, <2>1, <2>2
<1>4. CASE Reload(a)
  <2>1. [ui[a] EXCEPT !.returned = FALSE].at = ui[a].at /\ [ui[a] EXCEPT !.returned = FALSE].cust = ui[a].cust
    BY <1>1 DEF UiType
  <2> QED
    BY <1>1, <1>4, <2>1 DEF Reload
<1>5. CASE StartCheckout(a) \/ OpenPortal(a)
  <2>1. [ui[a] EXCEPT !.busy = TRUE].at = ui[a].at /\ [ui[a] EXCEPT !.busy = TRUE].cust = ui[a].cust
    BY <1>1 DEF UiType
  <2> QED
    BY <1>1, <1>5, <2>1 DEF StartCheckout, OpenPortal
<1> QED
  BY <1>2, <1>3, <1>4, <1>5 DEF Person

LEMMA SubscriptionStep == Types /\ SubscriptionInv /\ [Next]_vars => SubscriptionInv'
<1> SUFFICES ASSUME Types, SubscriptionInv, [Next]_vars PROVE SubscriptionInv'
  OBVIOUS
<1>1. CASE UNCHANGED vars
  BY <1>1, Aside DEF vars, At
<1>2. ASSUME NEW a \in Admins, Person(a) PROVE SubscriptionInv'
  <2>1. UNCHANGED <<org, stripe, hist>>
    BY <1>2 DEF Person, Visit, Reload, StartCheckout, OpenPortal, Return
  <2> QED
    BY <1>2, <2>1, SentState, Aside DEF At
<1>3. ASSUME NEW s \in Slots, Serve(s) PROVE SubscriptionInv'
  <2>1. CASE ReadCustomer(s)
    <3>1. UNCHANGED <<org, stripe>>
      BY <2>1 DEF ReadCustomer
    <3>2. /\ hist'.sub = hist.sub /\ hist'.seen = hist.seen
          /\ hist'.behind = hist.behind /\ hist'.double = hist.double
      BY <2>1 DEF ReadCustomer, Types, HistOK, HistType
    <3> QED
      BY <2>1, <3>1, <3>2, ReadCustomerState, Aside DEF At
  <2>2. CASE MakeCustomer(s)
    <3>1. stripe'.subs = stripe.subs /\ stripe'.news = stripe.news /\ stripe'.outbox = stripe.outbox
      BY <2>2 DEF MakeCustomer, Types, StripeOK, StripeType
    <3>2. /\ UNCHANGED <<ui, org, hist>> /\ \A t \in Slots \ {s} : net'[t] = net[t]
          /\ net'[s].op # "billing"
      BY <2>2, MakeCustomerState DEF MakeCustomer
    <3>3. Over' /\ InTime' /\ Right' /\ Unsold'
      BY <3>1, <3>2 DEF SubscriptionInv, Over, InTime, Right, Told, Unsold, Last
    <3>4. Newest'
      BY <3>1, <3>2 DEF SubscriptionInv, Newest, Current, Last, At, Slots
    <3> QED
      BY <3>3, <3>4 DEF SubscriptionInv
  <2>3. CASE StoreCustomer(s)
    <3>1. UNCHANGED <<stripe, hist>> /\ org'.sub = org.sub /\ org'.status = org.status
      BY <2>3 DEF StoreCustomer, Types, OrgOK, OrgType
    <3> QED
      BY <2>3, <3>1, StoreCustomerState, Aside DEF At
  <2>4. CASE MakeSession(s)
    BY <2>4, MakeSessionState, Aside DEF At, MakeSession
  <2>5. CASE MakePortal(s) \/ ReadPosture(s) \/ ReadSubscription(s) \/ TimeOut(s) \/ Reread(s)
    <3>1. UNCHANGED <<org, stripe, hist>>
      BY <2>5 DEF MakePortal, ReadPosture, ReadSubscription, TimeOut, Reread
    <3> QED
      BY <2>5, <3>1, OtherState, Aside DEF At, OtherServe
  <2> QED
    BY <1>3, <2>1, <2>2, <2>3, <2>4, <2>5, FetchKeeps, HealKeeps DEF Serve
<1>4. ASSUME NEW s \in Slots, Fail(s) PROVE SubscriptionInv'
  BY <1>4, FailState, Aside DEF At, Fail
<1>5. ASSUME NEW s \in Slots, Settles(s) PROVE SubscriptionInv'
  <2>1. UNCHANGED <<org, stripe, hist>>
    BY <1>5 DEF Settles, Postured, Redirected, PortalOpened, Failed
  <2>2. ASSUME NEW t \in Slots, net'[t].op = "billing", net'[t].st = "got"
        PROVE  At(t, "billing", "got") /\ net'[t].news = net[t].news
    <3>1. net'[t] # NoCall
      BY <2>2 DEF NoCall
    <3> QED
      BY <1>5, <2>2, <3>1, SettlesState DEF At
  <2> QED
    BY <2>1, <2>2, Aside
<1> QED
  BY <1>1, <1>2, <1>3, <1>4, <1>5, PayKeeps, ChangeKeeps, GiveUpKeeps, DeliverKeeps DEF Next, Work, Stripe

LEMMA SubscriptionInit == Init => SubscriptionInv
BY DEF Init, SubscriptionInv, Over, Newest, InTime, Right, Unsold, Last, At, NoCalls, NoCall

\* An organization whose webhooks are in has access just while one of its
\* subscriptions is paid, once the newest of what was written or given up is also
\* what was written last, and unless a second subscription was bought beside a live
\* one (AccessIsPaid; apply_event and resync_subscription in billing.rs).
THEOREM AccessFollowsPayment == Spec => []AccessIsPaid
<1>1. Types /\ SubscriptionInv => AccessIsPaid
  <2> SUFFICES ASSUME Types, SubscriptionInv, stripe.outbox = {}, ~hist.behind, ~hist.double
               PROVE  Paid(org.status) <=> Paying
    BY DEF AccessIsPaid
  <2>1. Last \in Nat /\ DOMAIN stripe.subs = 1 .. Last
    BY DEF Types, StripeOK, StripeType, Last
  <2>2. CASE Last = 0
    BY <2>1, <2>2 DEF SubscriptionInv, Unsold, Paid, Paying
  <2>3. CASE Last > 0
    <3>1. org.status = stripe.subs[Last].state
      BY <2>3 DEF SubscriptionInv, InTime, Right
    <3>2. \A i \in 1 .. Last - 1 : ~Paid(stripe.subs[i].state)
      BY DEF SubscriptionInv, Over, Paid
    <3>3. Last \in 1 .. Last /\ \A i \in 1 .. Last : i = Last \/ i \in 1 .. Last - 1
      BY <2>1, <2>3
    <3> QED
      BY <2>1, <3>1, <3>2, <3>3 DEF Paying
  <2> QED
    BY <2>1, <2>2, <2>3
<1>2. Spec => [](Types /\ SubscriptionInv)
  BY TypesInit, TypesStep, SubscriptionInit, SubscriptionStep, PTL DEF Spec
<1> QED
  BY <1>1, <1>2, PTL

-----------------------------------------------------------------------------
\* One customer.  Steps that leave the customers where they are:
LEMMA PortalAside ==
    ASSUME PortalInv, org'.cust = org.cust, hist'.raced = hist.raced,
           stripe'.subs = stripe.subs, stripe'.outbox \subseteq stripe.outbox,
           \A a \in Admins : ui'[a].at = "checkout" =>
               \/ ui[a].at = "checkout" /\ ui'[a].cust = ui[a].cust
               \/ \E s \in Slots : net[s].op = "checkout" /\ net[s].st = "done" /\ ui'[a].cust = net[s].cust,
           \A s \in Slots : net'[s].op = "checkout" /\ net'[s].st \in {"create", "store", "session", "done"} =>
               net[s].op = "checkout" /\ net'[s].cust = net[s].cust
               /\ (net'[s].st = net[s].st \/ (net[s].st = "session" /\ net'[s].st = "done")),
           \A s \in Slots : net'[s].op = "billing" /\ net'[s].st = "got" =>
               At(s, "billing", "got") /\ net'[s].news = net[s].news
    PROVE  PortalInv'
<1> SUFFICES ASSUME ~hist.raced PROVE OneMaker' /\ AllKnown'
  BY DEF PortalInv
<1>1. OneMaker /\ AllKnown /\ \A c : Named(c)' <=> Named(c)
  BY DEF PortalInv, Named
<1>2. OneMaker'
  BY <1>1 DEF OneMaker, Slots
<1>3. AllKnown'
  BY <1>1 DEF AllKnown, Slots, At
<1> QED
  BY <1>2, <1>3

LEMMA ReadCustomerKnown ==
    ASSUME Types, PortalInv, NEW s \in Slots, ReadCustomer(s)
    PROVE  PortalInv'
<1>1. /\ UNCHANGED <<ui, org, stripe>> /\ At(s, "checkout", "sent")
      /\ hist'.raced = (hist.raced \/ (org.cust = None /\ Racing))
  BY DEF ReadCustomer, Types, HistOK, HistType
<1> SUFFICES ASSUME ~hist.raced, ~(org.cust = None /\ Racing) PROVE OneMaker' /\ AllKnown'
  BY <1>1 DEF PortalInv
<1>2. OneMaker /\ AllKnown /\ \A c : Named(c)' <=> Named(c)
  BY <1>1 DEF PortalInv, Named
<1>3. org.cust = None => \A t \in Slots : net[t].op = "checkout" => net[t].st \notin {"create", "store"}
  BY DEF Racing, Flying
<1>4. /\ \A t \in Slots \ {s} : net'[t] = net[t]
      /\ net'[s].op = "checkout" /\ net'[s].cust = org.cust
      /\ net'[s].st = IF org.cust = None THEN "create" ELSE "session"
  BY ReadCustomerState
<1>5. OneMaker'
  <2>1. CASE org.cust = None
    BY <1>1, <1>2, <1>3, <1>4, <2>1 DEF OneMaker, Slots
  <2>2. CASE org.cust # None
    BY <1>1, <1>2, <1>4, <2>2 DEF OneMaker, Slots
  <2> QED
    BY <2>1, <2>2
<1>6. AllKnown'
  BY <1>1, <1>2, <1>4 DEF AllKnown, Named, Slots
<1> QED
  BY <1>5, <1>6

LEMMA MakeCustomerKnown ==
    ASSUME Types, PortalInv, NEW s \in Slots, MakeCustomer(s)
    PROVE  PortalInv'
<1>1. UNCHANGED <<ui, org, hist>> /\ At(s, "checkout", "create")
  BY DEF MakeCustomer
<1>2. stripe'.subs = stripe.subs /\ stripe'.outbox = stripe.outbox /\ stripe.customers \in Nat
  BY DEF MakeCustomer, Types, StripeOK, StripeType
<1> SUFFICES ASSUME ~hist.raced PROVE OneMaker' /\ AllKnown'
  BY <1>1 DEF PortalInv
<1>3. OneMaker /\ AllKnown /\ \A c : Named(c)' <=> Named(c)
  BY <1>1 DEF PortalInv, Named
<1>4. /\ \A t \in Slots \ {s} : net'[t] = net[t]
      /\ net'[s].op = "checkout" /\ net'[s].cust # None /\ net'[s].st = "store"
  BY <1>2, MakeCustomerState DEF None
<1>5. OneMaker'
  BY <1>1, <1>3, <1>4 DEF OneMaker, At, Slots
<1>6. AllKnown'
  BY <1>1, <1>2, <1>3, <1>4 DEF AllKnown, Slots
<1> QED
  BY <1>5, <1>6

LEMMA StoreCustomerKnown ==
    ASSUME Types, PortalInv, NEW s \in Slots, StoreCustomer(s)
    PROVE  PortalInv'
<1>1. UNCHANGED <<ui, stripe, hist>> /\ At(s, "checkout", "store") /\ org'.cust = net[s].cust
  BY DEF StoreCustomer, Types, OrgOK, OrgType
<1> SUFFICES ASSUME ~hist.raced PROVE OneMaker' /\ AllKnown'
  BY <1>1 DEF PortalInv
<1>2. OneMaker /\ AllKnown
  BY DEF PortalInv
<1>3. org.cust = None /\ net[s].cust # None /\ \A c : ~Named(c)
  BY <1>1, <1>2 DEF OneMaker, At, Named
<1>4. /\ \A t \in Slots \ {s} : net'[t] = net[t]
      /\ net'[s].op = "checkout" /\ net'[s].cust = net[s].cust /\ net'[s].st = "session"
  BY StoreCustomerState
<1>5. \A t \in Slots \ {s} : net[t].op = "checkout" => net[t].st \notin {"create", "store"}
  BY <1>1, <1>2 DEF OneMaker, At
<1>6. OneMaker'
  BY <1>4, <1>5 DEF OneMaker, Slots
<1>7. AllKnown'
  BY <1>1, <1>2, <1>3, <1>4 DEF AllKnown, Named, Slots
<1> QED
  BY <1>6, <1>7

LEMMA FetchKnown ==
    ASSUME Types, PortalInv, NEW s \in Slots, Fetch(s)
    PROVE  PortalInv'
<1>1. UNCHANGED <<ui, org, stripe, hist>>
  BY DEF Fetch
<1> SUFFICES ASSUME ~hist.raced PROVE OneMaker' /\ AllKnown'
  BY <1>1 DEF PortalInv
<1>2. OneMaker /\ AllKnown /\ \A c : Named(c)' <=> Named(c)
  BY <1>1 DEF PortalInv, Named
<1>3. PICK i \in DOMAIN stripe.subs :
          /\ \A t \in Slots \ {s} : net'[t] = net[t]
          /\ net'[s].op = "billing" /\ net'[s].news = Snapshot(i, stripe.news, TRUE)
  <2>1. DOMAIN stripe.subs = 1 .. Len(stripe.subs)
    BY DEF Types, StripeOK, StripeType
  <2> QED
    BY <2>1, FetchState
<1>4. Named(net'[s].news.cust)
  BY <1>2, <1>3 DEF Snapshot, AllKnown
<1>5. OneMaker'
  BY <1>1, <1>2, <1>3 DEF OneMaker, Slots
<1>6. AllKnown'
  BY <1>1, <1>2, <1>3, <1>4 DEF AllKnown, Slots
<1> QED
  BY <1>5, <1>6

\* An event names the customer the row names.
LEMMA AppliedCust ==
    ASSUME Types, NEW e, Apply(e), Named(e.cust)
    PROVE  org'.cust = org.cust
BY DEF Apply, Applied, Named, Types, OrgOK, OrgType

LEMMA AppliedRaced ==
    ASSUME Types, NEW e, Apply(e)
    PROVE  hist'.raced = hist.raced
BY DEF Apply, Known, Types, HistOK, HistType

LEMMA HealKnown ==
    ASSUME Types, PortalInv, NEW s \in Slots, Heal(s)
    PROVE  PortalInv'
<1>1. At(s, "billing", "got") /\ Apply(net[s].news) /\ UNCHANGED <<ui, stripe>>
  BY DEF Heal
<1>2. hist'.raced = hist.raced
  BY <1>1, AppliedRaced
<1>3. CASE hist.raced
  BY <1>2, <1>3 DEF PortalInv
<1>4. CASE ~hist.raced
  <2>1. org'.cust = org.cust
    BY <1>1, <1>4, AppliedCust DEF PortalInv, AllKnown, At
  <2>2. (\A t \in Slots \ {s} : net'[t] = net[t]) /\ net'[s].op # "checkout" /\ net'[s].st # "got"
    BY OtherState DEF OtherServe
  <2> QED
    BY <1>1, <1>2, <2>1, <2>2, PortalAside DEF At
<1> QED
  BY <1>3, <1>4

LEMMA DeliverKnown ==
    ASSUME Types, PortalInv, NEW e \in stripe.outbox, NEW heard \in BOOLEAN, Deliver(e, heard)
    PROVE  PortalInv'
<1>1. Apply(e) /\ UNCHANGED <<net, ui>> /\ stripe'.subs = stripe.subs /\ stripe'.outbox \subseteq stripe.outbox
  BY DEF Deliver, Types, StripeOK, StripeType
<1>2. hist'.raced = hist.raced
  BY <1>1, AppliedRaced
<1>3. CASE hist.raced
  BY <1>2, <1>3 DEF PortalInv
<1>4. CASE ~hist.raced
  <2>1. org'.cust = org.cust
    BY <1>1, <1>4, AppliedCust DEF PortalInv, AllKnown
  <2> QED
    BY <1>1, <1>2, <2>1, PortalAside DEF At
<1> QED
  BY <1>3, <1>4

LEMMA PayKnown ==
    ASSUME Types, PortalInv, NEW a \in Admins, NEW state \in Sold, Pay(a, state)
    PROVE  PortalInv'
<1>1. PICK sub, linked, changed :
          /\ sub.cust = ui[a].cust /\ linked.cust = ui[a].cust /\ changed.cust = ui[a].cust
          /\ stripe'.outbox = stripe.outbox \cup {linked, changed}
          /\ Len(stripe'.subs) = Len(stripe.subs) + 1 /\ stripe'.subs[Len(stripe.subs) + 1] = sub
          /\ \A i \in 1 .. Len(stripe.subs) : stripe'.subs[i] = stripe.subs[i]
          /\ stripe'.subs = Append(stripe.subs, sub)
  <2> HIDE DEF Pay
  <2> QED
    BY PaidState
<1>2. /\ Last \in Nat /\ DOMAIN stripe.subs = 1 .. Last /\ DOMAIN stripe'.subs = 1 .. Last + 1
      /\ UNCHANGED <<net, org>> /\ ui[a].at = "checkout" /\ ui'[a].at = "bought"
      /\ (\A b \in Admins \ {a} : ui'[b] = ui[b]) /\ hist'.raced = hist.raced
  <2>1. hist'.raced = hist.raced
    BY DEF Pay, Types, HistOK, HistType
  <2>2. ui'[a].at = "bought" /\ \A b \in Admins \ {a} : ui'[b] = ui[b]
    BY DEF Pay, Types, UiOK, Away
  <2> QED
    BY <1>1, <2>1, <2>2 DEF Pay, Types, StripeOK, StripeType, Last
<1> SUFFICES ASSUME ~hist.raced PROVE OneMaker' /\ AllKnown'
  BY <1>2 DEF PortalInv
<1>3. OneMaker /\ AllKnown /\ (\A c : Named(c)' <=> Named(c)) /\ Named(ui[a].cust)
  BY <1>2 DEF PortalInv, Named, AllKnown
<1>4. OneMaker'
  BY <1>2, <1>3 DEF OneMaker, Slots
<1>5. AllKnown'
  <2>1. \A i \in DOMAIN stripe'.subs : Named(stripe'.subs[i].cust)
    BY <1>1, <1>2, <1>3 DEF AllKnown, Last
  <2>2. \A e \in stripe'.outbox : Named(e.cust)
    BY <1>1, <1>3 DEF AllKnown
  <2>3. \A b \in Admins : ui'[b].at = "checkout" => Named(ui'[b].cust)
    BY <1>2, <1>3 DEF AllKnown
  <2> QED
    BY <1>2, <1>3, <2>1, <2>2, <2>3 DEF AllKnown, Slots
<1> QED
  BY <1>4, <1>5

LEMMA ChangeKnown ==
    ASSUME Types, PortalInv, NEW i \in DOMAIN stripe.subs, NEW state \in States, Change(i, state)
    PROVE  PortalInv'
<1>1. PICK e :
          /\ e.cust = stripe.subs[i].cust
          /\ stripe'.outbox = stripe.outbox \cup {e} /\ DOMAIN stripe'.subs = DOMAIN stripe.subs
          /\ \A j \in DOMAIN stripe.subs : stripe'.subs[j].cust = stripe.subs[j].cust
  BY ChangedState
<1>2. UNCHANGED <<net, ui, org, hist>>
  BY DEF Change
<1> SUFFICES ASSUME ~hist.raced PROVE OneMaker' /\ AllKnown'
  BY <1>2 DEF PortalInv
<1>3. OneMaker /\ AllKnown /\ (\A c : Named(c)' <=> Named(c)) /\ Named(e.cust)
  BY <1>1, <1>2 DEF PortalInv, Named, AllKnown
<1>4. OneMaker'
  BY <1>2, <1>3 DEF OneMaker, Slots
<1>5. AllKnown'
  BY <1>1, <1>2, <1>3 DEF AllKnown, Slots
<1> QED
  BY <1>4, <1>5

LEMMA PortalStep == Types /\ PortalInv /\ [Next]_vars => PortalInv'
<1> SUFFICES ASSUME Types, PortalInv, [Next]_vars PROVE PortalInv'
  OBVIOUS
<1>1. CASE UNCHANGED vars
  BY <1>1, PortalAside DEF vars, At
<1>2. ASSUME NEW a \in Admins, Person(a) PROVE PortalInv'
  <2>1. UNCHANGED <<org, stripe, hist>>
    BY <1>2 DEF Person, Visit, Reload, StartCheckout, OpenPortal, Return
  <2>2. \A b \in Admins : ui'[b].at = "checkout" => ui[b].at = "checkout" /\ ui'[b].cust = ui[b].cust
    BY <1>2, PersonUi
  <2>3. PICK s \in Slots : (\A t \in Slots \ {s} : net'[t] = net[t]) /\ net'[s].st = "sent"
    BY <1>2, SentState
  <2> QED
    BY <2>1, <2>2, <2>3, PortalAside DEF At
<1>3. ASSUME NEW s \in Slots, Serve(s) PROVE PortalInv'
  <2>1. CASE MakeSession(s)
    <3>1. UNCHANGED <<ui, org, stripe, hist>> /\ At(s, "checkout", "session")
      BY <2>1 DEF MakeSession
    <3> QED
      BY <2>1, <3>1, MakeSessionState, PortalAside DEF At
  <2>2. CASE MakePortal(s) \/ ReadPosture(s) \/ ReadSubscription(s) \/ TimeOut(s) \/ Reread(s)
    <3>1. UNCHANGED <<ui, org, stripe, hist>>
      BY <2>2 DEF MakePortal, ReadPosture, ReadSubscription, TimeOut, Reread
    <3> QED
      BY <2>2, <3>1, OtherState, PortalAside DEF At, OtherServe
  <2> QED
    BY <1>3, <2>1, <2>2, ReadCustomerKnown, MakeCustomerKnown, StoreCustomerKnown, FetchKnown, HealKnown DEF Serve
<1>4. ASSUME NEW s \in Slots, Fail(s) PROVE PortalInv'
  BY <1>4, FailState, PortalAside DEF At, Fail
<1>5. ASSUME NEW s \in Slots, Settles(s) PROVE PortalInv'
  <2>1. UNCHANGED <<org, stripe, hist>>
    BY <1>5 DEF Settles, Postured, Redirected, PortalOpened, Failed
  <2>2. ASSUME NEW t \in Slots
        PROVE  /\ net'[t].op = "billing" /\ net'[t].st = "got" => At(t, "billing", "got") /\ net'[t].news = net[t].news
               /\ net'[t].op = "checkout" /\ net'[t].st \in {"create", "store", "session", "done"} =>
                      net[t].op = "checkout" /\ net'[t].cust = net[t].cust /\ net'[t].st = net[t].st
    <3>1. CASE net'[t] = NoCall
      BY <3>1 DEF NoCall
    <3>2. CASE net'[t] # NoCall
      BY <1>5, <3>2, SettlesState DEF At
    <3> QED
      BY <3>1, <3>2
  <2>3. \A a \in Admins : ui'[a].at = "checkout" =>
               \/ ui[a].at = "checkout" /\ ui'[a].cust = ui[a].cust
               \/ \E t \in Slots : net[t].op = "checkout" /\ net[t].st = "done" /\ ui'[a].cust = net[t].cust
    BY <1>5, SettlesUi
  <2> QED
    BY <2>1, <2>2, <2>3, PortalAside
<1>6. ASSUME NEW e \in stripe.outbox, GiveUp(e) PROVE PortalInv'
  <2>1. /\ stripe'.subs = stripe.subs /\ stripe'.outbox \subseteq stripe.outbox
        /\ UNCHANGED <<net, ui, org>> /\ hist'.raced = hist.raced
    BY <1>6 DEF GiveUp, Known, Types, StripeOK, StripeType, HistOK, HistType
  <2> QED
    BY <2>1, PortalAside DEF At
<1> QED
  BY <1>1, <1>2, <1>3, <1>4, <1>5, <1>6, PayKnown, ChangeKnown, DeliverKnown DEF Next, Work, Stripe

LEMMA PortalInit == Init => PortalInv
BY DEF Init, PortalInv, OneMaker, AllKnown, NoCalls, NoCall, Away

\* The portal of the organization's customer reaches each subscription, unless
\* first checkouts raced (PortalReachesPayer).
THEOREM OneCustomer == Spec => []PortalReachesPayer
<1>1. PortalInv => PortalReachesPayer
  BY DEF PortalInv, AllKnown, Named, PortalReachesPayer
<1>2. Spec => [](Types /\ PortalInv)
  BY TypesInit, TypesStep, PortalInit, PortalStep, PTL DEF Spec
<1> QED
  BY <1>1, <1>2, PTL
=============================================================================
