------------------------------ MODULE Requests ------------------------------
(***************************************************************************)
(* The web client's calls of the API (lib/graphql.ts): a handler sends a   *)
(* request and goes on when its answer is there.  Requests of one screen   *)
(* overlap, the server takes them in any order, and answers arrive in any  *)
(* order.  An answer may also be lost after the server did the work: gql   *)
(* throws then as it does for a refusal, and the handler's catch runs.     *)
(***************************************************************************)
EXTENDS Naturals, FiniteSets, TLC

CONSTANT MaxCalls       \* requests of one screen at the same time

VARIABLE net            \* slot -> the request it carries

Slots == 1 .. MaxCalls
NoCall == [op |-> "none", st |-> "idle"]
NoCalls == [s \in Slots |-> NoCall]

Quiet == \A s \in Slots : net[s] = NoCall
Flying(op) == {s \in Slots : net[s].op = op}
\* The slot carries a request of this kind in this state.
At(s, op, st) == net[s].op = op /\ net[s].st = st

\* A record with more fields.
Extended(r, more) == [f \in DOMAIN r \cup DOMAIN more |-> IF f \in DOMAIN r THEN r[f] ELSE more[f]]

\* A table with this row, new or anew.
Entered(x, row, table) == [y \in DOMAIN table \cup {x} |-> IF y = x THEN row ELSE table[y]]

\* gql: fetch is called and the handler awaits.  "mine": the component that
\* asked is still mounted, so what its handler sets is seen.
Asked(r) == Extended(r, [st |-> "sent", mine |-> TRUE])
Send(r) ==
    \E s \in Slots :
        /\ net[s] = NoCall
        /\ \A t \in Slots : t < s => net[t] # NoCall
        /\ net' = [net EXCEPT ![s] = Asked(r)]

\* A component unmounts: its handlers run on, and set nothing.
Orphaned == [s \in Slots |-> IF net[s] = NoCall THEN NoCall ELSE [net[s] EXCEPT !.mine = FALSE]]

\* The server has done what it was asked to, and answers.
Answer(s, a) == net' = [net EXCEPT ![s] = Extended([@ EXCEPT !.st = "done"], [ans |-> a])]

\* The handler is through: the request is forgotten, or followed by another.
Settle(s) == net' = [net EXCEPT ![s] = NoCall]
Follow(s, r) == net' = [net EXCEPT ![s] = Asked(r)]

\* fetch rejects, the body is not JSON, or the answer carries errors.
Throw(s) == net' = [net EXCEPT ![s].st = "failed"]
=============================================================================
