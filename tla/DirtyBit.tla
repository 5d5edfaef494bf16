------------------------------ MODULE DirtyBit ------------------------------
(***************************************************************************)
(* What the live feed promises a view of the scene, without channel,       *)
(* socket or timer: a published change marks every open subscription       *)
(* dirty, and a mark is only removed by a load that is still to read the    *)
(* scene, or with the subscription.                                        *)
(***************************************************************************)
CONSTANT Clients

VARIABLES open, dirty, loading

vars == <<open, dirty, loading>>

TypeOK == open \subseteq Clients /\ dirty \subseteq Clients /\ loading \subseteq Clients

Init == open = {} /\ dirty = {} /\ loading = {}

Connect(c) == open' = open \cup {c} /\ UNCHANGED <<dirty, loading>>

\* Subscriptions close, one by one or all with the server.  Their views may
\* forget what they owe, load, or be gone.
Close(C) ==
    /\ open' = open \ C
    /\ dirty \ C \subseteq dirty' /\ dirty' \subseteq dirty
    /\ loading \ C \subseteq loading' /\ loading' \subseteq loading \cup C

Publish == dirty' = dirty \cup open /\ UNCHANGED <<open, loading>>

\* A load is sent; it may or may not settle what is dirty.
Fetch(c) ==
    /\ dirty \ {c} \subseteq dirty' /\ dirty' \subseteq dirty
    /\ loading' = loading \cup {c}
    /\ UNCHANGED open

\* The loads of c have read the scene, or failed.
Done(c) == loading' = loading \ {c} /\ UNCHANGED <<open, dirty>>

Next ==
    \/ Publish
    \/ \E C \in SUBSET Clients : Close(C)
    \/ \E c \in Clients : Connect(c) \/ Fetch(c) \/ Done(c)

Spec == Init /\ [][Next]_vars

\* No view stays dirty.
Settles == \A c \in Clients : []<>(c \notin dirty)
=============================================================================
