----------------------------- MODULE Live_proofs -----------------------------
(***************************************************************************)
(* The live view.  Of its feed, for any number of views, mutations and     *)
(* overlapping loads and any capacity of the channel: types, no ping is    *)
(* lost (Heard), what is pinged comes to the screen (Shown), no load shows *)
(* less than was shown when it was asked (NeverBehindAsk), and the channel *)
(* with its lag and its debounce implements DirtyBit.  Of the feed beside its frames, for any number of layers of   *)
(* each kind and of turns of the user: types, and that what is drawn       *)
(* follows its last cause.                                                 *)
(***************************************************************************)
EXTENDS MCSceneLive, TLAPS


\* Closing the subscriptions of C, or moving them to another state, keeps the types.
LEMMA ForgetTypes ==
  ASSUME TypeOK, NEW C, Forget(C)
  PROVE  /\ pending' \in [Clients -> 0..Cap]
         /\ lagged' \in [Clients -> BOOLEAN]
         /\ due' \in [Clients -> Versions]
<1>1. pending' \in [Clients -> 0..Cap]
  BY FeedAssumption DEF TypeOK, Forget
<1>2. lagged' \in [Clients -> BOOLEAN]
  BY DEF TypeOK, Forget
<1>3. due' \in [Clients -> Versions]
  BY FeedAssumption DEF TypeOK, Forget, Versions
<1> QED  BY <1>1, <1>2, <1>3

LEMMA MoveTypes ==
  ASSUME TypeOK, NEW C,
         NEW state \in {"off", "connecting", "open", "dead"}, Move(C, state)
  PROVE  conn' \in [Clients -> {"off", "connecting", "open", "dead"}]
  BY DEF TypeOK, Move

\* Every variable keeps its type.
THEOREM FeedTypeSafe == Spec => []TypeOK
<1>1. Init => TypeOK
  BY FeedAssumption DEF Init, TypeOK, Versions, Load, NoLoad
<1>2. TypeOK /\ [Next]_vars => TypeOK'
  <2> SUFFICES ASSUME TypeOK, [Next]_vars PROVE TypeOK'
    OBVIOUS
  <2> USE FeedAssumption DEF TypeOK, Versions, Load, NoLoad, Open, server, socket, page
  <2>1. ASSUME NEW m \in Mutations, Serve(m) PROVE TypeOK'
    <3>1. CASE Commit(m)  BY <3>1 DEF Commit
    <3>2. CASE Publish(m)  BY <3>2 DEF Publish
    <3>3. CASE AnswerSilently(m)  BY <3>3 DEF AnswerSilently
    <3>4. CASE Drop(m)  BY <3>4 DEF Drop
    <3> QED  BY <2>1, <3>1, <3>2, <3>3, <3>4 DEF Serve
  <2>2. ASSUME NEW c \in Clients, Connection(c) PROVE TypeOK'
    <3>1. CASE Subscribe(c)  BY <3>1 DEF Subscribe, Move
    <3>2. CASE Refuse(c)  BY <3>2 DEF Refuse, Move
    <3>3. CASE FailConnect(c)
      <4>1. conn' \in [Clients -> {"off", "connecting", "open", "dead"}]
        BY <3>3 DEF FailConnect, Move
      <4>2. tries' \in [Clients -> 0..Retries]
        <5>1. CASE tries[c] < Retries
          <6>1. tries' = [tries EXCEPT ![c] = tries[c] + 1]
            BY <3>3, <5>1 DEF FailConnect
          <6>2. tries[c] + 1 \in 0..Retries
            BY <5>1
          <6> QED  BY <6>1, <6>2
        <5>2. CASE ~(tries[c] < Retries)  BY <3>3, <5>2 DEF FailConnect
        <5> QED  BY <5>1, <5>2
      <4> QED  BY <3>3, <4>1, <4>2 DEF FailConnect
    <3>4. CASE Lose(c)  BY <3>4, ForgetTypes, MoveTypes DEF Lose
    <3>5. CASE Push(c)
      <4>1. pending' \in [Clients -> 0..Cap]
        BY <3>5 DEF Push
      <4>2. lagged' \in [Clients -> BOOLEAN]
        BY <3>5 DEF Push
      <4> QED  BY <3>5, <4>1, <4>2 DEF Push
    <3>6. CASE Unmount(c)  BY <3>6, ForgetTypes, MoveTypes DEF Unmount
    <3> QED  BY <2>2, <3>1, <3>2, <3>3, <3>4, <3>5, <3>6 DEF Connection
  <2>3. ASSUME NEW c \in Clients, NEW l \in Loads, Loading(c, l) PROVE TypeOK'
    <3> USE DEF Send, SetLoad
    <3>1. CASE Mount(c, l)  BY <3>1 DEF Mount, Move
    <3>2. CASE Resubscribe(c, l)  BY <3>2, ForgetTypes, MoveTypes DEF Resubscribe
    <3>3. CASE Reload(c, l)  BY <3>3 DEF Reload
    <3>4. CASE Fire(c, l)  BY <3>4 DEF Fire
    <3>5. CASE Read(c, l)  BY <3>5 DEF Read, Answer
    <3>6. CASE Show(c, l)  BY <3>6 DEF Show, Apply
    <3>7. CASE FailLoad(c, l)  BY <3>7 DEF FailLoad
    <3> QED  BY <2>3, <3>1, <3>2, <3>3, <3>4, <3>5, <3>6, <3>7 DEF Loading
  <2>4. CASE Restart  BY <2>4, ForgetTypes, MoveTypes DEF Restart
  <2>5. CASE UNCHANGED vars  BY <2>5 DEF vars
  <2> QED  BY <2>1, <2>2, <2>3, <2>4, <2>5 DEF Next
<1> QED  BY <1>1, <1>2, PTL DEF Spec

-----------------------------------------------------------------------------
(* No ping is lost *)

\* What is due or fetched was committed; a view that is not subscribed owes nothing.
DueBound ==
    /\ \A c \in Clients : due[c] <= scene /\ fetched[c] <= scene /\ shown[c] <= scene
    /\ \A c \in Clients : conn[c] # "open" => due[c] = 0
    /\ \A c \in Clients, l \in Loads : loads[c][l].scene <= scene

LEMMA DueBoundStep == TypeOK /\ DueBound /\ [Next]_vars => DueBound'
<1> SUFFICES ASSUME TypeOK, DueBound, [Next]_vars PROVE DueBound'
  OBVIOUS
<1> USE FeedAssumption DEF TypeOK, DueBound, Versions, Load, NoLoad, Open, server, socket, page
<1>1. ASSUME NEW m \in Mutations, Serve(m) PROVE DueBound'
  <2>1. CASE Commit(m)  BY <2>1 DEF Commit
  <2>2. CASE Publish(m)  BY <2>2 DEF Publish
  <2>3. CASE AnswerSilently(m)  BY <2>3 DEF AnswerSilently
  <2>4. CASE Drop(m)  BY <2>4 DEF Drop
  <2> QED  BY <1>1, <2>1, <2>2, <2>3, <2>4 DEF Serve
<1>2. ASSUME NEW c \in Clients, Connection(c) PROVE DueBound'
  <2>1. CASE Subscribe(c)  BY <2>1 DEF Subscribe, Move
  <2>2. CASE Refuse(c)  BY <2>2 DEF Refuse, Move
  <2>3. CASE FailConnect(c)  BY <2>3 DEF FailConnect, Move
  <2>4. CASE Lose(c)  BY <2>4 DEF Lose, Move, Forget
  <2>5. CASE Push(c)  BY <2>5 DEF Push
  <2>6. CASE Unmount(c)  BY <2>6 DEF Unmount, Move, Forget
  <2> QED  BY <1>2, <2>1, <2>2, <2>3, <2>4, <2>5, <2>6 DEF Connection
<1>3. ASSUME NEW c \in Clients, NEW l \in Loads, Loading(c, l) PROVE DueBound'
  <2> USE DEF Send, SetLoad
  <2>1. CASE Mount(c, l)  BY <2>1 DEF Mount, Move
  <2>2. CASE Resubscribe(c, l)  BY <2>2 DEF Resubscribe, Move, Forget
  <2>3. CASE Reload(c, l)  BY <2>3 DEF Reload
  <2>4. CASE Fire(c, l)  BY <2>4 DEF Fire
  <2>5. CASE Read(c, l)  BY <2>5 DEF Read, Answer
  <2>6. CASE Show(c, l)  BY <2>6 DEF Show, Apply
  <2>7. CASE FailLoad(c, l)  BY <2>7 DEF FailLoad
  <2> QED  BY <1>3, <2>1, <2>2, <2>3, <2>4, <2>5, <2>6, <2>7 DEF Loading
<1>4. CASE Restart  BY <1>4 DEF Restart, Move, Forget
<1>5. CASE UNCHANGED vars  BY <1>5 DEF vars
<1> QED  BY <1>1, <1>2, <1>3, <1>4, <1>5 DEF Next

LEMMA DueBounded == Spec => [](TypeOK /\ DueBound)
<1>1. Init => DueBound
  BY FeedAssumption DEF Init, DueBound, NoLoad
<1>2. TypeOK /\ DueBound /\ [Next]_vars => DueBound'
  BY DueBoundStep
<1>3. Spec => []TypeOK
  BY FeedTypeSafe
<1> QED  BY <1>1, <1>2, <1>3, PTL DEF Spec

LEMMA HeardStep == TypeOK /\ DueBound /\ Heard /\ [Next]_vars => Heard'
<1> SUFFICES ASSUME TypeOK, DueBound, Heard, [Next]_vars PROVE Heard'
  OBVIOUS
<1> USE FeedAssumption DEF TypeOK, Heard, Versions, Load, NoLoad, Open,
        server, socket, page, Behind, Sent
<1>1. ASSUME NEW m \in Mutations, Serve(m) PROVE Heard'
  <2>1. CASE Commit(m)  BY <2>1 DEF Commit
  <2>2. CASE Publish(m)  BY <2>2 DEF Publish
  <2>3. CASE AnswerSilently(m)  BY <2>3 DEF AnswerSilently
  <2>4. CASE Drop(m)  BY <2>4 DEF Drop
  <2> QED  BY <1>1, <2>1, <2>2, <2>3, <2>4 DEF Serve
<1>2. ASSUME NEW c \in Clients, Connection(c) PROVE Heard'
  <2>1. CASE Subscribe(c)  BY <2>1 DEF Subscribe, Move
  <2>2. CASE Refuse(c)  BY <2>2 DEF Refuse, Move
  <2>3. CASE FailConnect(c)  BY <2>3 DEF FailConnect, Move
  <2>4. CASE Lose(c)  BY <2>4 DEF Lose, Move, Forget
  <2>5. CASE Push(c)  BY <2>5 DEF Push
  <2>6. CASE Unmount(c)  BY <2>6 DEF Unmount, Move, Forget
  <2> QED  BY <1>2, <2>1, <2>2, <2>3, <2>4, <2>5, <2>6 DEF Connection
<1>3. ASSUME NEW c \in Clients, NEW l \in Loads, Loading(c, l) PROVE Heard'
  <2> USE DEF Send, SetLoad
  <2>1. CASE Mount(c, l)  BY <2>1 DEF Mount, Move
  <2>2. CASE Resubscribe(c, l)  BY <2>2 DEF Resubscribe, Move, Forget
  <2>3. CASE Reload(c, l)  BY <2>3 DEF Reload
  <2>4. CASE Fire(c, l)  BY <2>4 DEF Fire
  <2>5. CASE Read(c, l)  BY <2>5 DEF Read, Answer, DueBound
  <2>6. CASE Show(c, l)  BY <2>6 DEF Show, Apply
  <2>7. CASE FailLoad(c, l)  BY <2>7 DEF FailLoad
  <2> QED  BY <1>3, <2>1, <2>2, <2>3, <2>4, <2>5, <2>6, <2>7 DEF Loading
<1>4. CASE Restart  BY <1>4 DEF Restart, Move, Forget
<1>5. CASE UNCHANGED vars  BY <1>5 DEF vars
<1> QED  BY <1>1, <1>2, <1>3, <1>4, <1>5 DEF Next

\* A subscriber misses no ping of its subscription: publish, lag, debounce and
\* overlapping loads never leave it waiting for nothing (pubsub.rs,
\* subscription.rs, the debounced effect of scene-view.tsx).
THEOREM NoPingLost == Spec => []Heard
<1>1. Init => Heard
  BY DEF Init, Heard
<1>2. TypeOK /\ DueBound /\ Heard /\ [Next]_vars => Heard'
  BY HeardStep
<1>3. Spec => [](TypeOK /\ DueBound)
  BY DueBounded
<1> QED  BY <1>1, <1>2, <1>3, PTL DEF Spec

-----------------------------------------------------------------------------
(* No load shows less than was shown when it was asked *)

\* An answer is no older than what was shown when its load was asked, and nothing
\* was shown that is not committed.
Fresh == \A c \in Clients, l \in Loads :
            /\ loads[c][l].past <= scene
            /\ loads[c][l].at = "answered" => loads[c][l].past <= loads[c][l].scene

LEMMA FreshStep == TypeOK /\ DueBound /\ Fresh /\ [Next]_vars => Fresh'
<1> SUFFICES ASSUME TypeOK, DueBound, Fresh, [Next]_vars PROVE Fresh'
  OBVIOUS
<1> USE FeedAssumption DEF TypeOK, Fresh, Versions, Load, NoLoad, server, page
<1>1. ASSUME NEW m \in Mutations, Serve(m) PROVE Fresh'
  BY <1>1 DEF Serve, Commit, Publish, AnswerSilently, Drop
<1>2. ASSUME NEW c \in Clients, Connection(c) PROVE Fresh'
  <2>1. CASE Unmount(c)  BY <2>1 DEF Unmount
  <2>2. CASE ~Unmount(c)
    BY <1>2, <2>2 DEF Connection, Subscribe, Refuse, FailConnect, Lose, Push
  <2> QED  BY <2>1, <2>2
<1>3. ASSUME NEW c \in Clients, NEW l \in Loads, Loading(c, l) PROVE Fresh'
  <2> USE DEF Send, SetLoad
  <2>1. CASE Mount(c, l)  BY <2>1 DEF Mount, DueBound
  <2>2. CASE Resubscribe(c, l)  BY <2>2 DEF Resubscribe, DueBound
  <2>3. CASE Reload(c, l)  BY <2>3 DEF Reload, DueBound
  <2>4. CASE Fire(c, l)  BY <2>4 DEF Fire, DueBound
  <2>5. CASE Read(c, l)  BY <2>5 DEF Read, Answer
  <2>6. CASE Show(c, l)  BY <2>6 DEF Show, Apply
  <2>7. CASE FailLoad(c, l)  BY <2>7 DEF FailLoad
  <2> QED  BY <1>3, <2>1, <2>2, <2>3, <2>4, <2>5, <2>6, <2>7 DEF Loading
<1>4. CASE Restart  BY <1>4 DEF Restart
<1>5. CASE UNCHANGED vars  BY <1>5 DEF vars
<1> QED  BY <1>1, <1>2, <1>3, <1>4, <1>5 DEF Next

LEMMA StaysFresh == Spec => []Fresh
<1>1. Init => Fresh
  BY FeedAssumption DEF Init, Fresh, NoLoad
<1>2. TypeOK /\ DueBound /\ Fresh /\ [Next]_vars => Fresh'
  BY FreshStep
<1>3. Spec => [](TypeOK /\ DueBound)
  BY DueBounded
<1> QED  BY <1>1, <1>2, <1>3, PTL DEF Spec

\* However many loads a view has in flight and however they are answered, what
\* setScene puts on the screen is no older than what was there when it was asked
\* for: crossed answers take back only what came while both were in flight.
THEOREM AnswersKeepUp == Spec => NeverBehindAsk
<1>1. Spec => [](TypeOK /\ Fresh)
  BY FeedTypeSafe, StaysFresh, PTL
<1>2. TypeOK /\ Fresh /\ [Next]_vars => [AnsweredStep]_vars
  <2> SUFFICES ASSUME TypeOK, Fresh, Next PROVE AnsweredStep
    OBVIOUS
  <2> USE FeedAssumption DEF TypeOK, AnsweredStep, Versions, Load, page
  <2>1. ASSUME NEW m \in Mutations, Serve(m) PROVE AnsweredStep
    BY <2>1 DEF Serve, Commit, Publish, AnswerSilently, Drop
  <2>2. ASSUME NEW c \in Clients, Connection(c) PROVE AnsweredStep
    <3>1. CASE Unmount(c)  BY <3>1 DEF Unmount, Move
    <3>2. CASE ~Unmount(c)
      BY <2>2, <3>2 DEF Connection, Subscribe, Refuse, FailConnect, Lose, Push
    <3> QED  BY <3>1, <3>2
  <2>3. ASSUME NEW c \in Clients, NEW l \in Loads, Loading(c, l) PROVE AnsweredStep
    <3>1. CASE Show(c, l)
      <4>1. /\ view' = [view EXCEPT ![c] = loads[c][l].scene]
            /\ loads[c][l].at = "answered" /\ loads'[c][l].at = "free"
            /\ loads[c][l].past <= loads[c][l].scene
        BY <3>1 DEF Show, Apply, SetLoad, NoLoad, Fresh
      <4> QED  BY <4>1
    <3>2. CASE ~Show(c, l)
      BY <2>3, <3>2 DEF Loading, Mount, Resubscribe, Reload, Fire, Read, Answer, FailLoad
    <3> QED  BY <3>1, <3>2
  <2>4. CASE Restart  BY <2>4 DEF Restart
  <2> QED  BY <2>1, <2>2, <2>3, <2>4 DEF Next
<1> QED  BY <1>1, <1>2, PTL DEF Spec, NeverBehindAsk

-----------------------------------------------------------------------------
(* What is pinged comes to the screen *)

LEMMA ShownStep == TypeOK /\ DueBound /\ Shown /\ [Next]_vars => Shown'
<1> SUFFICES ASSUME TypeOK, DueBound, [Next]_vars,
                        NEW d \in Clients, shown[d] < due[d] => OnItsWay(d),
                        shown'[d] < due'[d]
                 PROVE  OnItsWay(d)'
  BY DEF Shown
<1> USE FeedAssumption DEF TypeOK, Versions, Load, NoLoad, Open,
        server, socket, page, Behind, Sent, OnItsWay
<1>1. ASSUME NEW m \in Mutations, Serve(m) PROVE OnItsWay(d)'
  <2>1. CASE Commit(m)  BY <2>1 DEF Commit
  <2>2. CASE Publish(m)  BY <2>2 DEF Publish
  <2>3. CASE AnswerSilently(m)  BY <2>3 DEF AnswerSilently
  <2>4. CASE Drop(m)  BY <2>4 DEF Drop
  <2> QED  BY <1>1, <2>1, <2>2, <2>3, <2>4 DEF Serve
<1>2. ASSUME NEW c \in Clients, Connection(c) PROVE OnItsWay(d)'
  <2>1. CASE Subscribe(c)  BY <2>1 DEF Subscribe, Move
  <2>2. CASE Refuse(c)  BY <2>2 DEF Refuse, Move
  <2>3. CASE FailConnect(c)  BY <2>3 DEF FailConnect, Move
  <2>4. CASE Lose(c)  BY <2>4 DEF Lose, Move, Forget
  <2>5. CASE Push(c)  BY <2>5 DEF Push
  <2>6. CASE Unmount(c)  BY <2>6 DEF Unmount, Move, Forget
  <2> QED  BY <1>2, <2>1, <2>2, <2>3, <2>4, <2>5, <2>6 DEF Connection
<1>3. ASSUME NEW c \in Clients, NEW l \in Loads, Loading(c, l) PROVE OnItsWay(d)'
  <2> USE DEF Send, SetLoad
  <2>1. CASE Mount(c, l)  BY <2>1 DEF Mount, Move
  <2>2. CASE Resubscribe(c, l)  BY <2>2 DEF Resubscribe, Move, Forget
  <2>3. CASE Reload(c, l)  BY <2>3 DEF Reload
  <2>4. CASE Fire(c, l)  BY <2>4 DEF Fire
  <2>5. CASE Read(c, l)  BY <2>5 DEF Read, Answer, DueBound
  <2>6. CASE Show(c, l)
    <3>1. CASE d # c  BY <2>6, <3>1 DEF Show, Apply
    <3>2. CASE d = c
      <4>1. /\ shown'[c] = (IF loads[c][l].scene > shown[c] THEN loads[c][l].scene ELSE shown[c])
            /\ due'[c] = due[c] /\ loads[c][l].at = "answered"
        BY <2>6 DEF Show, Apply
      <4>2. shown[c] < due[c] /\ ~(loads[c][l].scene >= due[c])
        BY <3>2, <4>1
      <4>3. \A k \in Loads : k # l => loads'[c][k] = loads[c][k]
        BY <2>6 DEF Show, Apply
      <4> QED  BY <2>6, <3>2, <4>1, <4>2, <4>3 DEF Show, Apply
    <3> QED  BY <3>1, <3>2
  <2>7. CASE FailLoad(c, l)  BY <2>7 DEF FailLoad
  <2> QED  BY <1>3, <2>1, <2>2, <2>3, <2>4, <2>5, <2>6, <2>7 DEF Loading
<1>4. CASE Restart  BY <1>4 DEF Restart, Move, Forget
<1>5. CASE UNCHANGED vars  BY <1>5 DEF vars
<1> QED  BY <1>1, <1>2, <1>3, <1>4, <1>5 DEF Next

\* The change of the last ping has been on the screen of its view, or an update is
\* on its way, however the loads of the view overlap and fail.
THEOREM PingedIsShown == Spec => []Shown
<1>1. Init => Shown
  BY DEF Init, Shown
<1>2. TypeOK /\ DueBound /\ Shown /\ [Next]_vars => Shown'
  BY ShownStep
<1>3. Spec => [](TypeOK /\ DueBound)
  BY DueBounded
<1> QED  BY <1>1, <1>2, <1>3, PTL DEF Spec

-----------------------------------------------------------------------------
(* The channel, its lag and the debounce implement DirtyBit *)

\* A step that leaves the three mapped variables alone is a stutter.
BitStutter == UNCHANGED <<Open, Dirty, Asking>>

LEMMA BitStep == TypeOK /\ [Next]_vars => [Bit!Next]_(Bit!vars)
<1> SUFFICES ASSUME TypeOK, [Next]_vars PROVE Bit!Next \/ BitStutter
  BY DEF Bit!vars, BitStutter
<1> USE FeedAssumption DEF TypeOK, Open, Dirty, Asking, Behind, Sent,
        server, socket, page, BitStutter
<1>1. ASSUME NEW m \in Mutations, Serve(m) PROVE Bit!Next \/ BitStutter
  <2>1. CASE Publish(m)
    <3>1. Open' = Open /\ Asking' = Asking
      BY <2>1 DEF Publish
    <3>2. \A c \in Clients : Behind(c)' <=> Behind(c) \/ c \in Open
      BY <2>1 DEF Publish
    <3>3. Dirty' = Dirty \cup Open
      BY <3>2
    <3> QED  BY <3>1, <3>3 DEF Bit!Next, Bit!Publish
  <2>2. CASE ~Publish(m)
    BY <1>1, <2>2 DEF Serve, Commit, AnswerSilently, Drop
  <2> QED  BY <2>1, <2>2
<1>2. ASSUME NEW c \in Clients, Connection(c) PROVE Bit!Next \/ BitStutter
  <2>1. CASE Subscribe(c)
    <3>1. Open' = Open \cup {c} /\ Dirty' = Dirty /\ Asking' = Asking
      BY <2>1 DEF Subscribe, Move
    <3> QED  BY <3>1 DEF Bit!Next, Bit!Connect
  <2>2. CASE Refuse(c)  BY <2>2 DEF Refuse, Move
  <2>3. CASE FailConnect(c)  BY <2>3 DEF FailConnect, Move
  <2>4. CASE Lose(c)
    <3>1. Open' = Open \ {c} /\ Asking' = Asking
      BY <2>4 DEF Lose, Move
    <3>2. Dirty \ {c} \subseteq Dirty' /\ Dirty' \subseteq Dirty
      BY <2>4 DEF Lose, Forget
    <3>3. Bit!Close({c})
      BY <3>1, <3>2 DEF Bit!Close
    <3> QED  BY <3>3 DEF Bit!Next
  <2>5. CASE Push(c)
    <3>1. Open' = Open /\ Asking' = Asking
      BY <2>5 DEF Push
    <3>2. \A d \in Clients : Behind(d)' <=> Behind(d)
      BY <2>5 DEF Push
    <3> QED  BY <3>1, <3>2
  <2>6. CASE Unmount(c)
    <3>1. Open' = Open \ {c}
      BY <2>6 DEF Unmount, Move
    <3>2. Asking \ {c} \subseteq Asking' /\ Asking' \subseteq Asking \cup {c}
      BY <2>6 DEF Unmount
    <3>3. Dirty \ {c} \subseteq Dirty' /\ Dirty' \subseteq Dirty
      BY <2>6 DEF Unmount, Forget
    <3>4. Bit!Close({c})
      BY <3>1, <3>2, <3>3 DEF Bit!Close
    <3> QED  BY <3>4 DEF Bit!Next
  <2> QED  BY <1>2, <2>1, <2>2, <2>3, <2>4, <2>5, <2>6 DEF Connection
<1>3. ASSUME NEW c \in Clients, NEW l \in Loads, Loading(c, l)
      PROVE Bit!Next \/ BitStutter
  <2>1. ASSUME Send(c, l) PROVE Asking' = Asking \cup {c}
    BY <2>1 DEF Send, SetLoad
  <2>2. CASE Mount(c, l)
    <3>1. Open' = Open /\ Dirty' = Dirty
      BY <2>2 DEF Mount, Move
    <3> QED  BY <2>1, <2>2, <3>1 DEF Mount, Bit!Next, Bit!Fetch
  <2>3. CASE Resubscribe(c, l)
    <3>1. Open' = Open \ {c}
      BY <2>3 DEF Resubscribe, Move
    <3>2. Dirty \ {c} \subseteq Dirty' /\ Dirty' \subseteq Dirty
      BY <2>3 DEF Resubscribe, Forget
    <3>3. Asking' = Asking \cup {c}
      BY <2>1, <2>3 DEF Resubscribe
    <3> QED  BY <3>1, <3>2, <3>3 DEF Bit!Next, Bit!Close
  <2>4. CASE Reload(c, l)
    <3>1. Open' = Open /\ Dirty' = Dirty
      BY <2>4 DEF Reload
    <3> QED  BY <2>1, <2>4, <3>1 DEF Reload, Bit!Next, Bit!Fetch
  <2>5. CASE Fire(c, l)
    <3>1. Open' = Open /\ Asking' = Asking \cup {c}
      BY <2>1, <2>5 DEF Fire
    <3>2. Dirty \ {c} \subseteq Dirty' /\ Dirty' \subseteq Dirty
      BY <2>5 DEF Fire
    <3> QED  BY <3>1, <3>2 DEF Bit!Next, Bit!Fetch
  <2>6. ASSUME SetLoad(c, l, NoLoad) \/ Read(c, l), UNCHANGED <<Open, Dirty>>
        PROVE  Bit!Next \/ BitStutter
    <3>1. PICK load : load.at # "sent" /\ SetLoad(c, l, load)
      BY <2>6 DEF NoLoad, Read, Answer
    <3>2. \A d \in Clients : d # c => (Sent(d)' <=> Sent(d))
      BY <3>1 DEF SetLoad
    <3>3. Sent(c)' => Sent(c)
      BY <3>1 DEF SetLoad
    <3>4. Asking' = Asking \/ Asking' = Asking \ {c}
      BY <3>2, <3>3
    <3> QED  BY <2>6, <3>4 DEF Bit!Next, Bit!Done
  <2>7. CASE Read(c, l)
    <3>1. UNCHANGED <<Open, Dirty>>
      BY <2>7 DEF Read, Answer
    <3> QED  BY <2>6, <2>7, <3>1
  <2>8. CASE Show(c, l)
    <3>1. UNCHANGED <<Open, Dirty>>
      BY <2>8 DEF Show, Apply
    <3> QED  BY <2>6, <2>8, <3>1 DEF Show, Apply
  <2>9. CASE FailLoad(c, l)
    <3>1. UNCHANGED <<Open, Dirty>>
      BY <2>9 DEF FailLoad
    <3> QED  BY <2>6, <2>9, <3>1 DEF FailLoad
  <2> QED  BY <1>3, <2>2, <2>3, <2>4, <2>5, <2>7, <2>8, <2>9 DEF Loading
<1>4. CASE Restart
  <2>1. Open' = Open \ Open /\ Asking' = Asking
    BY <1>4 DEF Restart, Move
  <2>2. Dirty \ Open \subseteq Dirty' /\ Dirty' \subseteq Dirty
    BY <1>4 DEF Restart, Forget
  <2> QED  BY <2>1, <2>2 DEF Bit!Next, Bit!Close
<1>5. CASE UNCHANGED vars  BY <1>5 DEF vars
<1> QED  BY <1>1, <1>2, <1>3, <1>4, <1>5 DEF Next

\* Whatever overflows, is merged or restarted, a published change is forgotten
\* only to a load that is still to read, or with its subscription.
THEOREM FeedIsDirtyBit == Spec => IsDirtyBit
<1>1. Init => Bit!Init
  BY DEF Init, Bit!Init, Open, Dirty, Asking, Behind, Sent, NoLoad
<1>2. TypeOK /\ [Next]_vars => [Bit!Next]_(Bit!vars)
  BY BitStep
<1>3. Spec => []TypeOK
  BY FeedTypeSafe
<1> QED  BY <1>1, <1>2, <1>3, PTL DEF Spec, IsDirtyBit, Bit!Spec

-----------------------------------------------------------------------------
(* The view: the feed, and the frames that draw what it brings.            *)

\* The two halves side by side: each behaves as its own specification says.
LEMMA FeedSide == LiveSpec => Spec
<1>1. LiveInit => Init
  BY DEF LiveInit
<1>2. [LiveNext]_<<draws, vars, frameVars>> => [Next]_vars
  BY DEF LiveNext
<1> QED
  BY <1>1, <1>2, PTL DEF LiveSpec, Spec

LEMMA FramesSide == LiveSpec => F!Spec
<1>1. LiveInit => F!Init
  BY DEF LiveInit
<1>2. [LiveNext]_<<draws, vars, frameVars>> => [F!Next]_(F!vars)
  BY DEF LiveNext, frameVars, F!vars
<1> QED
  BY <1>1, <1>2, PTL DEF LiveSpec, F!Spec

-----------------------------------------------------------------------------
\* The types, variable by variable.
Aims == {"first", "preset", "point"}
WindowType == [is : {"focus", "visible", "hidden"}, asked : BOOLEAN]
LayerType ==
    [want : BOOLEAN, mounted : BOOLEAN, level : 0 .. 2, away : 0 .. 2, effect : BOOLEAN, timer : BOOLEAN]
CameraType ==
    [goal : Aims \cup {"none"}, far : BOOLEAN, at : Aims \cup {"none", "user"}, held : BOOLEAN, idle : 0 .. 2]
TurnedType == [turns : 0 .. MaxTurns, blinked : SUBSET Fades, intent : Aims \cup {"none", "user"}]

FrameTypes ==
    /\ window \in WindowType
    /\ layer \in [F!Layers -> LayerType]
    /\ camera \in CameraType
    /\ turned \in TurnedType

LEMMA TurnsBound == MaxTurns \in Nat
BY LiveAssumption DEF F!FramesAssumption

LEMMA SameTypes == FrameTypes <=> F!TypeOK
BY DEF FrameTypes, F!TypeOK, F!Intents, WindowType, LayerType, CameraType, TurnedType, Aims

\* A level or a distance moves by one, and stays within its bounds.
LEMMA NearType ==
    ASSUME NEW level \in 0 .. 2, NEW target \in 0 .. 2
    PROVE  F!Near(level, target) \in 0 .. 2
BY DEF F!Near

\* What a step sets in a record: its flags and names first, then its numbers.
LEMMA LayerToggled ==
    ASSUME NEW r \in LayerType, NEW w \in BOOLEAN, NEW m \in BOOLEAN, NEW e \in BOOLEAN
    PROVE  [r EXCEPT !.want = w, !.mounted = m, !.effect = e] \in LayerType
BY DEF LayerType

LEMMA LayerEffected ==
    ASSUME NEW r \in LayerType, NEW e \in BOOLEAN, NEW t \in BOOLEAN, NEW m \in BOOLEAN, NEW l \in 0 .. 2
    PROVE  [r EXCEPT !.effect = e, !.timer = t, !.mounted = m, !.level = l] \in LayerType
<1> DEFINE p == [r EXCEPT !.effect = e, !.timer = t, !.mounted = m]
<1>1. p \in LayerType
  BY DEF LayerType
<1>2. [r EXCEPT !.effect = e, !.timer = t, !.mounted = m, !.level = l] = [p EXCEPT !.level = l]
  OBVIOUS
<1> HIDE DEF p
<1> QED
  BY <1>1, <1>2 DEF LayerType

LEMMA LayerTimed ==
    ASSUME NEW r \in LayerType, NEW t \in BOOLEAN, NEW m \in BOOLEAN, NEW l \in 0 .. 2
    PROVE  [r EXCEPT !.timer = t, !.mounted = m, !.level = l] \in LayerType
<1> DEFINE p == [r EXCEPT !.timer = t, !.mounted = m]
<1>1. p \in LayerType
  BY DEF LayerType
<1>2. [r EXCEPT !.timer = t, !.mounted = m, !.level = l] = [p EXCEPT !.level = l]
  OBVIOUS
<1> HIDE DEF p
<1> QED
  BY <1>1, <1>2 DEF LayerType

LEMMA CameraFramed ==
    ASSUME NEW c \in CameraType, NEW g \in Aims
    PROVE  [c EXCEPT !.goal = g, !.idle = 0] \in CameraType
<1> DEFINE p == [c EXCEPT !.goal = g]
<1>1. p \in CameraType
  BY DEF CameraType
<1>2. [c EXCEPT !.goal = g, !.idle = 0] = [p EXCEPT !.idle = 0]
  OBVIOUS
<1> HIDE DEF p
<1> QED
  BY <1>1, <1>2 DEF CameraType

LEMMA CameraAimed ==
    ASSUME NEW c \in CameraType, NEW g \in Aims
    PROVE  [c EXCEPT !.goal = g, !.far = TRUE, !.idle = 0] \in CameraType
<1> DEFINE p == [c EXCEPT !.goal = g, !.far = TRUE]
<1>1. p \in CameraType
  BY DEF CameraType
<1>2. [c EXCEPT !.goal = g, !.far = TRUE, !.idle = 0] = [p EXCEPT !.idle = 0]
  OBVIOUS
<1> HIDE DEF p
<1> QED
  BY <1>1, <1>2 DEF CameraType

LEMMA CameraTaken ==
    ASSUME NEW c \in CameraType
    PROVE  [c EXCEPT !.goal = "none", !.far = FALSE, !.at = "user", !.held = TRUE, !.idle = 0] \in CameraType
<1> DEFINE p == [c EXCEPT !.goal = "none", !.far = FALSE, !.at = "user", !.held = TRUE]
<1>1. p \in CameraType
  BY DEF CameraType
<1>2. [c EXCEPT !.goal = "none", !.far = FALSE, !.at = "user", !.held = TRUE, !.idle = 0] = [p EXCEPT !.idle = 0]
  OBVIOUS
<1> HIDE DEF p
<1> QED
  BY <1>1, <1>2 DEF CameraType

LEMMA CameraReleased ==
    ASSUME NEW c \in CameraType
    PROVE  [c EXCEPT !.held = FALSE, !.idle = 0] \in CameraType
<1> DEFINE p == [c EXCEPT !.held = FALSE]
<1>1. p \in CameraType
  BY DEF CameraType
<1>2. [c EXCEPT !.held = FALSE, !.idle = 0] = [p EXCEPT !.idle = 0]
  OBVIOUS
<1> HIDE DEF p
<1> QED
  BY <1>1, <1>2 DEF CameraType

LEMMA TurnedToggled ==
    ASSUME NEW h \in TurnedType, NEW n \in 0 .. MaxTurns, NEW b \in SUBSET Fades
    PROVE  [h EXCEPT !.turns = n, !.blinked = b] \in TurnedType
<1> DEFINE p == [h EXCEPT !.turns = n]
<1>1. p \in TurnedType
  BY DEF TurnedType
<1>2. [h EXCEPT !.turns = n, !.blinked = b] = [p EXCEPT !.blinked = b]
  OBVIOUS
<1> HIDE DEF p
<1> QED
  BY <1>1, <1>2 DEF TurnedType

LEMMA TurnedAimed ==
    ASSUME NEW h \in TurnedType, NEW n \in 0 .. MaxTurns, NEW i \in Aims \cup {"none", "user"}
    PROVE  [h EXCEPT !.turns = n, !.intent = i] \in TurnedType
<1> DEFINE p == [h EXCEPT !.turns = n]
<1>1. p \in TurnedType
  BY DEF TurnedType
<1>2. [h EXCEPT !.turns = n, !.intent = i] = [p EXCEPT !.intent = i]
  OBVIOUS
<1> HIDE DEF p
<1> QED
  BY <1>1, <1>2 DEF TurnedType

\* A layer changed to one of its type.
LEMMA OneLayer ==
    ASSUME layer \in [F!Layers -> LayerType], NEW x \in F!Layers, NEW v \in LayerType,
           layer' = [layer EXCEPT ![x] = v]
    PROVE  layer' \in [F!Layers -> LayerType]
OBVIOUS

-----------------------------------------------------------------------------
\* One layer toggles, moves, runs its effect or its timer.
LEMMA ToggleTypes == \A x \in F!Layers : FrameTypes /\ F!Toggle(x) => FrameTypes'
<1> SUFFICES ASSUME FrameTypes, NEW x \in F!Layers, F!Toggle(x) PROVE FrameTypes'
  OBVIOUS
<1> DEFINE r == layer[x]
           on == ~r.want
           m == r.mounted \/ (on /\ x \in Fades \cup Labels)
           e == x \in Labels \cup Pins
           s == [r EXCEPT !.want = on, !.mounted = m, !.effect = e]
           b == IF x \in Fades /\ ~on /\ r.mounted /\ r.level = 0 THEN turned.blinked \cup {x} ELSE turned.blinked \ {x}
           asks == window.asked \/ x \in Lines \/ (on /\ ~r.mounted /\ x \in Fades)
<1>1. r \in LayerType
  BY DEF FrameTypes
<1>2. on \in BOOLEAN /\ m \in BOOLEAN /\ e \in BOOLEAN
  BY <1>1 DEF LayerType
<1>3. s \in LayerType
  <2> HIDE DEF r, on, m, e
  <2> QED
    BY <1>1, <1>2, LayerToggled
<1>4. layer' = [layer EXCEPT ![x] = s]
  BY DEF F!Toggle
<1>5. layer' \in [F!Layers -> LayerType]
  <2> HIDE DEF s
  <2> QED
    BY <1>3, <1>4, OneLayer DEF FrameTypes
<1>6. window' \in WindowType
  <2>1. window' = [window EXCEPT !.asked = asks] /\ asks \in BOOLEAN
    BY DEF F!Toggle
  <2> HIDE DEF asks
  <2> QED
    BY <2>1 DEF FrameTypes, WindowType
<1>7. turned' \in TurnedType
  <2>1. turned' = [turned EXCEPT !.turns = turned.turns + 1, !.blinked = b]
    BY DEF F!Toggle
  <2>2. turned \in TurnedType /\ turned.turns + 1 \in 0 .. MaxTurns /\ b \in SUBSET Fades
    BY TurnsBound DEF F!Toggle, F!Turns, FrameTypes, TurnedType
  <2> HIDE DEF b
  <2> QED
    BY <2>1, <2>2, TurnedToggled
<1>8. camera' \in CameraType
  BY DEF F!Toggle, FrameTypes
<1> QED
  BY <1>5, <1>6, <1>7, <1>8 DEF FrameTypes, F!Layers, WindowType, LayerType, CameraType, TurnedType, Aims

LEMMA MovedTypes == \A x \in F!Layers : FrameTypes /\ F!Moved(x) => FrameTypes'
<1> SUFFICES ASSUME FrameTypes, NEW x \in F!Layers, F!Moved(x) PROVE FrameTypes'
  OBVIOUS
<1>1. layer' \in [F!Layers -> LayerType]
  BY DEF F!Moved, FrameTypes, LayerType
<1>2. window' \in WindowType
  BY DEF F!Moved, FrameTypes, WindowType
<1>3. turned' \in TurnedType
  BY TurnsBound DEF F!Moved, F!Turns, FrameTypes, TurnedType
<1>4. camera' \in CameraType
  BY DEF F!Moved, FrameTypes
<1> QED
  BY <1>1, <1>2, <1>3, <1>4 DEF FrameTypes, F!Layers, WindowType, LayerType, CameraType, TurnedType, Aims

LEMMA EffectTypes == \A x \in F!Layers : FrameTypes /\ F!Effect(x) => FrameTypes'
<1> SUFFICES ASSUME FrameTypes, NEW x \in F!Layers, F!Effect(x) PROVE FrameTypes'
  OBVIOUS
<1> DEFINE r == layer[x]
           stays == x \in Pins /\ ~r.want /\ r.mounted
           t == IF x \in Labels THEN ~r.want ELSE stays
           m == r.mounted \/ r.want
           l == IF x \in Labels THEN r.level ELSE IF r.want THEN 2 ELSE IF stays THEN 1 ELSE 0
           s == [r EXCEPT !.effect = FALSE, !.timer = t, !.mounted = m, !.level = l]
<1>1. r \in LayerType
  BY DEF FrameTypes
<1>2. t \in BOOLEAN /\ m \in BOOLEAN
  BY <1>1 DEF LayerType
<1>3. l \in 0 .. 2
  BY <1>1 DEF LayerType
<1>4. s \in LayerType
  <2> HIDE DEF r, t, m, l
  <2> QED
    BY <1>1, <1>2, <1>3, LayerEffected
<1>5. layer' = [layer EXCEPT ![x] = s]
  BY DEF F!Effect
<1>6. layer' \in [F!Layers -> LayerType]
  <2> HIDE DEF s
  <2> QED
    BY <1>4, <1>5, OneLayer DEF FrameTypes
<1>7. window' = window /\ camera' = camera /\ turned' = turned
  BY DEF F!Effect
<1> QED
  BY <1>6, <1>7 DEF FrameTypes, F!Layers, WindowType, LayerType, CameraType, TurnedType, Aims

LEMMA TimerTypes == \A x \in F!Layers : FrameTypes /\ F!Timer(x) => FrameTypes'
<1> SUFFICES ASSUME FrameTypes, NEW x \in F!Layers, F!Timer(x) PROVE FrameTypes'
  OBVIOUS
<1> DEFINE r == layer[x]
           m == x \in Labels /\ r.want
           l == IF x \in Pins THEN 0 ELSE r.level
           s == [r EXCEPT !.timer = FALSE, !.mounted = m, !.level = l]
<1>1. r \in LayerType
  BY DEF FrameTypes
<1>2. m \in BOOLEAN /\ l \in 0 .. 2
  BY <1>1 DEF LayerType
<1>3. s \in LayerType
  <2> HIDE DEF r, m, l
  <2> QED
    BY <1>1, <1>2, LayerTimed
<1>4. layer' = [layer EXCEPT ![x] = s]
  BY DEF F!Timer
<1>5. layer' \in [F!Layers -> LayerType]
  <2> HIDE DEF s
  <2> QED
    BY <1>3, <1>4, OneLayer DEF FrameTypes
<1>6. window' = window /\ camera' = camera /\ turned' = turned
  BY DEF F!Timer
<1> QED
  BY <1>5, <1>6 DEF FrameTypes, F!Layers, WindowType, LayerType, CameraType, TurnedType, Aims

-----------------------------------------------------------------------------
\* A frame advances every layer, and the camera.
LEMMA FrameKeepsTypes == FrameTypes /\ F!Frame => FrameTypes'
<1> SUFFICES ASSUME FrameTypes, F!Frame PROVE FrameTypes'
  OBVIOUS
<1>1. ASSUME NEW x \in F!Layers PROVE F!Advanced(x) \in LayerType
  <2>1. layer[x] \in LayerType
    BY DEF FrameTypes
  <2>2. F!Target(x) \in 0 .. 2
    BY DEF F!Target
  <2>3. F!Near(layer[x].level, F!Target(x)) \in 0 .. 2 /\ F!Near(layer[x].away, 0) \in 0 .. 2
    BY <2>1, <2>2, NearType DEF LayerType
  <2> QED
    BY <2>1, <2>3 DEF F!Advanced, LayerType
<1>2. layer' \in [F!Layers -> LayerType]
  BY <1>1 DEF F!Frame
<1>3. camera' \in CameraType
  <2>1. camera \in CameraType /\ camera.goal \in Aims \cup {"none"} /\ camera.idle \in 0 .. 2
    BY DEF FrameTypes, CameraType
  <2>2. F!Near(camera.idle, 2) \in 0 .. 2
    BY <2>1, NearType
  <2>3. F!Glide \in CameraType
    BY <2>1, <2>2 DEF F!Glide, CameraType
  <2> QED
    BY <2>3 DEF F!Frame
<1>4. window' \in WindowType
  BY DEF F!Frame, FrameTypes, WindowType
<1>5. turned' = turned
  BY DEF F!Frame
<1> QED
  BY <1>2, <1>3, <1>4, <1>5 DEF FrameTypes, F!Layers, WindowType, LayerType, CameraType, TurnedType, Aims

LEMMA UserKeepsTypes ==
    /\ \A is \in {"focus", "visible", "hidden"} : FrameTypes /\ F!Turn(is) => FrameTypes'
    /\ \A intent \in {"preset", "point"} : FrameTypes /\ F!Aim(intent) => FrameTypes'
    /\ FrameTypes /\ (F!Bounds \/ F!Grab \/ F!Release) => FrameTypes'
<1>1. ASSUME FrameTypes, NEW is \in {"focus", "visible", "hidden"}, F!Turn(is) PROVE FrameTypes'
  <2>1. window' \in WindowType
    BY <1>1 DEF F!Turn, FrameTypes, WindowType
  <2>2. turned' \in TurnedType
    BY <1>1, TurnsBound DEF F!Turn, F!Turns, FrameTypes, TurnedType
  <2>3. layer' = layer /\ camera' = camera
    BY <1>1 DEF F!Turn
  <2> QED
    BY <1>1, <2>1, <2>2, <2>3 DEF FrameTypes, F!Layers, WindowType, LayerType, CameraType, TurnedType, Aims
<1>2. ASSUME FrameTypes PROVE camera \in CameraType /\ turned \in TurnedType
  BY <1>2 DEF FrameTypes
<1>3. ASSUME FrameTypes, camera' \in CameraType, turned' \in TurnedType, UNCHANGED <<window, layer>>
      PROVE  FrameTypes'
  BY <1>3 DEF FrameTypes, F!Layers, WindowType, LayerType, CameraType, TurnedType, Aims
<1>4. ASSUME FrameTypes, F!Turns
      PROVE  turned.turns + 1 \in 0 .. MaxTurns /\ turned.blinked \in SUBSET Fades
  BY <1>4, TurnsBound DEF FrameTypes, TurnedType, F!Turns
<1>5. ASSUME FrameTypes, NEW intent \in {"preset", "point"}, F!Aim(intent) PROVE FrameTypes'
  <2>1. camera' = [camera EXCEPT !.goal = intent, !.far = TRUE, !.idle = 0]
    BY <1>5 DEF F!Aim
  <2>2. turned' = [turned EXCEPT !.turns = turned.turns + 1, !.intent = intent] /\ UNCHANGED <<window, layer>> /\ F!Turns
    BY <1>5 DEF F!Aim
  <2>3. intent \in Aims /\ intent \in Aims \cup {"none", "user"}
    BY DEF Aims
  <2>4. camera' \in CameraType
    BY <1>2, <1>5, <2>1, <2>3, CameraAimed
  <2>5. turned' \in TurnedType
    BY <1>2, <1>4, <1>5, <2>2, <2>3, TurnedAimed
  <2> QED
    BY <1>3, <1>5, <2>2, <2>4, <2>5
<1>6. ASSUME FrameTypes, F!Bounds PROVE FrameTypes'
  <2>1. camera' = [camera EXCEPT !.goal = "first", !.idle = 0]
    BY <1>6 DEF F!Bounds
  <2>2. turned' = [turned EXCEPT !.intent = "first"] /\ UNCHANGED <<window, layer>>
    BY <1>6 DEF F!Bounds
  <2>3. "first" \in Aims /\ "first" \in Aims \cup {"none", "user"}
    BY DEF Aims
  <2>4. camera' \in CameraType
    BY <1>2, <1>6, <2>1, <2>3, CameraFramed
  <2>5. turned' \in TurnedType
    BY <1>2, <1>6, <2>2, <2>3 DEF TurnedType
  <2> QED
    BY <1>3, <1>6, <2>2, <2>4, <2>5
<1>7. ASSUME FrameTypes, F!Grab PROVE FrameTypes'
  <2>1. camera' = [camera EXCEPT !.goal = "none", !.far = FALSE, !.at = "user", !.held = TRUE, !.idle = 0]
    BY <1>7 DEF F!Grab
  <2>2. turned' = [turned EXCEPT !.turns = turned.turns + 1, !.intent = "user"] /\ UNCHANGED <<window, layer>> /\ F!Turns
    BY <1>7 DEF F!Grab
  <2>3. camera' \in CameraType
    BY <1>2, <1>7, <2>1, CameraTaken
  <2>4. turned' \in TurnedType
    BY <1>2, <1>4, <1>7, <2>2, TurnedAimed
  <2> QED
    BY <1>3, <1>7, <2>2, <2>3, <2>4
<1>8. ASSUME FrameTypes, F!Release PROVE FrameTypes'
  <2>1. camera' = [camera EXCEPT !.held = FALSE, !.idle = 0] /\ UNCHANGED <<window, layer, turned>>
    BY <1>8 DEF F!Release
  <2>2. camera' \in CameraType
    BY <1>2, <1>8, <2>1, CameraReleased
  <2> QED
    BY <1>2, <1>3, <1>8, <2>1, <2>2
<1> QED
  BY <1>1, <1>5, <1>6, <1>7, <1>8

LEMMA FrameTypesKept == F!Spec => []FrameTypes
<1>1. F!Init => FrameTypes
  <2> SUFFICES ASSUME F!Init PROVE FrameTypes
    OBVIOUS
  <2>1. window \in WindowType /\ camera \in CameraType
    BY DEF F!Init, WindowType, CameraType
  <2>2. turned \in TurnedType
    BY TurnsBound DEF F!Init, TurnedType
  <2>3. F!Hidden \in LayerType
    BY DEF F!Hidden, LayerType
  <2>4. ASSUME NEW x \in F!Layers PROVE [F!Hidden EXCEPT !.mounted = x \in Culled \cup Lines] \in LayerType
    <3> DEFINE m == x \in Culled \cup Lines
    <3>1. m \in BOOLEAN
      OBVIOUS
    <3> HIDE DEF m
    <3>2. [F!Hidden EXCEPT !.mounted = m] \in LayerType
      BY <3>1, <2>3 DEF LayerType
    <3> QED
      BY <3>2 DEF m
  <2>5. layer \in [F!Layers -> LayerType]
    BY <2>4 DEF F!Init
  <2> QED
    BY <2>1, <2>2, <2>5 DEF FrameTypes
<1>2. FrameTypes /\ [F!Next]_(F!vars) => FrameTypes'
  <2>1. FrameTypes /\ UNCHANGED F!vars => FrameTypes'
    BY DEF F!vars, FrameTypes, F!Layers, WindowType, LayerType, CameraType, TurnedType, Aims
  <2> QED
    BY <2>1, ToggleTypes, MovedTypes, EffectTypes, TimerTypes, FrameKeepsTypes, UserKeepsTypes DEF F!Next
<1> QED
  BY <1>1, <1>2, PTL DEF F!Spec

-----------------------------------------------------------------------------
\* Both facts are inductive: what takes or sends the camera notes it, and what
\* ends a glide leaves it where it was sent.
LEMMA CameraStep == FrameTypes /\ F!CameraObeys /\ [F!Next]_(F!vars) => F!CameraObeys'
<1> SUFFICES ASSUME FrameTypes, F!CameraObeys, [F!Next]_(F!vars) PROVE F!CameraObeys'
  OBVIOUS
<1>1. camera \in CameraType /\ turned \in TurnedType
  BY DEF FrameTypes
<1>2. camera' = camera /\ turned'.intent = turned.intent => F!CameraObeys'
  BY DEF F!CameraObeys
<1>3. ASSUME NEW x \in F!Layers, F!Toggle(x) \/ F!Moved(x) \/ F!Effect(x) \/ F!Timer(x) PROVE F!CameraObeys'
  BY <1>1, <1>2, <1>3 DEF F!Toggle, F!Moved, F!Effect, F!Timer, TurnedType
<1>4. ASSUME NEW is \in {"focus", "visible", "hidden"}, F!Turn(is) PROVE F!CameraObeys'
  BY <1>1, <1>2, <1>4 DEF F!Turn, TurnedType
<1>5. ASSUME F!Frame PROVE F!CameraObeys'
  <2>1. camera' = F!Glide /\ turned' = turned
    BY <1>5 DEF F!Frame
  <2>2. CASE camera.goal = "none"
    <3>1. camera' = [camera EXCEPT !.idle = IF camera.held \/ camera.at = "none" THEN camera.idle ELSE F!Near(camera.idle, 2)]
      BY <2>1, <2>2 DEF F!Glide
    <3>2. camera'.goal = "none" /\ camera'.at = camera.at /\ camera'.held = camera.held
          /\ (camera.held => camera'.idle = camera.idle)
      BY <1>1, <3>1, <2>2 DEF CameraType
    <3> QED
      BY <2>1, <2>2, <3>2 DEF F!CameraObeys
  <2>3. CASE camera.goal # "none" /\ (camera.at = "none" \/ ~camera.far)
    <3>1. camera' = [camera EXCEPT !.at = camera.goal, !.goal = "none", !.far = FALSE]
      BY <2>1, <2>3 DEF F!Glide
    <3>2. camera'.goal = "none" /\ camera'.at = camera.goal /\ camera'.idle = camera.idle
      BY <1>1, <3>1 DEF CameraType
    <3> QED
      BY <2>1, <2>3, <3>2 DEF F!CameraObeys
  <2>4. CASE camera.goal # "none" /\ ~(camera.at = "none" \/ ~camera.far)
    <3>1. camera' = [camera EXCEPT !.far = FALSE]
      BY <2>1, <2>4 DEF F!Glide
    <3>2. camera'.goal = camera.goal /\ camera'.at = camera.at /\ camera'.idle = camera.idle
      BY <1>1, <3>1 DEF CameraType
    <3> QED
      BY <2>1, <2>4, <3>2 DEF F!CameraObeys
  <2> QED
    BY <2>2, <2>3, <2>4
<1>6. ASSUME F!Bounds PROVE F!CameraObeys'
  BY <1>1, <1>6 DEF F!Bounds, F!CameraObeys, CameraType, TurnedType
<1>7. ASSUME NEW intent \in {"preset", "point"}, F!Aim(intent) PROVE F!CameraObeys'
  BY <1>1, <1>7 DEF F!Aim, F!CameraObeys, CameraType, TurnedType
<1>8. ASSUME F!Grab PROVE F!CameraObeys'
  BY <1>1, <1>8 DEF F!Grab, F!CameraObeys, CameraType, TurnedType
<1>9. ASSUME F!Release PROVE F!CameraObeys'
  <2>1. camera'.goal = camera.goal /\ camera'.at = camera.at /\ camera'.idle = 0 /\ turned' = turned
    BY <1>1, <1>9 DEF F!Release, CameraType
  <2> QED
    BY <2>1 DEF F!CameraObeys
<1>10. CASE UNCHANGED F!vars
  BY <1>2, <1>10 DEF F!vars
<1> QED
  BY <1>3, <1>4, <1>5, <1>6, <1>7, <1>8, <1>9, <1>10 DEF F!Next

\* A timer that still runs on a pin means that the pin is not wanted; so a
\* timer that fires takes none that is.
LEMMA PinsStep == FrameTypes /\ F!PinsPresent /\ [F!Next]_(F!vars) => F!PinsPresent'
<1> SUFFICES ASSUME FrameTypes, F!PinsPresent, [F!Next]_(F!vars), NEW p \in Pins, ~layer'[p].effect
             PROVE  /\ layer'[p].want => layer'[p].level = 2 /\ ~layer'[p].timer
                    /\ layer'[p].mounted => layer'[p].want \/ layer'[p].timer
  BY DEF F!PinsPresent
<1> DEFINE Goal == /\ layer'[p].want => layer'[p].level = 2 /\ ~layer'[p].timer
                   /\ layer'[p].mounted => layer'[p].want \/ layer'[p].timer
<1>1. p \in F!Layers /\ p \notin Labels /\ p \notin Fades /\ p \notin Culled /\ p \notin Lines
  BY LiveAssumption DEF F!Layers, F!FramesAssumption
<1>2. layer[p] \in LayerType /\ DOMAIN layer = F!Layers
  BY <1>1 DEF FrameTypes
<1>3. ~layer[p].effect => /\ layer[p].want => layer[p].level = 2 /\ ~layer[p].timer
                          /\ layer[p].mounted => layer[p].want \/ layer[p].timer
  BY DEF F!PinsPresent
<1>4. layer'[p] = layer[p] => Goal
  BY <1>3
<1>5. ASSUME NEW x \in F!Layers, F!Toggle(x) PROVE Goal
  <2>1. CASE x = p
    <3>1. layer'[p].effect = (p \in Labels \cup Pins)
      BY <1>1, <1>2, <1>5, <2>1 DEF F!Toggle, LayerType
    <3> QED
      BY <3>1
  <2>2. CASE x # p
    BY <1>1, <1>2, <1>4, <1>5, <2>2 DEF F!Toggle
  <2> QED
    BY <2>1, <2>2
<1>6. ASSUME NEW x \in F!Layers, F!Moved(x) PROVE Goal
  <2>1. layer' = [layer EXCEPT ![x].away = 2]
    BY <1>6 DEF F!Moved
  <2>2. /\ layer'[p].effect = layer[p].effect /\ layer'[p].want = layer[p].want /\ layer'[p].level = layer[p].level
        /\ layer'[p].timer = layer[p].timer /\ layer'[p].mounted = layer[p].mounted
    BY <1>1, <1>2, <2>1 DEF LayerType
  <2> QED
    BY <1>3, <2>2
<1>7. ASSUME NEW x \in F!Layers, F!Effect(x) PROVE Goal
  <2>1. CASE x = p
    <3>1. /\ layer'[p].want = layer[p].want
          /\ layer'[p].timer = (~layer[p].want /\ layer[p].mounted)
          /\ layer'[p].mounted = (layer[p].mounted \/ layer[p].want)
          /\ layer[p].want => layer'[p].level = 2
      BY <1>1, <1>2, <1>7, <2>1 DEF F!Effect, LayerType
    <3> QED
      BY <3>1
  <2>2. CASE x # p
    BY <1>1, <1>2, <1>4, <1>7, <2>2 DEF F!Effect
  <2> QED
    BY <2>1, <2>2
<1>8. ASSUME NEW x \in F!Layers, F!Timer(x) PROVE Goal
  <2>1. CASE x = p
    <3>1. /\ layer[p].timer /\ layer'[p].effect = layer[p].effect /\ layer'[p].want = layer[p].want
          /\ layer'[p].mounted = FALSE
      BY <1>1, <1>2, <1>8, <2>1 DEF F!Timer, LayerType
    <3> QED
      BY <1>3, <3>1
  <2>2. CASE x # p
    BY <1>1, <1>2, <1>4, <1>8, <2>2 DEF F!Timer
  <2> QED
    BY <2>1, <2>2
<1>9. ASSUME F!Frame PROVE Goal
  <2>1. layer'[p] = F!Advanced(p)
    BY <1>1, <1>9 DEF F!Frame
  <2>2. /\ layer'[p].effect = layer[p].effect /\ layer'[p].want = layer[p].want /\ layer'[p].timer = layer[p].timer
        /\ layer'[p].level = layer[p].level /\ layer'[p].mounted = layer[p].mounted
    BY <1>1, <1>2, <2>1 DEF F!Advanced, F!Eased, LayerType
  <2> QED
    BY <1>3, <2>2
<1>10. ASSUME UNCHANGED layer PROVE Goal
  BY <1>4, <1>10
<1> QED
  BY <1>5, <1>6, <1>7, <1>8, <1>9, <1>10
  DEF F!Next, F!Turn, F!Bounds, F!Aim, F!Grab, F!Release, F!vars

-----------------------------------------------------------------------------
\* The feed and the layers of the view keep their shape.
THEOREM LiveTypeSafe == LiveSpec => []LiveTypeOK
<1>1. FrameTypes => F!TypeOK
  BY SameTypes
<1> QED
  BY <1>1, FeedTypeSafe, FrameTypesKept, FeedSide, FramesSide, PTL DEF LiveTypeOK

\* The camera is where it was last sent or taken, or on its way there
\* (terrain-camera.tsx), and no timer takes a pin that is wanted (markers.tsx).
THEOREM LiveFollowsLast == LiveSpec => []FollowsLast
<1>1. F!Init => F!CameraObeys /\ F!PinsPresent
  <2>1. F!Init => F!CameraObeys
    BY DEF F!Init, F!CameraObeys
  <2>2. F!Init => F!PinsPresent
    <3> SUFFICES ASSUME F!Init, NEW p \in Pins PROVE ~layer[p].want /\ ~layer[p].mounted
      BY DEF F!PinsPresent
    <3>1. layer[p] = [F!Hidden EXCEPT !.mounted = p \in Culled \cup Lines]
      BY DEF F!Init, F!Layers
    <3>2. p \notin Culled \cup Lines
      BY LiveAssumption DEF F!FramesAssumption
    <3> QED
      BY <3>1, <3>2 DEF F!Hidden
  <2> QED
    BY <2>1, <2>2
<1> QED
  BY <1>1, CameraStep, PinsStep, FrameTypesKept, FramesSide, PTL DEF FollowsLast, F!Spec
=============================================================================
